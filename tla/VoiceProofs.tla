----------------------------- MODULE VoiceProofs -----------------------------
(* Proofs about the voices: the activation of one (VoiceSettings, with the   *)
(* settings and the packs it works on), and the lists and samples to choose  *)
(* one by (VoicePreview over VoiceCatalog).  For every number of voices,     *)
(* packs, handlers, scopes and cache entries, and every bound.               *)
EXTENDS VoiceSettings, VoicePreview, FiniteSetTheorems, SequenceTheorems, TLAPS

-----------------------------------------------------------------------------
(* Activation.                                                               *)

Before == {"match", "stage", "lock", "validate", "publish", "commit"}
After  == {"pin", "collect", "gc", "close"}
Places == {"none", "bare", "stage", "ready", "published", "trash", "gone"}
WasType == [lref : Voices, lcat : BOOLEAN, lpack : Packs, lmgmt : Managements, lstatus : Statuses]
OpType == [kind : {"none", "activate", "regenerate", "rollback"}, at : Before \cup After \cup {"idle"},
           want : Nat, ref : Voices, cat : BOOLEAN, stages : BOOLEAN, snapshot : 0 .. MaxText,
           pack : Packs, mgmt : Managements \cup {"none"}, status : Statuses \cup {"none"},
           was : WasType \cup {[ref |-> NoVoice]}, keep : SUBSET Pack, lkg : Packs,
           blind : BOOLEAN, doomed : SUBSET Pack]

Typed == /\ TypeOK /\ cfg.fillers <= cfg.ver
         /\ op \in OpType /\ text \in 0 .. MaxText /\ crashes \in Nat /\ faults \in Nat

\* Settings that were never written are the defaults, which an unreadable file counts as.
Unwritten == cfg.ver = 1 => cfg = DefaultSettings

\* A pair of voice and pack fits, unless its pack was lost, and is "ready" when it
\* has a pack.
Fits(pack, ref, status) == /\ pack \notin lost \cup {NoPack} => Resolves(pack, ref)
                           /\ status = "ready" <=> pack # NoPack
Pointers == /\ cfg.voice = cfg.ref
            /\ Fits(cfg.pack, cfg.ref, cfg.status)
            /\ Fits(cfg.lpack, cfg.lref, cfg.lstatus)

\* An operation runs in an open service only.
InService == /\ op.at = "idle" => op = NoOp
             /\ op # NoOp => service = "open"

\* What an operation remembers of the settings fits, and is what they still
\* hold when their version has not moved on.
Remembered ==
    op.at \in Before =>
       /\ op.want < MaxVersion
       /\ op.was \in WasType /\ op.mgmt \in Managements
       /\ ~forgotten => op.want <= cfg.ver /\ (cfg.ver = op.want => op.was = Was(cfg))
       /\ Fits(op.was.lpack, op.was.lref, op.was.lstatus)

\* What it will commit fits as well.
Staging == {"lock", "validate", "publish"}
Prepared ==
    /\ op.at = "match" => op.pack = NoPack /\ (op.stages \/ op.status \in {"stale", "unavailable"})
    /\ op.at \in Staging => op.pack \in Pack /\ made[op.pack].voice = op.ref
    /\ op.at = "commit" => op.status \in Statuses /\ Fits(op.pack, op.ref, op.status)

\* The retention keeps what the settings name.
Retained ==
    /\ op.at \in {"pin", "collect"} /\ ~op.blind => {cfg.pack, cfg.lpack} \subseteq op.keep \cup {NoPack}
    /\ op.at = "gc" => {cfg.pack, cfg.lpack} \cap op.doomed \subseteq lost

\* What is on disk and not among the packs is the operation's, or was left there.
Staged == {"bare", "stage", "ready"}
Owned ==
    service = "open" =>
       /\ \A p \in Pack : place[p] \in Staged => p \in left \/ (op.at \in Staging /\ p = op.pack)
       /\ \A p \in Pack : place[p] = "trash" => p \in left \/ (op.at = "gc" /\ p \in op.doomed)
       /\ strays => "gc" \in spoiled
       /\ op = NoOp /\ journal => "activation" \in spoiled

IInv == /\ Typed /\ Unwritten /\ Pointers /\ InService /\ Remembered /\ Prepared /\ Retained
        /\ Owned

-----------------------------------------------------------------------------
(* What the writes of the settings leave in each field.                     *)

CfgType == [ver : 1..MaxVersion, fillers : 1..MaxVersion,
            voice : Voices, ref : Voices, cat : BOOLEAN, pack : Packs,
            mgmt : Managements, status : Statuses,
            lref : Voices, lcat : BOOLEAN, lpack : Packs,
            lmgmt : Managements, lstatus : Statuses]

\* Settings that a write may start from.
Writable(c) == c \in CfgType /\ c.fillers <= c.ver /\ c.ver < MaxVersion

LEMMA Strings == /\ \A s \in {Legacy, "stale", "unavailable"} : s \in Statuses /\ s # "ready"
                 /\ {"legacy", "raw", "managed"} = Managements /\ "ready" \in Statuses
                 /\ "none" \notin Statuses
BY DEF Legacy, Statuses, Managements

LEMMA DefaultFields ==
    /\ DefaultSettings \in CfgType /\ DefaultSettings.fillers = 1 /\ DefaultSettings.ver = 1
    /\ DefaultSettings.voice = DefaultSettings.ref
    /\ DefaultSettings.pack = NoPack /\ DefaultSettings.lpack = NoPack
    /\ DefaultSettings.status # "ready" /\ DefaultSettings.lstatus # "ready"
<1>1. NoVoice \in Voices /\ NoPack \in Packs /\ Default \in Voices /\ 1 \in 1 .. MaxVersion
  BY VoiceBounds, ConfigConstants DEF Voices, Packs
<1> QED BY <1>1, Strings DEF DefaultSettings, CfgType

\* What a read gives is typed and fits.
LEMMA SettingsFit ==
    ASSUME Typed, Pointers
    PROVE  /\ Settings \in CfgType /\ Settings.fillers <= Settings.ver
           /\ Settings.voice = Settings.ref
           /\ Fits(Settings.pack, Settings.ref, Settings.status)
           /\ Fits(Settings.lpack, Settings.lref, Settings.lstatus)
<1>1. cfg \in CfgType
  BY DEF Typed, TypeOK, CfgType
<1>2. CASE unreadable
  BY <1>2, DefaultFields DEF Settings, Fits
<1>3. CASE ~unreadable
  BY <1>1, <1>3 DEF Settings, Typed, Pointers
<1> QED BY <1>2, <1>3

LEMMA OtherFields ==
    ASSUME NEW c, Writable(c), cfg' = NextVersion(c)
    PROVE  /\ cfg' \in CfgType /\ cfg'.ver = c.ver + 1 /\ cfg'.fillers <= cfg'.ver
           /\ cfg'.voice = c.voice
           /\ Active(cfg') = Active(c) /\ LastKnownGood(cfg') = LastKnownGood(c)
<1>1. c \in CfgType /\ c.ver + 1 \in 1 .. MaxVersion /\ c.fillers <= c.ver + 1
  BY VoiceBounds DEF Writable, CfgType
<1>2. cfg' = [c EXCEPT !.ver = c.ver + 1]
  BY DEF NextVersion
<1> QED BY <1>1, <1>2 DEF CfgType, Active, LastKnownGood

LEMMA RawFields ==
    ASSUME NEW c, Writable(c), NEW v \in Voices, cfg' = NextVersion(WithRawVoice(c, v))
    PROVE  /\ cfg' \in CfgType /\ cfg'.ver = c.ver + 1 /\ cfg'.fillers <= cfg'.ver
           /\ cfg'.voice = v /\ cfg'.ref = v /\ cfg'.pack = NoPack /\ cfg'.status # "ready"
           /\ LastKnownGood(cfg') = IF c.mgmt = "managed" THEN Active(c) ELSE LastKnownGood(c)
<1> DEFINE s == Saved(c)
<1>1. c \in CfgType /\ c.ver + 1 \in 1 .. MaxVersion /\ c.fillers + 1 \in 1 .. MaxVersion
      /\ c.fillers + 1 <= c.ver + 1
  BY VoiceBounds DEF Writable, CfgType
<1>2. /\ s \in CfgType /\ s.ver = c.ver /\ s.fillers = c.fillers
      /\ LastKnownGood(s) = IF c.mgmt = "managed" THEN Active(c) ELSE LastKnownGood(c)
  <2>1. CASE c.mgmt = "managed"
    BY <1>1, <2>1, Strings DEF Saved, CfgType, Active, LastKnownGood
  <2>2. CASE c.mgmt # "managed"
    BY <1>1, <2>2 DEF Saved
  <2> QED BY <2>1, <2>2
<1>3. PICK m \in Managements, t \in Statuses :
         /\ t # "ready"
         /\ WithRawVoice(c, v) = [s EXCEPT !.voice = v, !.ref = v, !.cat = FALSE, !.pack = NoPack,
                                           !.mgmt = m, !.status = t, !.fillers = @ + 1]
  <2> DEFINE m == IF IsDefault(v) THEN "legacy" ELSE "raw"
             t == IF IsDefault(v) THEN Legacy ELSE IF v # NoVoice THEN "stale" ELSE "unavailable"
  <2>1. m \in Managements /\ t \in Statuses /\ t # "ready"
    BY Strings
  <2>2. WithRawVoice(c, v) = [s EXCEPT !.voice = v, !.ref = v, !.cat = FALSE, !.pack = NoPack,
                                       !.mgmt = m, !.status = t, !.fillers = @ + 1]
    BY DEF WithRawVoice
  <2> HIDE DEF m, t
  <2> QED BY <2>1, <2>2
<1> HIDE DEF s
<1>4. cfg' = [ver |-> s.ver + 1, fillers |-> s.fillers + 1, voice |-> v, ref |-> v, cat |-> FALSE,
              pack |-> NoPack, mgmt |-> m, status |-> t, lref |-> s.lref, lcat |-> s.lcat,
              lpack |-> s.lpack, lmgmt |-> s.lmgmt, lstatus |-> s.lstatus]
  BY <1>2, <1>3 DEF NextVersion, CfgType
<1>5. NoPack \in Packs
  BY DEF Packs
<1>6. /\ cfg' \in CfgType /\ cfg'.ver = s.ver + 1 /\ cfg'.fillers = s.fillers + 1
      /\ cfg'.voice = v /\ cfg'.ref = v /\ cfg'.pack = NoPack /\ cfg'.status = t
  <2>1. s.ver + 1 \in 1 .. MaxVersion /\ s.fillers + 1 \in 1 .. MaxVersion
    BY <1>1, <1>2
  <2>2. /\ s.lref \in Voices /\ s.lcat \in BOOLEAN /\ s.lpack \in Packs
        /\ s.lmgmt \in Managements /\ s.lstatus \in Statuses
    BY <1>2 DEF CfgType
  <2>3. m \in Managements /\ t \in Statuses /\ FALSE \in BOOLEAN
    BY <1>3
  <2>4. cfg' \in CfgType
    BY <1>4, <1>5, <2>1, <2>2, <2>3 DEF CfgType
  <2> QED BY <1>4, <2>4
<1>7. LastKnownGood(cfg') = LastKnownGood(s)
  BY <1>2, <1>4 DEF CfgType, LastKnownGood
<1> QED BY <1>1, <1>2, <1>3, <1>6, <1>7

LEMMA CommitFields ==
    ASSUME Writable(Settings), op \in OpType, op.was \in WasType, op.mgmt \in Managements,
           op.status \in Statuses, CommitVoicePointers(op.want, Fields)
    PROVE  /\ cfg' \in CfgType /\ cfg'.ver = Settings.ver + 1 /\ cfg'.fillers <= cfg'.ver
           /\ cfg'.voice = op.ref /\ cfg'.ref = op.ref /\ cfg'.pack = op.pack
           /\ cfg'.status = op.status
           /\ LastKnownGood(cfg') = LastKnownGood(op.was)
<1> DEFINE c == Settings
           u == Updated(c, Fields)
<1>1. /\ c \in CfgType /\ c.ver + 1 \in 1 .. MaxVersion
      /\ c.fillers <= c.ver + 1 /\ c.fillers + 1 <= c.ver + 1
      /\ c.fillers + 1 \in 1 .. MaxVersion /\ op.ref \in Voices /\ op.cat \in BOOLEAN /\ op.pack \in Packs
  BY VoiceBounds DEF Writable, CfgType, OpType
<1>0. \E n \in {c.fillers, c.fillers + 1} : cfg' = NextVersion([u EXCEPT !.fillers = n])
  BY DEF CommitVoicePointers
<1> HIDE DEF c
<1>2. DOMAIN c = {"ver", "fillers", "voice", "ref", "cat", "pack", "mgmt", "status",
                  "lref", "lcat", "lpack", "lmgmt", "lstatus"}
  BY <1>1 DEF CfgType
<1>3. DOMAIN Fields = {"voice", "ref", "cat", "pack", "mgmt", "status",
                       "lref", "lcat", "lpack", "lmgmt", "lstatus"}
  BY DEF Fields
<1>4. u = [ver |-> c.ver, fillers |-> c.fillers, voice |-> op.ref, ref |-> op.ref, cat |-> op.cat,
           pack |-> op.pack, mgmt |-> op.mgmt, status |-> op.status, lref |-> op.was.lref,
           lcat |-> op.was.lcat, lpack |-> op.was.lpack, lmgmt |-> op.was.lmgmt, lstatus |-> op.was.lstatus]
  BY <1>2, <1>3 DEF Updated, Fields
<1>5. PICK n \in {c.fillers, c.fillers + 1} : cfg' = NextVersion([u EXCEPT !.fillers = n])
  BY <1>0
<1> HIDE DEF u
<1> QED BY <1>1, <1>4, <1>5 DEF NextVersion, CfgType, LastKnownGood, WasType, c

-----------------------------------------------------------------------------
(* Init, and the steps beside the operations.                               *)

LEMMA NoOpFields == /\ NoOp \in OpType /\ NoOp.at = "idle" /\ NoOp.keep = {} /\ NoOp.doomed = {}
                    /\ NoVoice \in Voices /\ NoPack \in Packs
<1>1. NoVoice \in Voices /\ NoPack \in Packs /\ 0 \in 0 .. MaxText
  BY VoiceBounds DEF Voices, Packs
<1> QED BY <1>1 DEF NoOp, OpType

\* The end of an operation, up to its finally.
LEMMA EndFields == ASSUME End
                   PROVE  /\ op' \in OpType /\ op' # NoOp /\ op'.at = "close"
                          /\ op'.doomed \cup op'.keep = {} /\ UNCHANGED <<service, journal>>
<1>1. op' = [NoOp EXCEPT !.at = "close"] /\ UNCHANGED <<service, journal>>
  BY DEF End
<1>2. /\ [NoOp EXCEPT !.at = "close"] \in OpType /\ [NoOp EXCEPT !.at = "close"].at = "close"
      /\ [NoOp EXCEPT !.at = "close"].doomed = {} /\ [NoOp EXCEPT !.at = "close"].keep = {}
  BY NoOpFields DEF NoOp, OpType, After
<1> QED BY <1>1, <1>2, NoOpFields

LEMMA InitIInv == Init => IInv
<1> SUFFICES ASSUME Init PROVE IInv
  OBVIOUS
<1>1. /\ cfg \in CfgType /\ cfg.fillers <= cfg.ver /\ cfg = DefaultSettings /\ unreadable = FALSE
      /\ cfg.voice = cfg.ref /\ cfg.pack = NoPack /\ cfg.lpack = NoPack
      /\ cfg.status # "ready" /\ cfg.lstatus # "ready"
  BY DefaultFields DEF Init, InitConfig
<1>3. /\ place \in [Pack -> Places] /\ left = {} /\ spoiled = {} /\ lost = {} /\ forgotten = FALSE
      /\ \A p \in Pack : place[p] = "none"
      /\ made \in [Pack -> [voice : Voices, text : 0..MaxText]] /\ pin \in Packs /\ strays = FALSE
  BY NoOpFields, VoiceBounds DEF Init, InitRegistry, NotMade, Places
<1>4. op = NoOp /\ service = "shut" /\ journal = FALSE /\ text \in 0 .. MaxText /\ crashes \in Nat /\ faults \in Nat
  BY VoiceBounds DEF Init
<1>5. Typed
  BY <1>1, <1>3, <1>4, NoOpFields DEF Typed, TypeOK, CfgType, Places
<1>6. Pointers /\ Unwritten
  BY <1>1 DEF Pointers, Fits, Unwritten
<1> QED BY <1>3, <1>4, <1>5, <1>6, NoOpFields DEF IInv, InService, Remembered, Prepared, Retained, Owned, Before,
        Staging

\* A step that leaves the settings and every published pack alone.
LEMMA PointersStay == ASSUME IInv, cfg' = cfg, lost' = lost,
                             \A p \in Pack : p \in Published => p \in Published' /\ made'[p] = made[p]
                      PROVE Pointers' /\ Unwritten'
<1>1. cfg.pack \in Packs /\ cfg.lpack \in Packs
  BY DEF IInv, Typed, TypeOK
<1> QED BY <1>1 DEF IInv, Pointers, Unwritten, Fits, Resolves, Packs

LEMMA PutSettingKeeps == ASSUME IInv, PutSetting PROVE IInv'
<1> DEFINE c == Settings
<1>1. /\ UNCHANGED <<unreadable, place, made, pin, strays, left, spoiled, op, service, journal, text, crashes,
                     faults, lost>>
      /\ c.ver < MaxVersion /\ forgotten' = (forgotten \/ (unreadable /\ op # NoOp))
  BY DEF PutSetting, locals, bounds, registry, residue
<1>2. cfg' = NextVersion(c) \/ \E v \in Voices : cfg' = NextVersion(WithRawVoice(c, v))
  BY DEF PutSetting, PutVoice, PutOther, Voices
<1>0. /\ c \in CfgType /\ c.fillers <= c.ver /\ c.voice = c.ref
      /\ Fits(c.pack, c.ref, c.status) /\ Fits(c.lpack, c.lref, c.lstatus)
  BY SettingsFit DEF IInv
<1>w. Writable(c)
  BY <1>0, <1>1 DEF Writable
<1>u. unreadable \/ c = cfg
  BY DEF Settings
<1>r. c.pack \in {cfg.pack, NoPack} /\ c.lpack \in {cfg.lpack, NoPack}
  BY DefaultFields DEF Settings
<1> HIDE DEF c
<1>3. /\ cfg' \in CfgType /\ cfg'.ver = c.ver + 1 /\ cfg'.fillers <= cfg'.ver
      /\ \/ /\ cfg'.voice = c.voice
            /\ Active(cfg') = Active(c) /\ LastKnownGood(cfg') = LastKnownGood(c)
         \/ /\ cfg'.voice = cfg'.ref /\ cfg'.pack = NoPack /\ cfg'.status # "ready"
            /\ LastKnownGood(cfg') = Active(c) \/ LastKnownGood(cfg') = LastKnownGood(c)
  <2>1. CASE cfg' = NextVersion(c)
    BY <1>w, <2>1, OtherFields
  <2>2. ASSUME NEW v \in Voices, cfg' = NextVersion(WithRawVoice(c, v))
        PROVE /\ cfg' \in CfgType /\ cfg'.ver = c.ver + 1 /\ cfg'.fillers <= cfg'.ver
              /\ cfg'.voice = cfg'.ref /\ cfg'.pack = NoPack /\ cfg'.status # "ready"
              /\ LastKnownGood(cfg') = Active(c) \/ LastKnownGood(cfg') = LastKnownGood(c)
    BY <1>w, <2>2, RawFields
  <2> QED BY <1>2, <2>1, <2>2
<1>4. Typed'
  <2>1. TypeOK'
    BY <1>1, <1>3 DEF IInv, Typed, TypeOK, CfgType
  <2> QED BY <1>1, <1>3, <2>1 DEF IInv, Typed
<1>5. /\ place' = place /\ made' = made /\ Published' = Published /\ lost' = lost
  BY <1>1 DEF Published, In
\* Each pair of the new settings is one of those that were read, or has no pack.
<1>6. /\ \/ cfg'.pack = c.pack /\ cfg'.ref = c.ref /\ cfg'.status = c.status
         \/ cfg'.pack = NoPack /\ cfg'.status # "ready"
      /\ \/ cfg'.lpack = c.lpack /\ cfg'.lref = c.lref /\ cfg'.lstatus = c.lstatus
         \/ cfg'.lpack = c.pack /\ cfg'.lref = c.ref /\ cfg'.lstatus = c.status
  BY <1>3 DEF Active, LastKnownGood
<1>7. cfg'.voice = cfg'.ref
  BY <1>0, <1>3 DEF Active
<1>8. Pointers'
  BY <1>0, <1>5, <1>6, <1>7 DEF Pointers, Fits, Resolves
<1>v. Unwritten'
  <2>1. c.ver \in 1 .. MaxVersion
    BY <1>0 DEF CfgType
  <2> QED BY <1>3, <2>1, VoiceBounds DEF Unwritten
<1>9. Remembered'
  <2> SUFFICES ASSUME op.at \in Before PROVE Remembered'
    BY <1>1 DEF Remembered
  <2>0. op # NoOp
    BY NoOpFields DEF Before
  <2>1. ~forgotten' => op.want < cfg'.ver /\ op.want <= cfg'.ver /\ op.want # cfg'.ver
    BY <1>1, <1>3, <1>u, <2>0, VoiceBounds DEF IInv, Typed, TypeOK, OpType, CfgType, Remembered
  <2>2. Fits(op.was.lpack, op.was.lref, op.was.lstatus)'
    BY <1>1, <1>5 DEF IInv, Remembered, Fits, Resolves
  <2> QED BY <1>1, <2>1, <2>2 DEF IInv, Remembered
<1>10. Retained'
  <2>1. NoPack \notin op.doomed
    BY ConfigConstants DEF IInv, Typed, OpType
  <2>2. {cfg'.pack, cfg'.lpack} \subseteq {cfg.pack, cfg.lpack, NoPack}
    BY <1>6, <1>r
  <2> QED BY <1>1, <2>1, <2>2 DEF IInv, Retained
<1>11. InService' /\ Owned' /\ Prepared'
  BY <1>1, <1>5 DEF IInv, InService, Owned, Prepared, Fits, Resolves
<1> QED BY <1>4, <1>8, <1>9, <1>10, <1>11, <1>v DEF IInv

\* A step of nobody's operation: the settings' file, the texts, or nothing.
LEMMA TextsKeep == ASSUME IInv, PutFillerTexts \/ Unreadable \/ ReadableAgain \/ Idle \/ UNCHANGED vars PROVE IInv'
<1>1. /\ UNCHANGED <<cfg, place, made, pin, strays, left, spoiled, op, service, journal, crashes, forgotten, lost>>
      /\ text' \in 0 .. MaxText /\ faults' \in Nat /\ unreadable' \in BOOLEAN
  <2>1. text \in 0 .. MaxText /\ faults \in Nat /\ unreadable \in BOOLEAN /\ faults + 1 \in Nat
    BY DEF IInv, Typed, TypeOK
  <2>2. CASE PutFillerTexts
    BY <2>1, <2>2 DEF PutFillerTexts, registry, residue, locals, bounds, history
  <2>3. CASE Unreadable
    BY <2>1, <2>3 DEF Unreadable, Fault, registry, residue, locals, history
  <2>4. CASE ReadableAgain
    BY <2>1, <2>4 DEF ReadableAgain, registry, residue, locals, bounds, history
  <2>5. CASE Idle \/ UNCHANGED vars
    BY <2>1, <2>5 DEF Idle, vars, registry, residue, locals, bounds, history
  <2> QED BY <2>2, <2>3, <2>4, <2>5
<1>2. Published' = Published
  BY <1>1 DEF Published, In
<1>3. Typed'
  BY <1>1 DEF IInv, Typed, TypeOK
<1> QED BY <1>1, <1>2, <1>3 DEF IInv, Unwritten, Pointers, InService, Remembered, Prepared, Retained, Owned,
     Fits, Resolves

-----------------------------------------------------------------------------
(* The process.                                                             *)

LEMMA CrashKeeps == ASSUME IInv, Crash PROVE IInv'
<1>1. /\ op' = NoOp /\ service' = "shut" /\ strays' \in BOOLEAN /\ crashes' \in Nat /\ forgotten' = FALSE
      /\ UNCHANGED <<cfg, unreadable, place, made, pin, left, spoiled, journal, text, faults, lost>>
  BY DEF Crash, residue, IInv, Typed, TypeOK
<1>2. Typed'
  BY <1>1, NoOpFields DEF IInv, Typed, TypeOK
<1>3. Pointers' /\ Unwritten'
  BY <1>1, PointersStay DEF Published, In
<1> QED BY <1>1, <1>2, <1>3, NoOpFields DEF IInv, InService, Remembered, Prepared, Retained, Owned, Before, Staging

\* While the service is shut or recovers, nothing is to be shown of an operation.
LEMMA NotOpenKeeps ==
    ASSUME IInv, service # "open", UNCHANGED <<cfg, unreadable, pin, op, text, crashes, forgotten, lost>>,
           journal' \in BOOLEAN, strays' \in BOOLEAN, faults' \in Nat, left' \subseteq Pack,
           spoiled' \subseteq {"gc", "activation"}, service' \in {"shut", "recovering", "open"},
           place' \in [Pack -> Places], made' \in [Pack -> [voice : Voices, text : 0..MaxText]],
           \A p \in Pack : p \in Published => p \in Published' /\ made'[p] = made[p],
           Owned'
    PROVE  IInv'
<1>1. op = NoOp
  BY DEF IInv, InService
<1>2. Typed'
  BY DEF IInv, Typed, TypeOK, Places
<1>3. Pointers' /\ Unwritten'
  BY PointersStay
<1> QED BY <1>1, <1>2, <1>3, NoOpFields DEF IInv, InService, Remembered, Prepared, Retained, Before, Staging

LEMMA OpenKeeps == ASSUME IInv, OpenService \/ RecoverEnds \/ RecoverRaises PROVE IInv'
<1>1. /\ UNCHANGED <<cfg, unreadable, place, made, pin, strays, op, text, crashes, forgotten, lost>>
      /\ journal' \in BOOLEAN /\ faults' \in Nat /\ left' \subseteq Pack
      /\ spoiled' \subseteq {"gc", "activation"}
      /\ service' \in {"shut", "recovering", "open"} /\ service # "open"
      /\ service' = "open" => /\ Recovered /\ left' = left /\ spoiled \subseteq spoiled'
                              /\ journal' => "activation" \in spoiled'
  <2>0. /\ journal \in BOOLEAN /\ faults \in Nat /\ faults + 1 \in Nat /\ left \subseteq Pack
        /\ spoiled \subseteq {"gc", "activation"}
    BY DEF IInv, Typed, TypeOK
  <2>1. CASE OpenService
    BY <2>0, <2>1 DEF OpenService, bounds, history
  <2>2. CASE RecoverEnds
    <3>1. /\ UNCHANGED <<cfg, unreadable, place, made, pin, strays, op, text, crashes, forgotten, lost, left>>
          /\ service' = "open" /\ service = "recovering" /\ Recovered
      BY <2>2 DEF RecoverEnds, Fault, bounds, history
    <3>2. /\ journal' \in BOOLEAN /\ faults' \in Nat /\ spoiled' \subseteq {"gc", "activation"}
          /\ spoiled \subseteq spoiled'
          /\ journal' => "activation" \in spoiled'
      <4>1. CASE journal' = FALSE /\ UNCHANGED <<spoiled, bounds>>
        BY <2>0, <4>1 DEF bounds
      <4>2. CASE Fault /\ spoiled' = spoiled \cup {"activation"} /\ UNCHANGED journal
        BY <2>0, <4>2 DEF Fault
      <4> QED BY <2>2, <4>1, <4>2 DEF RecoverEnds
    <3>3. left' \subseteq Pack /\ service' \in {"shut", "recovering", "open"} /\ service # "open"
      BY <2>0, <3>1
    <3> QED BY <3>1, <3>2, <3>3
  <2>3. CASE RecoverRaises
    <3>1. /\ UNCHANGED <<cfg, unreadable, place, made, pin, strays, op, text, crashes, forgotten, lost, left, spoiled>>
          /\ service' = "shut" /\ service = "recovering" /\ journal' = FALSE /\ faults' = faults + 1
      BY <2>3 DEF RecoverRaises, Fault, registry, residue, history
    <3> QED BY <2>0, <3>1
  <2> QED BY <2>1, <2>2, <2>3
<1>2. Published' = Published /\ place' \in [Pack -> Places] /\ strays' \in BOOLEAN
      /\ made' \in [Pack -> [voice : Voices, text : 0..MaxText]]
  BY <1>1 DEF Published, In, IInv, Typed, TypeOK, Places
<1>3. Owned'
  BY <1>1 DEF Owned, Recovered, Emptied, Unstaged, In, Staged
<1> QED BY <1>1, <1>2, <1>3, NotOpenKeeps

LEMMA RecoverKeeps == ASSUME IInv, RecoverStep \/ RecoverStays PROVE IInv'
<1>1. /\ service = "recovering" /\ faults' \in Nat
      /\ UNCHANGED <<cfg, unreadable, pin, op, service, journal, text, crashes, forgotten, lost>>
  BY DEF RecoverStep, RecoverStays, Fault, RecoverJournals, RecoverStage, RecoverSkips, RecoverTrash, EmptyTrash,
     JournalStays, StageStays, TrashStays, locals, bounds, history, IInv, Typed, TypeOK
<1>2. /\ strays' \in BOOLEAN /\ left' \subseteq Pack /\ spoiled' \subseteq {"gc", "activation"}
      /\ \/ UNCHANGED <<place, made>>
         \/ \E p \in Pack, to \in {"published", "gone", "bare"} :
               /\ place[p] # "published" /\ place' = [place EXCEPT ![p] = to]
               /\ made' = [made EXCEPT ![p] = NotMade] \/ made' = made
  <2>1. CASE RecoverJournals \/ JournalStays
    BY <2>1 DEF RecoverJournals, JournalStays, residue, IInv, Typed, TypeOK
  <2>2. ASSUME NEW p \in Pack, RecoverStage(p) \/ RecoverSkips(p)
        PROVE /\ strays' \in BOOLEAN /\ left' \subseteq Pack /\ spoiled' \subseteq {"gc", "activation"}
              /\ \/ UNCHANGED <<place, made>>
                 \/ \E to \in {"published", "gone", "bare"} :
                      /\ place[p] # "published" /\ place' = [place EXCEPT ![p] = to]
                      /\ made' = [made EXCEPT ![p] = NotMade] \/ made' = made
    BY <2>2 DEF RecoverStage, RecoverSkips, Move, Unmake, residue, IInv, Typed, TypeOK
  <2>3. ASSUME NEW p \in Pack, StageStays(p)
        PROVE /\ strays' \in BOOLEAN /\ left' \subseteq Pack /\ spoiled' \subseteq {"gc", "activation"}
              /\ \/ UNCHANGED <<place, made>>
                 \/ \E to \in {"published", "gone", "bare"} :
                      /\ place[p] # "published" /\ place' = [place EXCEPT ![p] = to]
                      /\ made' = [made EXCEPT ![p] = NotMade] \/ made' = made
    BY <2>3 DEF StageStays, Move, Unmake, IInv, Typed, TypeOK
  <2>4. ASSUME NEW p \in Pack, RecoverTrash(p) \/ TrashStays(p)
        PROVE /\ strays' \in BOOLEAN /\ left' \subseteq Pack /\ spoiled' \subseteq {"gc", "activation"}
              /\ \/ UNCHANGED <<place, made>>
                 \/ \E to \in {"published", "gone", "bare"} :
                      /\ place[p] # "published" /\ place' = [place EXCEPT ![p] = to]
                      /\ made' = [made EXCEPT ![p] = NotMade] \/ made' = made
    BY <2>4 DEF RecoverTrash, EmptyTrash, TrashStays, Move, Unmake, residue, IInv, Typed, TypeOK
  <2> QED BY <2>1, <2>2, <2>3, <2>4 DEF RecoverStep, RecoverStays
<1>3. NotMade \in [voice : Voices, text : 0..MaxText]
  BY NoOpFields, VoiceBounds DEF NotMade
<1>4. /\ place' \in [Pack -> Places]
      /\ made' \in [Pack -> [voice : Voices, text : 0..MaxText]]
      /\ \A p \in Pack : p \in Published => p \in Published' /\ made'[p] = made[p]
  BY <1>2, <1>3 DEF IInv, Typed, TypeOK, Published, In, Places
<1>5. Owned'
  BY <1>1 DEF Owned
<1> QED BY <1>1, <1>2, <1>4, <1>5, NotOpenKeeps DEF IInv, Typed, TypeOK


-----------------------------------------------------------------------------
(* The operations, up to their commit.                                      *)

\* An operation begins with what the settings hold.
LEMMA StartKeeps ==
    ASSUME IInv, NEW o \in OpType, Start(o), o.at \in {"match", "commit"}, o.mgmt \in Managements,
           o.keep = {} /\ o.doomed = {},
           o.at = "match" => o.pack = NoPack /\ (o.stages \/ o.status \in {"stale", "unavailable"}),
           o.at = "commit" => o.status \in Statuses /\ Fits(o.pack, o.ref, o.status)
    PROVE  IInv'
<1> DEFINE c == Settings
           n == [o EXCEPT !.want = c.ver, !.was = Was(c)]
<1>1. /\ service = "open" /\ op = NoOp /\ c.ver < MaxVersion /\ op' = n /\ journal' = TRUE
      /\ UNCHANGED <<cfg, unreadable, place, made, pin, strays, left, service, text, crashes, faults,
                     forgotten, lost>>
      /\ spoiled' = spoiled \ {"activation"}
  BY DEF Start, bounds, history
<1>0. /\ c \in CfgType /\ Fits(c.pack, c.ref, c.status)
  BY SettingsFit DEF IInv
<1>u. c = cfg \/ c = DefaultSettings
  BY DEF Settings
<1> HIDE DEF c
<1>2. c.ver \in Nat /\ Was(c) \in WasType
  BY <1>0, VoiceBounds DEF CfgType, Was, WasType
<1>3. /\ n \in OpType /\ n.at = o.at /\ n.want = c.ver /\ n.was = Was(c) /\ n.mgmt = o.mgmt
      /\ n.pack = o.pack /\ n.ref = o.ref /\ n.status = o.status /\ n.stages = o.stages
      /\ n.keep = {} /\ n.doomed = {}
  BY <1>2 DEF OpType
<1> HIDE DEF n
<1>4. Published' = Published
  BY <1>1 DEF Published, In
<1>5. Typed' /\ Pointers' /\ Unwritten'
  BY <1>1, <1>3, <1>4, PointersStay DEF IInv, Typed, TypeOK, OpType
<1>6. InService'
  BY <1>1, <1>3 DEF InService
<1>7. Remembered'
  <2>1. Was(c).lpack = c.pack /\ Was(c).lref = c.ref /\ Was(c).lstatus = c.status
    BY DEF Was
  <2>2. c.ver <= cfg.ver /\ (cfg.ver = c.ver => Was(c) = Was(cfg))
    <3>1. cfg.ver \in 1 .. MaxVersion /\ DefaultSettings.ver = 1
      BY DefaultFields DEF IInv, Typed, TypeOK
    <3> QED BY <1>u, <3>1, VoiceBounds DEF IInv, Unwritten
  <2>3. Was(cfg)' = Was(cfg) /\ Fits(Was(c).lpack, Was(c).lref, Was(c).lstatus)
    BY <1>0, <1>1, <2>1 DEF Was
  <2> QED BY <1>1, <1>2, <1>3, <1>4, <2>2, <2>3 DEF Remembered, Fits, Resolves
<1>8. Prepared'
  BY <1>1, <1>3, <1>4 DEF Prepared, Fits, Resolves, Staging
<1>9. Retained'
  BY <1>1, <1>3 DEF Retained
<1>10. Owned'
  <2>1. op'.at \in {"match", "commit"} /\ op' # NoOp
    BY <1>1, <1>3, NoOpFields
  <2> QED BY <1>1, <2>1, NoOpFields DEF IInv, Owned, Staging
<1> QED BY <1>5, <1>6, <1>7, <1>8, <1>9, <1>10 DEF IInv

LEMMA ActivateKeeps == ASSUME IInv, NEW v \in Voice, NEW require \in BOOLEAN, Activate(v, require) PROVE IInv'
<1> DEFINE t == IF Settings.voice # NoVoice THEN "stale" ELSE "unavailable"
           o == [NoOp EXCEPT !.kind = "activate", !.at = "match", !.ref = v,
                             !.cat = v \in Catalogued, !.stages = require, !.mgmt = "managed",
                             !.snapshot = text, !.status = t]
<1>1. Start(o)
  BY DEF Activate
<1>2. t \in {"stale", "unavailable"} /\ t \in Statuses /\ v \in Voices /\ (v \in Catalogued) \in BOOLEAN
      /\ text \in 0 .. MaxText
  BY Strings DEF Voices, IInv, Typed
<1> HIDE DEF t
<1>3. /\ o \in OpType /\ o.at = "match" /\ o.mgmt \in Managements /\ o.keep = {} /\ o.doomed = {}
      /\ o.pack = NoPack /\ o.status = t
  BY <1>2, NoOpFields, Strings DEF NoOp, OpType, Before
<1> HIDE DEF o
<1> QED BY <1>1, <1>2, <1>3, StartKeeps

LEMMA RegenerateKeeps == ASSUME IInv, Regenerate PROVE IInv'
<1> DEFINE o == [NoOp EXCEPT !.kind = "regenerate", !.at = "match", !.ref = Settings.ref,
                             !.cat = Settings.cat, !.stages = TRUE, !.mgmt = "managed",
                             !.snapshot = text]
<1>1. Start(o)
  BY DEF Regenerate
<1>2. Settings.ref \in Voices /\ Settings.cat \in BOOLEAN /\ text \in 0 .. MaxText
  BY SettingsFit DEF IInv, Typed, CfgType
<1>3. /\ o \in OpType /\ o.at = "match" /\ o.mgmt \in Managements /\ o.keep = {} /\ o.doomed = {}
      /\ o.pack = NoPack /\ o.stages
  BY <1>2, NoOpFields, Strings DEF NoOp, OpType, Before
<1> HIDE DEF o
<1> QED BY <1>1, <1>3, StartKeeps

LEMMA RollbackKeeps == ASSUME IInv, NEW v \in Voice, Rollback(v) PROVE IInv'
<1> DEFINE c == Settings
           t == IF c.lpack # NoPack THEN "ready" ELSE c.lstatus
           o == [NoOp EXCEPT !.kind = "rollback", !.at = "commit", !.ref = v,
                             !.cat = c.lcat, !.pack = c.lpack, !.mgmt = c.lmgmt,
                             !.status = t]
<1>1. Start(o) /\ (c.lpack # NoPack => Resolves(c.lpack, v))
  BY DEF Rollback, RollbackResolves
<1>2. c.lcat \in BOOLEAN /\ c.lpack \in Packs /\ c.lmgmt \in Managements /\ c.lstatus \in Statuses
      /\ v \in Voices /\ Fits(c.lpack, c.lref, c.lstatus)
  BY SettingsFit DEF IInv, CfgType, Voices
<1> HIDE DEF c
<1>3. t \in Statuses /\ (t = "ready" <=> c.lpack # NoPack)
  BY <1>2, Strings DEF Fits
<1> HIDE DEF t
<1>4. /\ o \in OpType /\ o.at = "commit" /\ o.mgmt \in Managements /\ o.keep = {} /\ o.doomed = {}
      /\ o.pack = c.lpack /\ o.ref = v /\ o.status = t
  BY <1>2, <1>3, NoOpFields, Strings DEF NoOp, OpType, Before
<1> HIDE DEF o
<1> QED BY <1>1, <1>3, <1>4, StartKeeps DEF Fits

\* A step of the operation before its commit: it keeps what it remembers, and
\* no pack that was published changes.
LEMMA StaysBefore ==
    ASSUME IInv, op.at \in Before,
           UNCHANGED <<cfg, unreadable, pin, strays, left, spoiled, service, journal, text, crashes, faults,
                       forgotten, lost>>,
           op' \in OpType, op'.at \in Before,
           op'.want = op.want, op'.was = op.was, op'.mgmt = op.mgmt,
           place' \in [Pack -> Places],
           made' \in [Pack -> [voice : Voices, text : 0..MaxText]],
           \A p \in Pack : p \in Published => p \in Published' /\ made'[p] = made[p],
           Prepared', Owned'
    PROVE  IInv'
<1>1. Typed'
  BY DEF IInv, Typed, TypeOK, OpType, Places
<1>2. Pointers' /\ Unwritten'
  BY PointersStay
<1>3. InService'
  BY NoOpFields DEF IInv, InService, Before
<1>4. Remembered'
  <2>1. op.was \in WasType /\ op.was.lpack \in Packs
    BY DEF IInv, Remembered, WasType
  <2> QED BY <2>1 DEF IInv, Remembered, Was, Fits, Resolves, Packs
<1>5. Retained'
  BY DEF Retained, Before
<1> QED BY <1>1, <1>2, <1>3, <1>4, <1>5 DEF IInv

LEMMA MatchKeeps == ASSUME IInv, Match PROVE IInv'
<1>1. /\ op.at = "match"
      /\ UNCHANGED <<cfg, unreadable, place, made, pin, strays, left, spoiled, service, journal, text, crashes,
                     faults, forgotten, lost>>
      /\ \/ \E p \in Matching : op' = WithPack(p)
         \/ op' = [op EXCEPT !.at = IF op.stages THEN "stage" ELSE "commit"]
  BY DEF Match, registry, residue, bounds, history
<1>2. /\ op \in OpType /\ text \in 0 .. MaxText /\ 0 \in 0 .. MaxText /\ op.pack = NoPack
      /\ op.stages \/ op.status \in {"stale", "unavailable"}
  BY <1>1, VoiceBounds DEF IInv, Typed, Prepared
<1>3. Published' = Published
  BY <1>1 DEF Published, In
<1>4. /\ op' \in OpType /\ op'.at \in {"stage", "commit"} /\ op'.want = op.want /\ op'.was = op.was
      /\ op'.mgmt = op.mgmt /\ op'.ref = op.ref
      /\ op'.at = "commit" => op'.status \in Statuses /\ Fits(op'.pack, op'.ref, op'.status)
  <2>1. ASSUME NEW p \in Matching, op' = WithPack(p)
        PROVE /\ op' \in OpType /\ op'.at = "commit" /\ op'.want = op.want /\ op'.was = op.was
              /\ op'.mgmt = op.mgmt /\ op'.ref = op.ref /\ op'.pack = p /\ op'.status = "ready"
              /\ p \in Pack /\ Resolves(p, op.ref)
    BY <1>2, <2>1, Strings DEF Matching, Published, In, WithPack, OpType, Before, Packs
  <2>2. ASSUME op' = [op EXCEPT !.at = IF op.stages THEN "stage" ELSE "commit"]
        PROVE /\ op' \in OpType /\ op'.at = (IF op.stages THEN "stage" ELSE "commit") /\ op'.want = op.want
              /\ op'.was = op.was /\ op'.mgmt = op.mgmt /\ op'.ref = op.ref /\ op'.pack = NoPack
              /\ op'.status = op.status
    BY <1>2, <2>2 DEF OpType, Before
  <2> QED BY <1>1, <1>2, <2>1, <2>2, Strings, ConfigConstants DEF Fits
<1>5. Prepared'
  BY <1>1, <1>3, <1>4 DEF Prepared, Fits, Resolves, Staging
<1>6. Owned'
  BY <1>1, <1>4, NoOpFields DEF IInv, Owned, Staging
<1> QED BY <1>1, <1>3, <1>4, <1>5, <1>6, StaysBefore DEF IInv, Typed, TypeOK, Before, Places

LEMMA StageKeeps == ASSUME IInv, Stage PROVE IInv'
<1>1. UNCHANGED <<cfg, unreadable, pin, strays, left, spoiled, service, journal, text, crashes, faults,
                  forgotten, lost>>
  BY DEF Stage, CreateStage, LockStage, ValidateStage, PublishStage, residue, bounds, history
<1>2. op \in OpType /\ 0 \in 0 .. MaxText /\ text \in 0 .. MaxText
  BY VoiceBounds DEF IInv, Typed
<1>3. PICK p \in Pack :
         \/ /\ op.at = "stage" /\ CreateStage(p, op.ref, op.snapshot)
            /\ op' = [op EXCEPT !.at = "lock", !.pack = p]
         \/ /\ op.at = "lock" /\ p = op.pack /\ LockStage(p)
            /\ op' = [op EXCEPT !.at = "validate"]
         \/ /\ op.at = "validate" /\ p = op.pack /\ ValidateStage(p)
            /\ op' = [op EXCEPT !.at = "publish"]
         \/ /\ op.at = "publish" /\ p = op.pack /\ PublishStage(p)
            /\ op' = WithPack(p)
  BY DEF Stage
<1>4. /\ op.at \in Before /\ op' \in OpType /\ op'.at \in Staging \cup {"commit"} /\ op'.pack = p
      /\ op'.want = op.want /\ op'.was = op.was /\ op'.mgmt = op.mgmt /\ op'.ref = op.ref
      /\ op'.at = "commit" => op'.status = "ready"
  <2>1. p \in Packs /\ "ready" \in Statuses
    BY Strings DEF Packs
  <2>2. CASE op.at = "stage"
    BY <1>2, <1>3, <2>1, <2>2 DEF OpType, Before, Staging
  <2>5. CASE op.at = "lock"
    BY <1>2, <1>3, <2>1, <2>5 DEF OpType, Before, Staging
  <2>3. CASE op.at = "validate"
    BY <1>2, <1>3, <2>1, <2>3 DEF OpType, Before, Staging
  <2>4. CASE op.at = "publish"
    BY <1>2, <1>3, <2>1, <2>4 DEF WithPack, OpType, Before, Staging
  <2> QED BY <1>3, <2>2, <2>3, <2>4, <2>5
<1>5. /\ place' \in [Pack -> Places]
      /\ made' \in [Pack -> [voice : Voices, text : 0..MaxText]]
      /\ \A q \in Pack \ {p} : place'[q] = place[q] /\ made'[q] = made[q]
      /\ place[p] # "published" /\ place'[p] # "trash" /\ made'[p].voice = op.ref
      /\ op'.at = "commit" <=> place'[p] = "published"
  <2>1. CASE op.at = "stage"
    <3>1. /\ place[p] = "none" /\ place' = [place EXCEPT ![p] = "bare"]
          /\ made' = [made EXCEPT ![p] = [voice |-> op.ref, text |-> op.snapshot]]
          /\ op' = [op EXCEPT !.at = "lock", !.pack = p]
      BY <1>3, <2>1 DEF CreateStage, Move
    <3>2. [voice |-> op.ref, text |-> op.snapshot] \in [voice : Voices, text : 0..MaxText]
      BY <1>2 DEF OpType
    <3>3. op'.at = "lock"
      BY <1>2, <3>1 DEF OpType
    <3> QED BY <3>1, <3>2, <3>3 DEF IInv, Typed, TypeOK, Places
  <2>4. CASE op.at = "lock"
    BY <1>2, <1>3, <2>4 DEF LockStage, Move, IInv, Typed, TypeOK, OpType, Prepared, Staging, Places
  <2>2. CASE op.at = "validate"
    BY <1>2, <1>3, <2>2 DEF ValidateStage, Move, IInv, Typed, TypeOK, OpType, Prepared, Staging, Places
  <2>3. CASE op.at = "publish"
    BY <1>2, <1>3, <2>3 DEF PublishStage, Move, IInv, Typed, TypeOK, OpType, Prepared, WithPack, Staging, Places
  <2> QED BY <1>3, <2>1, <2>2, <2>3, <2>4
<1>6. \A q \in Pack : q \in Published => q \in Published' /\ made'[q] = made[q]
  BY <1>5 DEF Published, In
<1>7. Prepared'
  <2>1. op'.at # "match" /\ (op'.at = "commit" => op'.at \notin Staging)
    BY <1>4 DEF Staging
  <2>2. op'.at = "commit" => op'.status \in Statuses /\ Fits(op.pack, op.ref, op.status)'
    BY <1>4, <1>5, ConfigConstants, Strings DEF Fits, Resolves, Published, In
  <2> QED BY <1>4, <1>5, <2>1, <2>2 DEF Prepared
<1>8. Owned'
  <2> SUFFICES ASSUME service = "open" PROVE Owned'
    BY <1>1 DEF Owned
  <2>1. \A q \in Pack \ {p} : (place[q] \in Staged => q \in left) /\ (place[q] = "trash" => q \in left)
    <3>1. op.at \in Staging => p = op.pack
      BY <1>3 DEF Staging
    <3> QED BY <1>3, <1>4, <3>1 DEF IInv, Owned, Before
  <2>2. op'.at \in Staging \/ place'[p] \notin Staged
    BY <1>4, <1>5 DEF Staged
  <2>3. op' # NoOp
    BY <1>4, NoOpFields DEF Staging
  <2> QED BY <1>1, <1>4, <1>5, <2>1, <2>2, <2>3 DEF IInv, Owned
<1> QED BY <1>1, <1>4, <1>5, <1>6, <1>7, <1>8, StaysBefore DEF Before, Staging

-----------------------------------------------------------------------------
(* The end of an operation, the commit and the retention.                   *)

\* A step into the finally, or out of it, with nothing of the operation left but
\* what was left behind.
LEMMA EndKeeps ==
    ASSUME IInv, op # NoOp, End \/ op' = NoOp,
           UNCHANGED <<cfg, unreadable, pin, service, text, lost>>,
           forgotten' \in BOOLEAN, crashes' \in Nat, faults' \in Nat, strays' \in BOOLEAN, journal' \in BOOLEAN,
           left' \subseteq Pack, spoiled' \subseteq {"gc", "activation"},
           place' \in [Pack -> Places], made' \in [Pack -> [voice : Voices, text : 0..MaxText]],
           \A p \in Pack : p \in Published => p \in Published' /\ made'[p] = made[p],
           \A p \in Pack : place'[p] \in Staged \cup {"trash"} => p \in left',
           strays' => "gc" \in spoiled',
           op' = NoOp /\ journal' => "activation" \in spoiled'
    PROVE  IInv'
<1>1. /\ op' \in OpType /\ op'.at \in {"close", "idle"} /\ op'.doomed \cup op'.keep = {}
      /\ op'.at = "idle" => op' = NoOp
  BY EndFields, NoOpFields
<1>2. Typed'
  BY <1>1 DEF IInv, Typed, TypeOK, Places
<1>3. Pointers' /\ Unwritten'
  BY PointersStay
<1>4. Owned'
  BY DEF IInv, Owned
<1>5. InService'
  BY <1>1, NoOpFields DEF IInv, InService
<1> QED BY <1>1, <1>2, <1>3, <1>4, <1>5 DEF IInv, Remembered, Prepared, Retained, Before, Staging

\* Out of its staging and its collection, an operation owns nothing on disk.
LEMMA OwnsNothing ==
    ASSUME IInv, op # NoOp, op.at \notin Staging, op.at # "gc"
    PROVE  /\ \A p \in Pack : place[p] \in Staged \cup {"trash"} => p \in left
           /\ strays => "gc" \in spoiled
BY DEF IInv, Owned, InService

\* The types of what the steps below change or leave.
LEMMA Types ==
    ASSUME IInv
    PROVE  /\ forgotten \in BOOLEAN /\ crashes \in Nat /\ faults \in Nat /\ faults + 1 \in Nat
           /\ strays \in BOOLEAN /\ journal \in BOOLEAN
           /\ left \subseteq Pack /\ spoiled \subseteq {"gc", "activation"} /\ lost \subseteq Pack
           /\ place \in [Pack -> Places] /\ made \in [Pack -> [voice : Voices, text : 0..MaxText]]
           /\ pin \in Packs /\ NotMade \in [voice : Voices, text : 0..MaxText] /\ op \in OpType
BY NoOpFields, VoiceBounds DEF IInv, Typed, TypeOK, Places, NotMade

LEMMA FailKeeps == ASSUME IInv, OperationFails \/ RetentionFails PROVE IInv'
<1>1. /\ op.at \in {"match", "stage", "commit", "pin", "collect"} /\ End
      /\ UNCHANGED <<cfg, unreadable, place, made, pin, strays, left, spoiled, service, journal, text,
                     crashes, forgotten, lost>> /\ faults' = faults + 1
  BY DEF OperationFails, RetentionFails, End, Fault, registry, residue, history
<1>2. op # NoOp /\ op.at \notin Staging /\ op.at # "gc" /\ op' # NoOp
  BY <1>1, NoOpFields, EndFields DEF Staging
<1>3. \A p \in Pack : p \in Published => p \in Published' /\ made'[p] = made[p]
  BY <1>1 DEF Published, In
<1> QED BY <1>1, <1>2, <1>3, Types, OwnsNothing, EndKeeps

LEMMA StagingFailKeeps == ASSUME IInv, StagingFails PROVE IInv'
<1>1. /\ op.at \in Staging /\ End /\ AbandonStage(op.pack)
      /\ UNCHANGED <<cfg, unreadable, pin, strays, spoiled, service, journal, text, crashes, forgotten, lost>>
      /\ faults' = faults + 1
  BY DEF StagingFails, Staging, End, Fault, history
<1>2. op # NoOp /\ op' # NoOp /\ service = "open" /\ op.pack \in Pack
  BY <1>1, NoOpFields, EndFields DEF Staging, IInv, InService, Prepared
<1>3. /\ \A p \in Pack : place[p] \in Staged \cup {"trash"} => p \in left \/ p = op.pack
      /\ strays => "gc" \in spoiled
  BY <1>1, <1>2 DEF IInv, Owned, Staging
<1>4. /\ left' \subseteq Pack /\ place' \in [Pack -> Places]
      /\ made' \in [Pack -> [voice : Voices, text : 0..MaxText]]
      /\ \A p \in Pack : p \in Published => p \in Published' /\ made'[p] = made[p]
      /\ \A p \in Pack : place'[p] \in Staged \cup {"trash"} => p \in left'
  <2>1. CASE left' = left \cup {op.pack} /\ UNCHANGED <<place, made>>
    BY <1>2, <1>3, <2>1, Types DEF Published, In
  <2>2. CASE Move(op.pack, "bare", "gone") /\ Unmake(op.pack) /\ UNCHANGED left
    <3>1. /\ place[op.pack] = "bare" /\ place' = [place EXCEPT ![op.pack] = "gone"]
          /\ made' = [made EXCEPT ![op.pack] = NotMade] /\ left' = left
      BY <2>2 DEF Move, Unmake
    <3>2. "gone" \in Places /\ "gone" \notin Staged \cup {"trash"}
      BY DEF Places, Staged
    <3> QED BY <1>2, <1>3, <3>1, <3>2, Types DEF Published, In
  <2> QED BY <1>1, <2>1, <2>2 DEF AbandonStage
<1> QED BY <1>1, <1>2, <1>3, <1>4, Types, EndKeeps

LEMMA CollectFailKeeps == ASSUME IInv, CollectFails PROVE IInv'
<1>1. /\ op.at = "gc" /\ End
      /\ UNCHANGED <<cfg, unreadable, place, made, pin, service, journal, text, crashes, forgotten, lost>>
      /\ faults' = faults + 1 /\ strays' = TRUE /\ spoiled' = spoiled \cup {"gc"}
      /\ left' = left \cup (In("trash") \cap op.doomed)
  BY DEF CollectFails, End, Fault, history
<1>2. op # NoOp /\ op' # NoOp /\ service = "open"
  BY <1>1, NoOpFields, EndFields DEF IInv, InService
<1>3. \A p \in Pack : place'[p] \in Staged \cup {"trash"} => p \in left'
  BY <1>1, <1>2 DEF IInv, Owned, Staging, In
<1>4. /\ left' \subseteq Pack /\ spoiled' \subseteq {"gc", "activation"}
      /\ \A p \in Pack : p \in Published => p \in Published' /\ made'[p] = made[p]
  BY <1>1, Types DEF Published, In
<1> QED BY <1>1, <1>2, <1>3, <1>4, Types, EndKeeps

LEMMA NothingKeeps == ASSUME IInv, CommitNothing \/ PinRaises \/ CollectEnds PROVE IInv'
<1>1. /\ End
      /\ UNCHANGED <<cfg, unreadable, place, made, pin, strays, left, spoiled, service, journal, text,
                     crashes, faults, forgotten, lost>>
      /\ op.at \in {"commit", "pin"} \/ (op.at = "gc" /\ \A p \in op.doomed : place[p] = "gone")
  BY DEF CommitNothing, PinRaises, CollectEnds, End, registry, residue, bounds, history
<1>2. op # NoOp /\ op' # NoOp /\ service = "open" /\ op.at \notin Staging
  BY <1>1, NoOpFields, EndFields DEF IInv, InService, Staging
<1>3. /\ \A p \in Pack : place[p] \in Staged \cup {"trash"} => p \in left
      /\ strays => "gc" \in spoiled
  BY <1>1, <1>2 DEF IInv, Owned
<1>4. \A p \in Pack : p \in Published => p \in Published' /\ made'[p] = made[p]
  BY <1>1 DEF Published, In
<1> QED BY <1>1, <1>2, <1>3, <1>4, Types, EndKeeps

LEMMA CloseKeeps == ASSUME IInv, Close \/ JournalLeft PROVE IInv'
<1>1. /\ op.at = "close" /\ op' = NoOp /\ forgotten' = FALSE
      /\ UNCHANGED <<cfg, unreadable, place, made, pin, strays, left, service, text, crashes, lost>>
      /\ \/ journal' = FALSE /\ spoiled' = spoiled /\ faults' = faults
         \/ journal' = journal /\ spoiled' = spoiled \cup {"activation"} /\ faults' = faults + 1
  BY DEF Close, JournalLeft, Fault, registry, residue, bounds
<1>2. op # NoOp /\ op.at \notin Staging /\ op.at # "gc"
  BY <1>1, NoOpFields DEF Staging
<1>3. \A p \in Pack : p \in Published => p \in Published' /\ made'[p] = made[p]
  BY <1>1 DEF Published, In
<1>4. /\ faults' \in Nat /\ journal' \in BOOLEAN /\ spoiled' \subseteq {"gc", "activation"}
      /\ spoiled \subseteq spoiled' /\ (journal' => "activation" \in spoiled')
  <2>1. CASE journal' = FALSE /\ spoiled' = spoiled /\ faults' = faults
    BY <2>1, Types
  <2>2. CASE journal' = journal /\ spoiled' = spoiled \cup {"activation"} /\ faults' = faults + 1
    BY <2>2, Types
  <2> QED BY <1>1, <2>1, <2>2
<1> QED BY <1>1, <1>2, <1>3, <1>4, Types, OwnsNothing, EndKeeps

\* What is committed fits, and a retention that can read it is told to keep it.
LEMMA CommitKeeps == ASSUME IInv, Commit \/ CommitBlind PROVE IInv'
<1>1. /\ op.at = "commit" /\ CommitVoicePointers(op.want, Fields)
      /\ \/ op' = Retain(op.pack, op.was.lpack)
         \/ op' = [Retain(NoPack, NoPack) EXCEPT !.blind = TRUE]
      /\ UNCHANGED <<unreadable, place, made, pin, strays, left, spoiled, service, journal, text, crashes,
                     forgotten, lost>>
      /\ faults' \in Nat
  BY Types DEF Commit, CommitBlind, Fault, registry, residue, bounds, history
<1>2. /\ op \in OpType /\ op.was \in WasType /\ op.mgmt \in Managements /\ op.status \in Statuses
      /\ Settings.ver = op.want /\ op.want < MaxVersion /\ op.pack \in Packs /\ op.was.lpack \in Packs
      /\ Fits(op.pack, op.ref, op.status) /\ Fits(op.was.lpack, op.was.lref, op.was.lstatus)
  BY <1>1 DEF IInv, Typed, Remembered, Prepared, Before, CommitVoicePointers, Current, OpType, WasType
<1>3. /\ op' \in OpType /\ op'.at = "pin" /\ op'.doomed = {} /\ op'.keep \subseteq Pack
      /\ ~op'.blind => op'.keep = {op.pack, op.was.lpack} \ {NoPack}
  <2>1. {op.pack, op.was.lpack} \ {NoPack} \in SUBSET Pack /\ {NoPack, NoPack} \ {NoPack} = {}
    BY <1>2 DEF Packs
  <2>2. CASE op' = Retain(op.pack, op.was.lpack)
    BY <1>2, <2>1, <2>2, NoOpFields DEF Retain, NoOp, OpType, After
  <2>3. CASE op' = [Retain(NoPack, NoPack) EXCEPT !.blind = TRUE]
    BY <2>1, <2>3, NoOpFields DEF Retain, NoOp, OpType, After
  <2> QED BY <1>1, <2>2, <2>3
<1>w. Writable(Settings)
  BY <1>2, SettingsFit DEF IInv, Writable
<1>4. /\ cfg' \in CfgType /\ cfg'.fillers <= cfg'.ver /\ cfg'.voice = op.ref /\ cfg'.ref = op.ref
      /\ cfg'.pack = op.pack /\ cfg'.status = op.status /\ LastKnownGood(cfg') = LastKnownGood(op.was)
      /\ cfg'.ver = Settings.ver + 1 /\ Settings.ver \in 1 .. MaxVersion
  BY <1>1, <1>2, <1>w, CommitFields DEF Writable, CfgType
<1>5. Published' = Published
  BY <1>1 DEF Published, In
<1>6. Typed'
  BY <1>1, <1>3, <1>4 DEF IInv, Typed, TypeOK, CfgType
<1>7. cfg'.lpack = op.was.lpack /\ cfg'.lref = op.was.lref /\ cfg'.lstatus = op.was.lstatus
  BY <1>4 DEF LastKnownGood
<1>8. Pointers' /\ Unwritten'
  BY <1>1, <1>2, <1>4, <1>5, <1>7, VoiceBounds DEF Pointers, Fits, Resolves, Unwritten
<1>9. Retained'
  BY <1>3, <1>4, <1>7 DEF Retained
<1>10. InService' /\ Remembered' /\ Prepared'
  BY <1>1, <1>3, NoOpFields DEF IInv, InService, Remembered, Prepared, Before, Staging
<1>11. Owned'
  BY <1>1, <1>3, NoOpFields DEF IInv, Owned, Staging
<1> QED BY <1>6, <1>8, <1>9, <1>10, <1>11 DEF IInv

\* The retention steps move no pack that the settings name, but for lost ones.
LEMMA RetainKeeps ==
    ASSUME IInv, op.at \in After, op'.at \in After, op' \in OpType,
           UNCHANGED <<cfg, unreadable, strays, left, spoiled, service, journal, text, crashes, faults, forgotten>>,
           pin' \in Packs, lost \subseteq lost', lost' \subseteq Pack,
           place' \in [Pack -> Places],
           made' \in [Pack -> [voice : Voices, text : 0..MaxText]],
           \A p \in {cfg.pack, cfg.lpack} \ (lost' \cup {NoPack}) : place'[p] = place[p] /\ made'[p] = made[p],
           Retained', Owned'
    PROVE  IInv'
<1>1. Typed'
  BY DEF IInv, Typed, TypeOK, OpType, Places
<1>2. cfg.pack \in Packs /\ cfg.lpack \in Packs
  BY DEF IInv, Typed, TypeOK
<1>3. Pointers' /\ Unwritten'
  BY <1>2 DEF IInv, Unwritten, Pointers, Fits, Resolves, Published, In, Packs
<1> QED BY <1>1, <1>3, NoOpFields DEF IInv, InService, Remembered, Prepared, Before, After, Staging

LEMMA PinKeeps == ASSUME IInv, Pin PROVE IInv'
<1>1. /\ op.at = "pin" /\ op' = [op EXCEPT !.at = "collect"] /\ pin' \in Packs
      /\ UNCHANGED <<cfg, unreadable, place, made, strays, left, spoiled, service, journal, text, crashes,
                     faults, forgotten, lost>>
  <2>1. pin \in Packs /\ Published \subseteq Packs
    BY DEF IInv, Typed, TypeOK, Published, In, Packs
  <2>2. UNCHANGED registry \/ PinLkg(op.lkg)
    BY DEF Pin
  <2>3. UNCHANGED <<place, made, strays, left, spoiled>> /\ pin' \in Packs
    BY <2>1, <2>2 DEF registry, residue, PinLkg
  <2> QED BY <2>3 DEF Pin, Goto, bounds, history
<1>2. op' \in OpType /\ op'.at = "collect" /\ op'.keep = op.keep /\ op'.blind = op.blind
  BY <1>1 DEF IInv, Typed, OpType, After
<1>3. Retained'
  BY <1>1, <1>2 DEF IInv, Retained
<1>4. Owned'
  BY <1>1, <1>2, NoOpFields DEF IInv, Owned, Staging
<1> QED BY <1>1, <1>2, <1>3, <1>4, RetainKeeps, Types DEF After

LEMMA CollectKeeps == ASSUME IInv, Collect PROVE IInv'
<1> DEFINE d == Doomed(Published \ op.keep, op.keep)
           n == [NoOp EXCEPT !.at = "gc", !.doomed = d]
<1>1. /\ op.at = "collect" /\ op' = n
      /\ UNCHANGED <<cfg, unreadable, place, made, pin, strays, left, spoiled, service, journal, text, crashes,
                     faults, forgotten>>
      /\ lost' = IF op.blind THEN lost \cup (d \cap {cfg.pack, cfg.lpack}) ELSE lost
  BY DEF Collect, registry, residue, bounds
<1>2. d \in SUBSET Pack /\ d \cap op.keep = {}
  BY DEF Doomed, Published, In
<1> HIDE DEF d
<1>3. n \in OpType /\ n.at = "gc" /\ n.doomed = d
  BY <1>2, NoOpFields DEF NoOp, OpType, After
<1> HIDE DEF n
<1>4. Retained'
  <2>1. {cfg.pack, cfg.lpack} \cap d \subseteq lost'
    <3>1. CASE op.blind
      BY <1>1, <3>1
    <3>2. CASE ~op.blind
      <4>1. {cfg.pack, cfg.lpack} \subseteq op.keep \cup {NoPack}
        BY <1>1, <3>2 DEF IInv, Retained
      <4> QED BY <1>2, <4>1, ConfigConstants
    <3> QED BY <3>1, <3>2
  <2> QED BY <1>1, <1>3, <2>1 DEF Retained
<1>5. Owned'
  BY <1>1, <1>3, NoOpFields DEF IInv, Owned, Staging
<1>6. lost \subseteq lost' /\ lost' \subseteq Pack
  BY <1>1, <1>2, Types
<1> QED BY <1>1, <1>3, <1>4, <1>5, <1>6, RetainKeeps, Types DEF After

LEMMA CollectOneKeeps == ASSUME IInv, CollectOne PROVE IInv'
<1>1. op.at = "gc" /\ UNCHANGED <<cfg, unreadable, op, pin, strays, left, spoiled, service, journal, text,
                                  crashes, faults, forgotten, lost>>
  BY DEF CollectOne, Discard, EmptyTrash, locals, bounds, history, residue
<1>2. PICK p \in op.doomed : Discard(p) \/ EmptyTrash(p)
  BY DEF CollectOne
<1>3. p \in Pack /\ (p \in {cfg.pack, cfg.lpack} => p \in lost) /\ NotMade \in [voice : Voices, text : 0..MaxText]
  BY <1>1, Types DEF IInv, OpType, Retained
<1>4. /\ place' \in [Pack -> Places]
      /\ made' \in [Pack -> [voice : Voices, text : 0..MaxText]]
      /\ \A q \in Pack \ {p} : place'[q] = place[q] /\ made'[q] = made[q]
      /\ place'[p] \in {"trash", "gone"}
  BY <1>2, <1>3 DEF Discard, EmptyTrash, Move, Unmake, IInv, Typed, TypeOK, Places
<1>5. Retained'
  BY <1>1 DEF IInv, Retained
<1>6. Owned'
  BY <1>1, <1>2, <1>4 DEF IInv, Owned, Staged, Staging
<1>7. \A q \in {cfg.pack, cfg.lpack} \ (lost' \cup {NoPack}) : place'[q] = place[q] /\ made'[q] = made[q]
  BY <1>1, <1>3, <1>4 DEF IInv, Typed, TypeOK, Packs
<1> QED BY <1>1, <1>4, <1>5, <1>6, <1>7, RetainKeeps, Types DEF After

-----------------------------------------------------------------------------
(* The theorems.                                                            *)

LEMMA StepIInv == IInv /\ [Next]_vars => IInv'
<1> SUFFICES ASSUME IInv, [Next]_vars PROVE IInv'
  OBVIOUS
<1> QED BY ActivateKeeps, RegenerateKeeps, RollbackKeeps, MatchKeeps, StageKeeps, FailKeeps, StagingFailKeeps,
     CommitKeeps, NothingKeeps, PinKeeps, CollectKeeps, CollectOneKeeps, CollectFailKeeps, CloseKeeps,
     PutSettingKeeps, TextsKeep, CrashKeeps, OpenKeeps, RecoverKeeps DEF Next

\* The inductive invariant.
THEOREM Invariance == Spec => []IInv
<1> QED BY InitIInv, StepIInv, PTL DEF Spec

\* Every variable has its type, through every order of writes.
THEOREM TypeCorrect == Spec => []TypeOK
<1>1. IInv => TypeOK
  BY DEF IInv, Typed
<1> QED BY <1>1, Invariance, PTL

\* Every pointer of the settings names a pack that is there and fits its voice,
\* unless a retention that could not read the settings took it; and an idle
\* service has on disk, beside the packs, only what this service knows to have
\* left there: whatever was killed or failed before its start is gone, but for a
\* young stage without its lock (voice_activation.py, filler_pack.py).
THEOREM PointersFit == Spec => []PacksKept
<1>1. IInv => PacksKept
  <2> SUFFICES ASSUME IInv PROVE PacksKept
    OBVIOUS
  <2>1. PointersHold
    BY DEF IInv, Pointers, Fits, PointersHold
  <2>2. NothingLeftBehind
    <3> SUFFICES ASSUME service = "open", op = NoOp
                 PROVE /\ In("bare") \cup In("stage") \cup In("ready") \cup In("trash") \subseteq left
                       /\ strays => "gc" \in spoiled
                       /\ journal => "activation" \in spoiled
      BY DEF NothingLeftBehind
    <3>1. \A p \in Pack : place[p] \in Staged \cup {"trash"} => p \in left
      BY NoOpFields DEF IInv, Owned, Staging
    <3> QED BY <3>1 DEF IInv, Owned, In, Staged
  <2> QED BY <2>1, <2>2 DEF PacksKept
<1> QED BY <1>1, Invariance, PTL

\* What a change of the voice replaces becomes, in the same write, the last
\* known good pair: the one active at that moment (commit_voice_pointers and
\* update of caty_config.py); but for a write that cannot read what it replaces
\* and an operation that began before such a write.
THEOREM AlwaysAWayBack == Spec => WayBack
<1> DEFINE Saves == (Active(cfg') # Active(cfg) /\ ~unreadable
                       /\ (IF op' = op THEN cfg.mgmt = "managed" ELSE ~forgotten))
                        => LastKnownGood(cfg') = Active(cfg)
<1>1. ASSUME IInv, [Next]_vars PROVE [Saves]_vars
  <2>1. CASE Commit \/ CommitBlind
    <3> SUFFICES ASSUME ~unreadable, op' # op => ~forgotten PROVE LastKnownGood(cfg') = Active(cfg)
      <4>1. op.at = "commit" /\ op'.at = "pin"
        BY <2>1 DEF Commit, CommitBlind, Retain, NoOp
      <4> QED BY <4>1
    <3>0. op.at = "commit" /\ op'.at = "pin" /\ CommitVoicePointers(op.want, Fields)
      BY <2>1 DEF Commit, CommitBlind, Retain, NoOp
    <3>1. /\ Settings = cfg /\ cfg.ver = op.want /\ ~forgotten
          /\ op.was = Was(cfg) /\ op.was \in WasType /\ cfg.ver < MaxVersion
          /\ op.mgmt \in Managements /\ op.status \in Statuses /\ op \in OpType
      BY <1>1, <3>0 DEF Settings, CommitVoicePointers, Current, IInv, Typed, Remembered, Prepared, Before
    <3>2. Writable(Settings)
      BY <1>1, <3>1, SettingsFit DEF IInv, Writable
    <3>3. LastKnownGood(cfg') = LastKnownGood(op.was)
      BY <3>0, <3>1, <3>2, CommitFields
    <3> QED BY <3>1, <3>3 DEF Was, LastKnownGood, Active
  <2>2. CASE PutSetting
    <3> SUFFICES ASSUME ~unreadable, Active(cfg') # Active(cfg), op' = op => cfg.mgmt = "managed"
                 PROVE LastKnownGood(cfg') = Active(cfg)
      OBVIOUS
    <3>1. Settings = cfg /\ cfg.ver < MaxVersion /\ op' = op
      BY <2>2 DEF PutSetting, locals, Settings
    <3>2. Writable(cfg)
      BY <1>1, <3>1, SettingsFit DEF IInv, Writable
    <3>3. cfg' = NextVersion(cfg) \/ \E v \in Voices : cfg' = NextVersion(WithRawVoice(cfg, v))
      BY <2>2, <3>1 DEF PutSetting, PutVoice, PutOther, Voices
    <3>4. CASE cfg' = NextVersion(cfg)
      BY <3>2, <3>4, OtherFields
    <3>5. ASSUME NEW v \in Voices, cfg' = NextVersion(WithRawVoice(cfg, v))
          PROVE LastKnownGood(cfg') = Active(cfg)
      BY <3>1, <3>2, <3>5, RawFields
    <3> QED BY <3>3, <3>4, <3>5
  <2>3. CASE ~Commit /\ ~CommitBlind /\ ~PutSetting
    <3>1. cfg' = cfg
      BY <1>1, <2>3 DEF Next, Activate, Regenerate, Rollback, Start, Match, Stage, OperationFails, StagingFails,
         CommitNothing, Pin, PinRaises, Collect, CollectOne, CollectEnds, RetentionFails, CollectFails, Close,
         JournalLeft, Unreadable, ReadableAgain, PutFillerTexts, Crash, OpenService, RecoverStep, RecoverStays,
         RecoverRaises, RecoverEnds, Idle, vars
    <3> QED BY <3>1
  <2> QED BY <2>1, <2>2, <2>3
<1> QED BY <1>1, Invariance, PTL DEF Spec, WayBack

-----------------------------------------------------------------------------
(* Lists of voices, and samples.                                             *)

Leading == {"fetch", "keep", "land"}
Listing == Leading \cup {"snapshot", "follow", "list"}
Speaking == {"speak", "store", "refuse", "over"}
Keyed == Speaking \cup {"lookup", "refusals", "join", "wait", "collect"}

Time == 0 .. MaxTime
Request == [at : Listing \cup Keyed \cup {"idle", "resolve", "withdrawn", "replay"},
            scope : Scope \cup {NoScope}, began : Time, read : Time, floor : Time,
            ok : BOOLEAN, leader : Handler \cup {Nobody}, key : Key \cup {0}]
SnapshotType == [known : BOOLEAN, began : Time, until : Nat, read : Time]

CatalogTyped ==
    /\ now \in Time
    /\ snapshots \in [Scope -> SnapshotType]
    /\ fetching \in [Scope -> Handler \cup {Nobody}]
    /\ latest \in [Scope -> Time]
PreviewTyped ==
    /\ voice \in [version : Key, there : BOOLEAN]
    /\ flights \in [Key -> Handler \cup {Nobody}]
HandlersTyped ==
    /\ handler \in [Handler -> Request]
    /\ \A h \in Handler : /\ handler[h].at \in Listing => handler[h].scope \in Scope
                          /\ handler[h].at \in Keyed => handler[h].key \in Key
PreviewHolds == CatalogTyped /\ PreviewTyped /\ HandlersTyped

\* Who speaks for a key is its flight's leader.
Spoken == \A h \in Handler : handler[h].at \in Speaking => flights[handler[h].key] = h

\* A scope's leader is the one who fetches it, and a follower follows it.
Led ==
    /\ \A h \in Handler : handler[h].at \in Leading => fetching[handler[h].scope] = h
    /\ \A s \in Scope : fetching[s] # Nobody =>
          handler[fetching[s]].at \in Leading /\ handler[fetching[s]].scope = s
    /\ \A h \in Handler : At(h, "follow") =>
          handler[h].leader = fetching[handler[h].scope] /\ handler[h].leader # Nobody

\* Nothing was read in the future.
Past ==
    /\ \A h \in Handler : handler[h].read <= now
    /\ \A s \in Scope : snapshots[s].read <= now /\ latest[s] <= now

\* Every list of the scope that was answered, or is about to be, is from r or before.
Covers(r, s) ==
    /\ latest[s] <= r
    /\ \A h \in Handler : At(h, "list") /\ handler[h].ok /\ handler[h].scope = s =>
          handler[h].read <= r

\* The list that is kept is the newest, and so is the one about to be kept or
\* handed to the followers.
Newest ==
    /\ \A s \in Scope : snapshots[s].known => Covers(snapshots[s].read, s)
    /\ \A h \in Handler :
          LET r == handler[h]
          IN /\ At(h, "keep") => /\ Covers(r.read, r.scope)
                                 /\ snapshots[r.scope].known => snapshots[r.scope].read <= r.read
             /\ At(h, "land") /\ r.ok =>
                   /\ Covers(r.read, r.scope)
                   /\ snapshots[r.scope].known => snapshots[r.scope].read = r.read
             /\ r.at \in Listing => r.floor <= latest[r.scope]

-----------------------------------------------------------------------------
(* Types.                                                                   *)

LEMMA ConstantsTyped ==
    /\ TTL \in Nat /\ MaxTime \in Nat /\ 0 \in Time /\ Key \subseteq Nat
    /\ 1 \in Key /\ 0 \notin Key /\ Nobody \notin Handler
BY CatalogConstants, PreviewConstants, NobodyIsNoHandler DEF Time, Key

LEMMA IdleTyped == IdleHandler \in Request /\ IdleHandler.at = "idle"
BY ConstantsTyped DEF IdleHandler, Request

LEMMA InitTyped == InitPreview => PreviewHolds
BY ConstantsTyped, IdleTyped
   DEF InitPreview, InitCatalog, PreviewHolds, CatalogTyped, PreviewTyped, HandlersTyped,
       NoSnapshot, SnapshotType, IdleHandler, Listing, Leading, Keyed, Speaking

\* One handler moves, and its request is well typed.
LEMMA MoveTyped ==
    ASSUME HandlersTyped, NEW h \in Handler, NEW r \in Request,
           r.at \in Listing => r.scope \in Scope,
           r.at \in Keyed => r.key \in Key,
           handler' = [handler EXCEPT ![h] = r]
    PROVE  HandlersTyped'
BY DEF HandlersTyped

LEMMA ListsTyped ==
    ASSUME PreviewHolds, NEW h \in Handler,
           ListVoices(h) \/ Lists(h),
           UNCHANGED <<voice, flights>>
    PROVE  PreviewHolds'
<1> DEFINE r == handler[h]
<1>1. /\ r \in Request
      /\ r.at \in Listing => r.scope \in Scope
      /\ r.at \in Keyed => r.key \in Key
  BY DEF PreviewHolds, HandlersTyped
<1>2. PreviewTyped'
  BY DEF PreviewHolds, PreviewTyped
<1>3. CASE ListVoices(h)
  <2>1. CatalogTyped'
    BY <1>3 DEF ListVoices, PreviewHolds, CatalogTyped
  <2>2. PICK s \in Scope :
           handler' = [handler EXCEPT ![h] = [IdleHandler EXCEPT !.at = "snapshot", !.scope = s,
                                                !.began = now, !.floor = latest[s]]]
    BY <1>3 DEF ListVoices
  <2>3. now \in Time /\ latest[s] \in Time
    BY DEF PreviewHolds, CatalogTyped
  <2> DEFINE q == [IdleHandler EXCEPT !.at = "snapshot", !.scope = s, !.began = now, !.floor = latest[s]]
  <2>4. q \in Request /\ q.scope \in Scope /\ q.at \notin Keyed
    BY <2>3, ConstantsTyped DEF Request, IdleHandler, Listing, Keyed, Speaking
  <2> HIDE DEF q
  <2>5. HandlersTyped'
    BY <2>2, <2>4, MoveTyped DEF PreviewHolds, q
  <2> QED BY <1>2, <2>1, <2>5 DEF PreviewHolds
<1>4. CASE Snapshot(h)
  <2> DEFINE listed == [r EXCEPT !.at = "list", !.ok = TRUE, !.read = snapshots[r.scope].read]
             fetches == [r EXCEPT !.at = "fetch"]
             follows == [r EXCEPT !.at = "follow", !.leader = fetching[r.scope]]
  <2>0. r.scope \in Scope /\ snapshots[r.scope].read \in Time
        /\ fetching[r.scope] \in Handler \cup {Nobody}
    BY <1>1, <1>4 DEF Snapshot, At, Listing, PreviewHolds, CatalogTyped, SnapshotType
  <2>1. /\ listed \in Request /\ fetches \in Request /\ follows \in Request
        /\ listed.scope \in Scope /\ fetches.scope \in Scope /\ follows.scope \in Scope
        /\ {listed.at, fetches.at, follows.at} \cap Keyed = {}
    BY <1>1, <2>0 DEF Request, Listing, Leading, Keyed, Speaking
  <2>2. \E q \in {listed, fetches, follows} : handler' = [handler EXCEPT ![h] = q]
    BY <1>4 DEF Snapshot, GoesTo, PreviewHolds, HandlersTyped
  <2>3. CatalogTyped'
    BY <1>4, <2>0, ConstantsTyped DEF Snapshot, PreviewHolds, CatalogTyped, NoSnapshot, SnapshotType
  <2> HIDE DEF listed, fetches, follows
  <2>4. HandlersTyped'
    BY <2>1, <2>2, MoveTyped DEF PreviewHolds
  <2> QED BY <1>2, <2>3, <2>4 DEF PreviewHolds
<1>5. CASE Fetched(h) \/ FetchFails(h) \/ KeepSnapshot(h)
  <2>0. /\ r.scope \in Scope /\ snapshots[r.scope].read \in Time /\ now \in Time
        /\ r.began \in Nat /\ r.began \in Time /\ r.read \in Time
    BY <1>1, <1>5 DEF Fetched, FetchFails, KeepSnapshot, At, Listing, Leading, PreviewHolds,
                      CatalogTyped, SnapshotType, Request, Time
  <2> DEFINE kept == [r EXCEPT !.at = "keep", !.read = now, !.ok = TRUE]
             last == [r EXCEPT !.at = "land", !.ok = TRUE, !.read = snapshots[r.scope].read]
             failed == [r EXCEPT !.at = "land", !.ok = FALSE]
             lands == [r EXCEPT !.at = "land"]
  <2>1. /\ {kept, last, failed, lands} \subseteq Request
        /\ \A q \in {kept, last, failed, lands} : q.scope \in Scope /\ q.at \notin Keyed
    <3>1. kept \in Request /\ last \in Request /\ failed \in Request /\ lands \in Request
      BY <1>1, <2>0 DEF Request, Listing, Leading
    <3>2. \A q \in {kept, last, failed, lands} : q.scope = r.scope /\ q.at \in {"keep", "land"}
      BY <1>1 DEF Request
    <3> HIDE DEF kept, last, failed, lands
    <3> QED BY <2>0, <3>1, <3>2 DEF Keyed, Speaking
  <2>2. \E q \in {kept, last, failed, lands} : handler' = [handler EXCEPT ![h] = q]
    BY <1>5 DEF Fetched, FetchFails, KeepSnapshot, GoesTo, PreviewHolds, HandlersTyped
  <2>3. CatalogTyped'
    <3>1. [known |-> TRUE, began |-> r.began, until |-> r.began + TTL, read |-> r.read] \in SnapshotType
      BY <2>0, ConstantsTyped DEF SnapshotType
    <3> QED BY <1>5, <3>1 DEF Fetched, FetchFails, KeepSnapshot, PreviewHolds, CatalogTyped
  <2> HIDE DEF kept, last, failed, lands
  <2>4. HandlersTyped'
    BY <2>1, <2>2, MoveTyped DEF PreviewHolds
  <2> QED BY <1>2, <2>3, <2>4 DEF PreviewHolds
<1>6. CASE Land(h)
  <2>1. CatalogTyped'
    BY <1>6 DEF Land, PreviewHolds, CatalogTyped
  <2>2. \A g \in Followers(h) : handler[g].scope \in Scope
    BY DEF Followers, At, Listing, PreviewHolds, HandlersTyped
  <2>3. r.scope \in Scope
    BY <1>1, <1>6 DEF Land, At, Listing, Leading
  <2>4. \A g \in Handler :
           LET q == [handler[g] EXCEPT !.at = "list", !.ok = r.ok, !.read = r.read, !.leader = Nobody]
           IN q \in Request /\ q.at = "list" /\ q.scope = handler[g].scope
    BY <1>1 DEF PreviewHolds, HandlersTyped, Request, Listing
  <2>5. HandlersTyped'
    BY <1>6, <2>2, <2>3, <2>4 DEF Land, PreviewHolds, HandlersTyped, Listing, Keyed, Speaking, Leading
  <2> QED BY <1>2, <2>1, <2>5 DEF PreviewHolds
<1>7. CASE Listed(h)
  <2>1. CatalogTyped'
    BY <1>1, <1>7 DEF Listed, PreviewHolds, CatalogTyped, Request
  <2>2. HandlersTyped'
    BY <1>7, IdleTyped, MoveTyped DEF Listed, PreviewHolds, Listing, Leading, Keyed, Speaking
  <2> QED BY <1>2, <2>1, <2>2 DEF PreviewHolds
<1> QED BY <1>3, <1>4, <1>5, <1>6, <1>7 DEF Lists

LEMMA PreviewsTyped ==
    ASSUME PreviewHolds, NEW h \in Handler,
           AskPreview(h) \/ Previews(h),
           UNCHANGED <<now, snapshots, fetching, latest>>
    PROVE  PreviewHolds'
<1> DEFINE r == handler[h]
<1>1. /\ r \in Request
      /\ r.at \in Listing => r.scope \in Scope
      /\ r.at \in Keyed => r.key \in Key
  BY DEF PreviewHolds, HandlersTyped
<1>2. CatalogTyped'
  BY DEF PreviewHolds, CatalogTyped
<1>3. CASE Over(h)
  <2>1. PreviewTyped'
    BY <1>3 DEF Over, PreviewHolds, PreviewTyped
  <2>2. \A g \in Handler :
           LET q == [handler[g] EXCEPT !.at = "collect", !.leader = Nobody]
           IN q \in Request /\ q.at = "collect" /\ q.key = handler[g].key
    BY DEF PreviewHolds, HandlersTyped, Request, Keyed
  <2>3. \A g \in Handler : At(g, "wait") => handler[g].key \in Key
    BY DEF At, PreviewHolds, HandlersTyped, Keyed
  <2>4. HandlersTyped'
    BY <1>3, <2>2, <2>3, IdleTyped
       DEF Over, PreviewHolds, HandlersTyped, Listing, Keyed, Speaking, Leading
  <2> QED BY <1>2, <2>1, <2>4 DEF PreviewHolds
<1>4. CASE ~Over(h)
  <2>1. PreviewTyped'
    BY <1>4 DEF AskPreview, Previews, Resolve, Drop, Replay, Lookup, Refusals, Join, Speak,
                Store, Refuse, CollectSample, GiveUp, PreviewHolds, PreviewTyped
  <2>2. voice.version \in Key /\ (r.at \in Keyed => flights[r.key] \in Handler \cup {Nobody})
    BY <1>1 DEF PreviewHolds, PreviewTyped
  <2>3. \E q \in Request : /\ q.at \notin Listing /\ (q.at \in Keyed => q.key \in Key)
                           /\ handler' = [handler EXCEPT ![h] = q]
    <3> DEFINE to(l) == [r EXCEPT !.at = l]
               ends(l, ok) == [r EXCEPT !.at = l, !.ok = ok]
               found == [r EXCEPT !.at = "lookup", !.key = voice.version]
               waits == [r EXCEPT !.at = "wait", !.leader = flights[r.key]]
               begins(l) == [IdleHandler EXCEPT !.at = l]
    <3>1. /\ \A l \in Keyed \cup {"replay", "withdrawn"} : to(l) \in Request /\ to(l).key = r.key /\ to(l).at = l
          /\ \A l \in Keyed, ok \in BOOLEAN : ends(l, ok) \in Request /\ ends(l, ok).key = r.key /\ ends(l, ok).at = l
          /\ found \in Request /\ found.key \in Key /\ found.at = "lookup"
          /\ r.at \in Keyed => waits \in Request /\ waits.key = r.key /\ waits.at = "wait"
          /\ \A l \in {"resolve", "replay"} : begins(l) \in Request /\ begins(l).at = l
      <4>1. \A l \in Keyed \cup {"replay", "withdrawn"} : to(l) \in Request /\ to(l).key = r.key /\ to(l).at = l
        BY <1>1 DEF Request
      <4>2. \A l \in Keyed, ok \in BOOLEAN : ends(l, ok) \in Request /\ ends(l, ok).key = r.key /\ ends(l, ok).at = l
        BY <1>1 DEF Request
      <4>3. found \in Request /\ found.key \in Key /\ found.at = "lookup"
        BY <1>1, <2>2 DEF Request, Keyed
      <4>4. r.at \in Keyed => waits \in Request /\ waits.key = r.key /\ waits.at = "wait"
        BY <1>1, <2>2 DEF Request, Keyed
      <4>5. \A l \in {"resolve", "replay"} : begins(l) \in Request /\ begins(l).at = l
        BY IdleTyped DEF Request
      <4> QED BY <4>1, <4>2, <4>3, <4>4, <4>5
    <3>2. \/ handler' = [handler EXCEPT ![h] = IdleHandler]
          \/ \E l \in {"resolve", "replay"} : handler' = [handler EXCEPT ![h] = begins(l)]
          \/ \E l \in {"replay", "withdrawn"} : handler' = [handler EXCEPT ![h] = to(l)]
          \/ handler' = [handler EXCEPT ![h] = found]
          \/ r.at \in Keyed /\ \E l \in Keyed : handler' = [handler EXCEPT ![h] = to(l)]
          \/ r.at \in Keyed /\ handler' = [handler EXCEPT ![h] = waits]
          \/ r.at \in Keyed /\ \E l \in Keyed, ok \in BOOLEAN : handler' = [handler EXCEPT ![h] = ends(l, ok)]
      <4>1. CASE AskPreview(h) \/ Resolve(h) \/ Drop(h) \/ Replay(h) \/ CollectSample(h) \/ GiveUp(h)
        BY <4>1 DEF AskPreview, Resolve, Drop, Replay, CollectSample, GiveUp, Answer, GoesTo, PreviewHolds, HandlersTyped
      <4>2. CASE Lookup(h) \/ Refusals(h) \/ Join(h)
        BY <4>2 DEF Lookup, Refusals, Join, Answer, GoesTo, At, Keyed, Speaking, PreviewHolds, HandlersTyped
      <4>3. CASE Speak(h) \/ Store(h) \/ Refuse(h)
        BY <4>3 DEF Speak, Store, Refuse, GoesTo, At, Keyed, Speaking, PreviewHolds, HandlersTyped
      <4> QED BY <1>4, <4>1, <4>2, <4>3 DEF Previews
    <3>3. (Keyed \cup {"idle", "resolve", "replay", "withdrawn"}) \cap Listing = {}
      BY DEF Keyed, Speaking, Listing, Leading
    <3>4. {"idle", "resolve", "replay", "withdrawn"} \cap Keyed = {} /\ "lookup" \in Keyed /\ "wait" \in Keyed
      BY DEF Keyed, Speaking
    <3> HIDE DEF to, ends, found, waits, begins
    <3> QED BY <1>1, <3>1, <3>2, <3>3, <3>4, IdleTyped
  <2>4. HandlersTyped'
    BY <2>3, MoveTyped DEF PreviewHolds
  <2> QED BY <1>2, <2>1, <2>4 DEF PreviewHolds
<1> QED BY <1>3, <1>4

LEMMA WorldTyped ==
    ASSUME PreviewHolds,
           \/ Tick /\ UNCHANGED <<voice, flights>>
           \/ (Expire \/ Change) /\ UNCHANGED <<now, snapshots, fetching, latest>>
           \/ UNCHANGED previewVars
    PROVE  PreviewHolds'
<1>1. HandlersTyped'
  BY DEF Tick, Expire, Change, previewVars, PreviewHolds, HandlersTyped
<1>2. CatalogTyped'
  BY ConstantsTyped DEF Tick, Expire, Change, previewVars, PreviewHolds, CatalogTyped, Time
<1>3. PreviewTyped'
  <2>1. voice \in [version : Key, there : BOOLEAN] /\ MaxVersions \in Nat
    BY PreviewConstants DEF PreviewHolds, PreviewTyped
  <2>2. CASE Change
    <3>1. voice.version < MaxVersions => [voice EXCEPT !.version = @ + 1] \in [version : Key, there : BOOLEAN]
      BY <2>1 DEF Key
    <3>2. [voice EXCEPT !.there = ~@] \in [version : Key, there : BOOLEAN]
      BY <2>1, Zenon
    <3> QED BY <2>1, <2>2, <3>1, <3>2 DEF Change, PreviewHolds, PreviewTyped
  <2>3. CASE ~Change
    BY <2>3 DEF Tick, Expire, previewVars, PreviewHolds, PreviewTyped
  <2> QED BY <2>2, <2>3
<1> QED BY <1>1, <1>2, <1>3 DEF PreviewHolds

LEMMA StepTyped == PreviewHolds /\ [NextPreview]_previewVars => PreviewHolds'
<1> SUFFICES ASSUME PreviewHolds, [NextPreview]_previewVars PROVE PreviewHolds'
  OBVIOUS
<1>1. CASE \E h \in Handler : Serves(h)
  BY <1>1, ListsTyped, PreviewsTyped DEF Serves
<1>2. CASE ~\E h \in Handler : Serves(h)
  BY <1>2, ListsTyped, PreviewsTyped, WorldTyped DEF NextPreview
<1> QED BY <1>1, <1>2

-----------------------------------------------------------------------------
(* One flight per key.                                                      *)

\* The disjuncts of the next-state relation, as the proofs split them.
LEMMA StepShape ==
    ASSUME [NextPreview]_previewVars
    PROVE  \/ \E h \in Handler : /\ ListVoices(h) \/ Lists(h)
                                 /\ UNCHANGED <<voice, samples, refused, flights>>
           \/ \E h \in Handler : /\ AskPreview(h) \/ Previews(h)
                                 /\ UNCHANGED <<now, snapshots, fetching, latest>>
           \/ Tick /\ UNCHANGED <<voice, samples, refused, flights>>
           \/ (Expire \/ Change) /\ UNCHANGED <<now, snapshots, fetching, latest>>
           \/ UNCHANGED previewVars
BY Zenon DEF NextPreview, Serves

LEMMA Asked ==
    ASSUME PreviewHolds, NEW h \in Handler, ListVoices(h)
    PROVE  \E s \in Scope, q \in Request :
              /\ handler' = [handler EXCEPT ![h] = q]
              /\ q.at = "snapshot" /\ q.scope = s /\ q.floor = latest[s] /\ q.read = 0
<1> DEFINE Q(s) == [IdleHandler EXCEPT !.at = "snapshot", !.scope = s, !.began = now, !.floor = latest[s]]
<1>1. PICK s \in Scope : handler' = [handler EXCEPT ![h] = Q(s)]
  BY DEF ListVoices
<1>2. now \in Time /\ latest[s] \in Time
  BY DEF PreviewHolds, CatalogTyped
<1>3. Q(s) \in Request /\ Q(s).at = "snapshot" /\ Q(s).scope = s /\ Q(s).floor = latest[s] /\ Q(s).read = 0
  BY <1>2, ConstantsTyped DEF Request, IdleHandler, Listing
<1> HIDE DEF Q
<1> QED BY <1>1, <1>3

LEMMA SpokenStep == PreviewHolds /\ Spoken /\ [NextPreview]_previewVars => Spoken'
<1> SUFFICES ASSUME PreviewHolds, Spoken, [NextPreview]_previewVars PROVE Spoken'
  OBVIOUS
<1> USE DEF Spoken, Speaking
<1>1. handler \in [Handler -> Request] /\ flights \in [Key -> Handler \cup {Nobody}]
  BY DEF PreviewHolds, HandlersTyped, PreviewTyped
<1>2. \A h \in Handler : handler[h].at \in Speaking \cup {"join"} => handler[h].key \in Key
  BY DEF PreviewHolds, HandlersTyped, Keyed
<1>3. Nobody \notin Handler
  BY ConstantsTyped
<1>4. ASSUME NEW h \in Handler, ListVoices(h) \/ Lists(h), UNCHANGED flights PROVE Spoken'
  <2>1. CASE Land(h)
    BY <1>1, <1>4, <2>1 DEF Land, Request
  <2>2. CASE ListVoices(h)
    BY <1>1, <1>4, <2>2, Asked
  <2>5. CASE Listed(h)
    BY <1>1, <1>4, <2>5, IdleTyped DEF Listed
  <2>3. CASE Snapshot(h)
    BY <1>1, <1>4, <2>3 DEF Snapshot, GoesTo, Request
  <2>4. CASE Fetched(h) \/ FetchFails(h) \/ KeepSnapshot(h)
    BY <1>1, <1>4, <2>4 DEF Fetched, FetchFails, KeepSnapshot, GoesTo, Request
  <2> QED BY <1>4, <2>1, <2>2, <2>3, <2>4, <2>5 DEF Lists
<1>5. ASSUME NEW h \in Handler, AskPreview(h) \/ Previews(h) PROVE Spoken'
  <2>1. CASE Join(h)
    BY <1>1, <1>2, <1>3, <2>1 DEF Join, GoesTo, At, NobodySpeaks, Request
  <2>2. CASE Speak(h) \/ Store(h) \/ Refuse(h)
    BY <1>1, <2>2 DEF Speak, Store, Refuse, GoesTo, At, Request
  <2>3. CASE Over(h)
    <3>1. ASSUME NEW g \in Handler, handler'[g].at \in Speaking
          PROVE  g # h /\ handler'[g] = handler[g] /\ handler[h].at \in Speaking
      <4>1. [handler[g] EXCEPT !.at = "collect", !.leader = Nobody].at = "collect"
        BY <1>1 DEF Request
      <4> QED BY <1>1, <2>3, <3>1, <4>1, IdleTyped DEF Over, At
    <3>2. flights' = [flights EXCEPT ![handler[h].key] = Nobody]
      BY <2>3 DEF Over
    <3> QED BY <1>1, <1>2, <3>1, <3>2
  <2>4. CASE ~(Join(h) \/ Speak(h) \/ Store(h) \/ Refuse(h) \/ Over(h))
    BY <1>1, <1>5, <2>4, IdleTyped
       DEF AskPreview, Previews, Resolve, Drop, Replay, Lookup, Refusals, CollectSample, GiveUp,
           Answer, GoesTo, Request, IdleHandler
  <2> QED BY <2>1, <2>2, <2>3, <2>4
<1>6. CASE UNCHANGED <<handler, flights>>
  BY <1>6
<1> HIDE DEF Spoken, Speaking
<1> QED BY <1>4, <1>5, <1>6, StepShape DEF Tick, Expire, Change, previewVars

-----------------------------------------------------------------------------
(* The lists.                                                               *)

\* A request for a sample has nothing to do with the lists.
LEMMA PreviewsQuiet ==
    ASSUME PreviewHolds, NEW h \in Handler, AskPreview(h) \/ Previews(h)
    PROVE  \A g \in Handler :
              /\ handler[g].at \in Listing \/ handler'[g].at \in Listing => handler'[g] = handler[g]
              /\ handler'[g].read \in {0, handler[g].read}
<1> USE DEF Listing, Leading
<1>1. handler \in [Handler -> Request]
  BY DEF PreviewHolds, HandlersTyped
<1>2. IdleHandler.read = 0 /\ IdleHandler.at = "idle"
  BY DEF IdleHandler
<1>3. CASE Over(h)
  <2>1. \A g \in Handler : LET q == [handler[g] EXCEPT !.at = "collect", !.leader = Nobody]
                           IN q.at = "collect" /\ q.read = handler[g].read
    BY <1>1 DEF Request
  <2> QED BY <1>1, <1>2, <1>3, <2>1 DEF Over, At
<1>4. CASE AskPreview(h)
  <2>1. \A l \in {"resolve", "replay"} : LET q == [IdleHandler EXCEPT !.at = l] IN q.at = l /\ q.read = 0
    BY DEF IdleHandler
  <2> QED BY <1>1, <1>2, <1>4, <2>1 DEF AskPreview, At
<1>5. CASE Resolve(h)
  BY <1>1, <1>2, <1>5 DEF Resolve, GoesTo, Answer, At, Request
<1>6. CASE Drop(h) \/ Replay(h) \/ CollectSample(h) \/ GiveUp(h)
  BY <1>1, <1>2, <1>6 DEF Drop, Replay, CollectSample, GiveUp, Answer, At
<1>7. CASE Lookup(h) \/ Refusals(h) \/ Join(h)
  BY <1>1, <1>2, <1>7 DEF Lookup, Refusals, Join, Answer, GoesTo, At, Request
<1>8. CASE Speak(h) \/ Store(h) \/ Refuse(h)
  BY <1>1, <1>8 DEF Speak, Store, Refuse, GoesTo, At, Request
<1> HIDE DEF Listing, Leading
<1> QED BY <1>3, <1>4, <1>5, <1>6, <1>7, <1>8 DEF Previews

ListInv == Led /\ Past /\ Newest /\ NoGoingBack

LEMMA PreviewsKeep ==
    ASSUME PreviewHolds, ListInv, NEW h \in Handler, AskPreview(h) \/ Previews(h),
           UNCHANGED <<now, snapshots, fetching, latest>>
    PROVE  ListInv'
<1>1. \A g \in Handler :
         /\ handler[g].at \in Listing \/ handler'[g].at \in Listing => handler'[g] = handler[g]
         /\ handler'[g].read \in {0, handler[g].read}
  BY PreviewsQuiet
<1>2. now \in Nat /\ \A g \in Handler : handler[g].read \in Nat
  BY ConstantsTyped DEF PreviewHolds, CatalogTyped, HandlersTyped, Time, Request
<1>3. Led'
  BY <1>1 DEF ListInv, Led, At, Listing, Leading, PreviewHolds, CatalogTyped
<1>4. Past'
  BY <1>1, <1>2 DEF ListInv, Past
<1>5. \A r, s : Covers(r, s) => Covers(r, s)'
  BY <1>1 DEF Covers, At, Listing
<1>6. Newest'
  BY <1>1, <1>5 DEF ListInv, Newest, At, Listing, Leading
<1>7. NoGoingBack'
  BY <1>1 DEF ListInv, NoGoingBack, At, Listing
<1> QED BY <1>3, <1>4, <1>6, <1>7 DEF ListInv

LEMMA TickKeeps ==
    ASSUME PreviewHolds, ListInv, Tick \/ UNCHANGED <<now, handler, snapshots, fetching, latest>>
    PROVE  ListInv'
<1>1. UNCHANGED <<handler, snapshots, fetching, latest>> /\ now' \in Nat /\ now <= now' /\ now \in Nat
  BY ConstantsTyped DEF Tick, PreviewHolds, CatalogTyped, Time
<1>2. \A g \in Handler : handler[g].read \in Nat
  BY ConstantsTyped DEF PreviewHolds, HandlersTyped, Time, Request
<1>3. \A s \in Scope : snapshots[s].read \in Nat /\ latest[s] \in Nat
  BY ConstantsTyped DEF PreviewHolds, CatalogTyped, SnapshotType, Time
<1>4. Past'
  BY <1>1, <1>2, <1>3 DEF ListInv, Past
<1>5. Led' /\ Newest' /\ NoGoingBack'
  BY <1>1 DEF ListInv, Led, Newest, Covers, NoGoingBack, At
<1> QED BY <1>4, <1>5 DEF ListInv

\* The values the comparisons are about.
LEMMA Numbers ==
    ASSUME PreviewHolds
    PROVE  /\ now \in Nat
           /\ \A h \in Handler : handler[h].read \in Nat /\ handler[h].floor \in Nat
           /\ \A s \in Scope : snapshots[s].read \in Nat /\ latest[s] \in Nat
BY ConstantsTyped DEF PreviewHolds, CatalogTyped, HandlersTyped, SnapshotType, Request, Time

LEMMA AskedKeeps ==
    ASSUME PreviewHolds, ListInv, NEW h \in Handler, ListVoices(h)
    PROVE  ListInv'
<1> USE Numbers DEF ListInv
<1>1. PICK s \in Scope, q \in Request :
         /\ handler' = [handler EXCEPT ![h] = q]
         /\ q.at = "snapshot" /\ q.scope = s /\ q.floor = latest[s] /\ q.read = 0
  BY Asked
<1>2. At(h, "idle") /\ UNCHANGED <<now, snapshots, fetching, latest>>
  BY DEF ListVoices
<1>3. handler'[h] = q /\ \A g \in Handler : g # h => handler'[g] = handler[g]
  BY <1>1 DEF PreviewHolds, HandlersTyped
<1>4. Led'
  BY <1>1, <1>2, <1>3 DEF Led, At, Leading, PreviewHolds, CatalogTyped
<1>5. Past'
  BY <1>1, <1>2, <1>3 DEF Past
<1>6. \A r, t : Covers(r, t) => Covers(r, t)'
  BY <1>1, <1>2, <1>3 DEF Covers, At
<1>7. Newest'
  BY <1>1, <1>2, <1>3, <1>6 DEF Newest, At
<1>8. NoGoingBack'
  BY <1>1, <1>2, <1>3 DEF NoGoingBack, At
<1> QED BY <1>4, <1>5, <1>7, <1>8

LEMMA SnapshotKeeps ==
    ASSUME PreviewHolds, ListInv, NEW h \in Handler, Snapshot(h)
    PROVE  ListInv'
<1> USE Numbers DEF ListInv
<1> DEFINE r == handler[h]
<1>1. /\ At(h, "snapshot") /\ r \in Request /\ r.scope \in Scope
      /\ UNCHANGED <<now, latest>>
  BY DEF Snapshot, At, Listing, PreviewHolds, HandlersTyped
<1>2. \A s \in Scope : snapshots'[s] = snapshots[s] \/ (~snapshots'[s].known /\ snapshots'[s].read = 0)
  <2>1. \A s \in Scope : snapshots'[s] \in {snapshots[s], NoSnapshot}
    BY Zenon DEF Snapshot
  <2>2. NoSnapshot.known = FALSE /\ NoSnapshot.read = 0
    BY DEF NoSnapshot
  <2> QED BY <2>1, <2>2
<1>3. snapshots'[r.scope] = snapshots[r.scope]
  BY <1>1 DEF Snapshot
<1>4. \A g \in Handler : g # h => handler'[g] = handler[g]
  BY DEF Snapshot, GoesTo, PreviewHolds, HandlersTyped
<1>5. handler'[h].scope = r.scope /\ handler'[h].floor = r.floor
  BY <1>1 DEF Snapshot, GoesTo, PreviewHolds, HandlersTyped, Request
<1>6. \/ /\ handler'[h].at = "list" /\ snapshots[r.scope].known
         /\ handler'[h].read = snapshots[r.scope].read /\ UNCHANGED fetching
      \/ /\ handler'[h].at = "fetch" /\ handler'[h].read = r.read
         /\ fetching[r.scope] = Nobody /\ fetching' = [fetching EXCEPT ![r.scope] = h]
      \/ /\ handler'[h].at = "follow" /\ handler'[h].read = r.read
         /\ handler'[h].leader = fetching[r.scope]
         /\ fetching[r.scope] # Nobody /\ UNCHANGED fetching
  BY <1>1 DEF Snapshot, GoesTo, Leads, Valid, PreviewHolds, HandlersTyped, Request
<1>7. Led'
  <2>1. /\ fetching \in [Scope -> Handler \cup {Nobody}] /\ Nobody \notin Handler
        /\ \A g \in Handler : handler[g].at \in Leading \cup {"follow"} => handler[g].scope \in Scope
    BY ConstantsTyped DEF PreviewHolds, CatalogTyped, HandlersTyped, Listing
  <2>2. CASE UNCHANGED fetching /\ handler'[h].at # "fetch"
    BY <1>1, <1>4, <1>5, <1>6, <2>1, <2>2 DEF Led, At, Leading
  <2>3. CASE ~(UNCHANGED fetching /\ handler'[h].at # "fetch")
    <3>1. /\ handler'[h].at = "fetch" /\ fetching[r.scope] = Nobody
          /\ fetching' = [fetching EXCEPT ![r.scope] = h]
      BY <1>6, <2>3
    <3>2. \A g \in Handler : handler'[g].at \in Leading => fetching'[handler'[g].scope] = g
      BY <1>1, <1>4, <1>5, <2>1, <3>1 DEF Led, Leading
    <3>3. \A s \in Scope : fetching'[s] # Nobody =>
             handler'[fetching'[s]].at \in Leading /\ handler'[fetching'[s]].scope = s
      BY <1>1, <1>4, <1>5, <2>1, <3>1 DEF Led, At, Leading
    <3>4. \A g \in Handler : handler'[g].at = "follow" =>
             handler'[g].leader = fetching'[handler'[g].scope] /\ handler'[g].leader # Nobody
      BY <1>1, <1>4, <1>5, <2>1, <3>1 DEF Led, At, Leading
    <3> QED BY <3>2, <3>3, <3>4 DEF Led, At
  <2> QED BY <2>2, <2>3
<1>8. Past'
  BY <1>1, <1>2, <1>4, <1>6 DEF Past
<1>9. \A s \in Scope, n \in Nat :
         Covers(n, s) /\ (s = r.scope /\ snapshots[s].known => snapshots[s].read <= n) => Covers(n, s)'
  BY <1>1, <1>4, <1>5, <1>6 DEF Covers, At
<1>10. \A g \in Handler : handler[g].at \in {"keep", "land"} => handler[g].scope \in Scope
  BY DEF PreviewHolds, HandlersTyped, Listing, Leading
<1>11. Newest'
  BY <1>1, <1>2, <1>3, <1>4, <1>5, <1>6, <1>9, <1>10 DEF Newest, At, Listing
<1>12. NoGoingBack'
  BY <1>1, <1>4, <1>5, <1>6 DEF NoGoingBack, Newest, Covers, At, Listing
<1> QED BY <1>7, <1>8, <1>11, <1>12

\* The leader's steps up to the landing leave who leads, and what the others read.
LEMMA FetchKeeps ==
    ASSUME PreviewHolds, ListInv, NEW h \in Handler, Fetched(h) \/ FetchFails(h) \/ KeepSnapshot(h)
    PROVE  ListInv'
<1> USE Numbers DEF ListInv
<1> DEFINE r == handler[h]
<1>1. /\ r.at \in {"fetch", "keep"} /\ r \in Request /\ r.scope \in Scope
      /\ UNCHANGED <<now, latest, fetching>>
  BY DEF Fetched, FetchFails, KeepSnapshot, At, Listing, Leading, PreviewHolds, HandlersTyped
<1>2. \A g \in Handler : g # h => handler'[g] = handler[g]
  BY DEF Fetched, FetchFails, KeepSnapshot, GoesTo, PreviewHolds, HandlersTyped
<1>3. /\ handler'[h].at \in {"keep", "land"} /\ handler'[h].scope = r.scope
      /\ handler'[h].floor = r.floor
  BY <1>1 DEF Fetched, FetchFails, KeepSnapshot, GoesTo, PreviewHolds, HandlersTyped, Request
<1>4. \A n, s : Covers(n, s) => Covers(n, s)'
  BY <1>1, <1>2, <1>3 DEF Covers, At
<1>5. Led'
  BY <1>1, <1>2, <1>3 DEF Led, At, Leading, PreviewHolds, CatalogTyped
<1>6. \A g \in Handler : g # h /\ handler[g].at \in Leading => handler[g].scope # r.scope
  BY <1>1 DEF Led, Leading
<1>7. \A g \in Handler : handler[g].at \in Listing => handler[g].scope \in Scope
  BY DEF PreviewHolds, HandlersTyped
<1>8. NoGoingBack'
  BY <1>1, <1>2, <1>3 DEF NoGoingBack, At
<1>9. CASE Fetched(h)
  <2>1. At(h, "fetch") /\ UNCHANGED snapshots /\ handler'[h].at = "keep" /\ handler'[h].read = now
    BY <1>1, <1>9 DEF Fetched, PreviewHolds, HandlersTyped
  <2>2. Past'
    BY <1>1, <1>2, <2>1 DEF Past
  <2>3. Covers(now, r.scope)
    BY <1>1 DEF Past, Covers
  <2>4. Newest'
    BY <1>1, <1>2, <1>3, <1>4, <2>1, <2>3 DEF Newest, Past, At, Listing, Leading
  <2> QED BY <1>5, <1>8, <2>2, <2>4
<1>10. CASE FetchFails(h)
  <2>1. /\ At(h, "fetch") /\ UNCHANGED snapshots /\ handler'[h].at = "land"
        /\ \/ handler'[h].read = snapshots[r.scope].read /\ snapshots[r.scope].known
           \/ handler'[h].read = r.read /\ ~handler'[h].ok
    BY <1>1, <1>10 DEF FetchFails, PreviewHolds, HandlersTyped, Request
  <2>2. Past'
    BY <1>1, <1>2, <2>1 DEF Past
  <2>3. Newest'
    BY <1>1, <1>2, <1>3, <1>4, <2>1 DEF Newest, At, Listing, Leading
  <2> QED BY <1>5, <1>8, <2>2, <2>3
<1>11. CASE KeepSnapshot(h)
  <2>1. /\ At(h, "keep") /\ handler'[h].at = "land" /\ handler'[h].read = r.read
        /\ handler'[h].ok = r.ok
    BY <1>1, <1>11 DEF KeepSnapshot, GoesTo, PreviewHolds, HandlersTyped, Request
  <2>2. /\ \A s \in Scope : s # r.scope => snapshots'[s] = snapshots[s]
        /\ snapshots'[r.scope].read = r.read /\ snapshots'[r.scope].known
    BY <1>1, <1>11 DEF KeepSnapshot, PreviewHolds, CatalogTyped
  <2>3. Past'
    BY <1>1, <1>2, <2>1, <2>2 DEF Past
  <2>4. Covers(r.read, r.scope)
    BY <2>1 DEF Newest, At
  <2>5. Newest'
    BY <1>1, <1>2, <1>3, <1>4, <1>6, <1>7, <2>1, <2>2, <2>4 DEF Newest, At, Listing, Leading
  <2> QED BY <1>5, <1>8, <2>3, <2>5
<1> QED BY <1>9, <1>10, <1>11

LEMMA LandKeeps ==
    ASSUME PreviewHolds, ListInv, NEW h \in Handler, Land(h)
    PROVE  ListInv'
<1> USE Numbers DEF ListInv
<1> DEFINE r == handler[h]
<1>1. /\ r.at = "land" /\ r \in Request /\ r.scope \in Scope /\ fetching[r.scope] = h
      /\ UNCHANGED <<now, latest, snapshots>>
  BY DEF Land, At, Listing, Leading, PreviewHolds, HandlersTyped, Led
<1>2. \A g \in Handler : g \in Followers(h) <=> At(g, "follow") /\ handler[g].leader = h
  BY DEF Followers
<1>3. \A g \in Handler : g \in Followers(h) <=> At(g, "follow") /\ handler[g].scope = r.scope
  BY <1>1, <1>2, ConstantsTyped DEF Led, At, PreviewHolds, HandlersTyped, Listing
<1>4. ASSUME NEW g \in Handler, g = h \/ g \in Followers(h)
      PROVE  /\ handler'[g].at = "list" /\ handler'[g].ok = r.ok /\ handler'[g].read = r.read
             /\ handler'[g].scope = r.scope /\ handler'[g].floor = handler[g].floor
  BY <1>1, <1>3, <1>4 DEF Land, PreviewHolds, HandlersTyped, Request
<1>5. \A g \in Handler : g # h /\ g \notin Followers(h) => handler'[g] = handler[g]
  BY DEF Land
<1>6. \A g \in Handler : handler[g].at \in Listing => handler[g].scope \in Scope
  BY DEF PreviewHolds, HandlersTyped
<1>7. fetching' = [fetching EXCEPT ![r.scope] = Nobody] /\ fetching \in [Scope -> Handler \cup {Nobody}]
  BY DEF Land, PreviewHolds, CatalogTyped
<1>8. Led'
  BY <1>1, <1>3, <1>4, <1>5, <1>6, <1>7 DEF Led, At, Leading, Listing
<1>9. Past'
  BY <1>1, <1>4, <1>5 DEF Past
<1>10. \A n, s : Covers(n, s) /\ (s = r.scope /\ r.ok => r.read <= n) => Covers(n, s)'
  BY <1>1, <1>4, <1>5 DEF Covers, At
<1>11. \A g \in Handler : g # h /\ handler[g].at \in Leading => handler[g].scope # r.scope
  BY <1>1 DEF Led, Leading
<1>12. Newest'
  <2>1. \A s \in Scope : snapshots[s].known => Covers(snapshots[s].read, s)'
    BY <1>1, <1>10 DEF Newest, At
  <2>2. ASSUME NEW g \in Handler
        PROVE  /\ handler'[g].at \in {"keep", "land"} => handler'[g] = handler[g] /\ handler[g].scope # r.scope
               /\ handler'[g].at \in Listing =>
                     /\ handler[g].at \in Listing /\ handler'[g].floor = handler[g].floor
                     /\ handler'[g].scope = handler[g].scope
    BY <1>1, <1>3, <1>4, <1>5, <1>11 DEF At, Listing, Leading
  <2> QED BY <1>1, <1>10, <2>1, <2>2 DEF Newest, At
<1>13. NoGoingBack'
  <2>1. r.ok => latest[r.scope] <= r.read
    BY <1>1 DEF Newest, Covers, At
  <2>2. \A g \in Handler : g = h \/ g \in Followers(h) => handler[g].floor <= latest[r.scope]
    BY <1>1, <1>3 DEF Newest, At, Listing, Leading
  <2> QED BY <1>1, <1>4, <1>5, <2>1, <2>2 DEF NoGoingBack, At
<1> QED BY <1>8, <1>9, <1>12, <1>13

LEMMA ListedKeeps ==
    ASSUME PreviewHolds, ListInv, NEW h \in Handler, Listed(h)
    PROVE  ListInv'
<1> USE Numbers DEF ListInv
<1> DEFINE r == handler[h]
<1>1. /\ r.at = "list" /\ r \in Request /\ r.scope \in Scope
      /\ UNCHANGED <<now, fetching, snapshots>>
  BY DEF Listed, At, Listing, PreviewHolds, HandlersTyped
<1>2. handler'[h] = IdleHandler /\ \A g \in Handler : g # h => handler'[g] = handler[g]
  BY DEF Listed, PreviewHolds, HandlersTyped
<1>3. IdleHandler.at = "idle" /\ IdleHandler.read = 0
  BY DEF IdleHandler
<1>4. /\ \A s \in Scope : s # r.scope => latest'[s] = latest[s]
      /\ latest'[r.scope] = IF r.ok /\ r.read > latest[r.scope] THEN r.read ELSE latest[r.scope]
  BY <1>1 DEF Listed, PreviewHolds, CatalogTyped
<1>5. \A s \in Scope : latest[s] <= latest'[s]
  BY <1>1, <1>4
<1>6. Led'
  BY <1>1, <1>2, <1>3 DEF Led, At, Leading, PreviewHolds, CatalogTyped
<1>7. Past'
  BY <1>1, <1>2, <1>3, <1>4 DEF Past
<1>8. \A n \in Nat, s \in Scope : Covers(n, s) => Covers(n, s)'
  BY <1>1, <1>2, <1>3, <1>4 DEF Covers, At
<1>9. \A g \in Handler : handler[g].at \in Listing => handler[g].scope \in Scope
  BY DEF PreviewHolds, HandlersTyped
<1>10. Newest'
  <2>1. ASSUME NEW g \in Handler, handler'[g].at \in Listing
        PROVE  handler'[g] = handler[g] /\ handler[g].scope \in Scope
    BY <1>2, <1>3, <1>9, <2>1 DEF Listing, Leading
  <2>2. ASSUME NEW g \in Handler, handler'[g].at \in Listing
        PROVE  handler'[g].floor <= latest'[handler'[g].scope]
    <3>1. handler[g].floor <= latest[handler[g].scope]
      BY <2>1, <2>2 DEF Newest
    <3>2. latest'[handler[g].scope] \in Nat
      BY <1>1, <1>4, <2>1, <2>2
    <3> QED BY <1>5, <2>1, <2>2, <3>1, <3>2
  <2> QED BY <1>1, <1>8, <2>1, <2>2 DEF Newest, At, Listing, Leading
<1>11. NoGoingBack'
  BY <1>1, <1>2, <1>3 DEF NoGoingBack, At
<1> QED BY <1>6, <1>7, <1>10, <1>11

LEMMA ListStep == PreviewHolds /\ ListInv /\ [NextPreview]_previewVars => ListInv'
<1> SUFFICES ASSUME PreviewHolds, ListInv, [NextPreview]_previewVars PROVE ListInv'
  OBVIOUS
<1>1. ASSUME NEW h \in Handler, ListVoices(h) \/ Lists(h) PROVE ListInv'
  BY <1>1, AskedKeeps, SnapshotKeeps, FetchKeeps, LandKeeps, ListedKeeps DEF Lists
<1>2. ASSUME NEW h \in Handler, AskPreview(h) \/ Previews(h),
             UNCHANGED <<now, snapshots, fetching, latest>>
      PROVE  ListInv'
  BY <1>2, PreviewsKeep
<1>3. CASE Tick \/ UNCHANGED <<now, handler, snapshots, fetching, latest>>
  BY <1>3, TickKeeps
<1> QED BY <1>1, <1>2, <1>3, StepShape DEF Expire, Change, previewVars

-----------------------------------------------------------------------------
(* The caches: each key once, and no more entries than there may be.        *)

Cache(s) == s \in Seq(Key) /\ IsInjective(s)

\* What a removal leaves is the sequence without that position.
LEMMA RemovedAt ==
    ASSUME NEW s \in Seq(Key), NEW i \in 1 .. Len(s)
    PROVE  /\ RemoveAt(s, i) \in Seq(Key) /\ Len(RemoveAt(s, i)) = Len(s) - 1
           /\ \A j \in 1 .. Len(s) - 1 : RemoveAt(s, i)[j] = IF j < i THEN s[j] ELSE s[j + 1]
<1> DEFINE before == SubSeq(s, 1, i - 1)
           after == SubSeq(s, i + 1, Len(s))
<1>1. /\ before \in Seq(Key) /\ Len(before) = i - 1 /\ \A j \in 1 .. i - 1 : before[j] = s[j]
  OBVIOUS
<1>2. /\ after \in Seq(Key) /\ Len(after) = Len(s) - i
      /\ \A j \in 1 .. Len(s) - i : after[j] = s[i + j]
  OBVIOUS
<1> HIDE DEF before, after
<1>3. /\ before \o after \in Seq(Key)
      /\ Len(before \o after) = Len(before) + Len(after)
      /\ \A j \in 1 .. Len(before) + Len(after) :
            (before \o after)[j] = IF j <= Len(before) THEN before[j] ELSE after[j - Len(before)]
  BY <1>1, <1>2, ConcatProperties
<1>4. Len(s) \in Nat /\ i \in Nat /\ Len(before) + Len(after) = Len(s) - 1
  BY <1>1, <1>2
<1>5. ASSUME NEW j \in 1 .. Len(s) - 1
      PROVE  (before \o after)[j] = IF j < i THEN s[j] ELSE s[j + 1]
  <2>1. CASE j < i
    BY <1>1, <1>3, <1>4, <2>1
  <2>2. CASE ~(j < i)
    <3>1. (before \o after)[j] = after[j - (i - 1)]
      BY <1>1, <1>3, <1>4, <2>2
    <3>2. j - (i - 1) \in 1 .. Len(s) - i /\ i + (j - (i - 1)) = j + 1
      BY <1>4, <2>2
    <3> QED BY <1>2, <2>2, <3>1, <3>2
  <2> QED BY <2>1, <2>2
<1>6. RemoveAt(s, i) = before \o after
  BY DEF RemoveAt, before, after
<1> QED BY <1>3, <1>4, <1>5, <1>6

LEMMA WithoutCache ==
    ASSUME NEW s, Cache(s), NEW k \in Key
    PROVE  /\ Cache(Without(s, k)) /\ ~Contains(Without(s, k), k)
           /\ Len(Without(s, k)) = IF Contains(s, k) THEN Len(s) - 1 ELSE Len(s)
<1> USE DEF Cache, IsInjective
<1>1. CASE ~Contains(s, k)
  BY <1>1 DEF Without
<1>2. CASE Contains(s, k)
  <2> DEFINE i == CHOOSE j \in DOMAIN s : s[j] = k
             t == RemoveAt(s, i)
  <2>1. i \in 1 .. Len(s) /\ s[i] = k
    BY <1>2 DEF Contains
  <2> HIDE DEF i
  <2>2. /\ t \in Seq(Key) /\ Len(t) = Len(s) - 1
        /\ \A j \in 1 .. Len(s) - 1 : t[j] = IF j < i THEN s[j] ELSE s[j + 1]
    BY <2>1, RemovedAt
  <2>3. Without(s, k) = t
    BY <1>2 DEF Without, i
  <2> HIDE DEF t
  <2> DEFINE from(j) == IF j < i THEN j ELSE j + 1
  <2>4. DOMAIN t = 1 .. Len(s) - 1 /\ DOMAIN s = 1 .. Len(s) /\ Len(s) \in Nat
    BY <2>2
  <2>5. \A j \in DOMAIN t : from(j) \in DOMAIN s /\ from(j) # i /\ t[j] = s[from(j)]
    BY <2>1, <2>2, <2>4
  <2>6. ASSUME NEW a \in DOMAIN t, NEW b \in DOMAIN t, t[a] = t[b] PROVE a = b
    <3>1. from(a) = from(b)
      BY <2>5, <2>6
    <3> QED BY <2>1, <2>4, <3>1
  <2>7. ~Contains(t, k)
    BY <2>1, <2>4, <2>5 DEF Contains
  <2> QED BY <1>2, <2>2, <2>3, <2>6, <2>7
<1> QED BY <1>1, <1>2

LEMMA RenewedCache ==
    ASSUME NEW s, Cache(s), NEW k \in Key
    PROVE  /\ Cache(Renewed(s, k))
           /\ Len(Renewed(s, k)) = IF Contains(s, k) THEN Len(s) ELSE Len(s) + 1
<1> DEFINE t == Without(s, k)
<1>1. /\ t \in Seq(Key) /\ IsInjective(t) /\ ~Contains(t, k)
      /\ Len(t) = IF Contains(s, k) THEN Len(s) - 1 ELSE Len(s)
  BY WithoutCache DEF Cache
<1>2. s \in Seq(Key)
  BY DEF Cache
<1> HIDE DEF t
<1>3. Append(t, k) \in Seq(Key) /\ IsInjective(Append(t, k)) /\ Len(Append(t, k)) = Len(t) + 1
  BY <1>1 DEF IsInjective, Contains
<1> QED BY <1>1, <1>2, <1>3 DEF Cache, Renewed, t

LEMMA TouchedCache ==
    ASSUME NEW s, Cache(s), NEW k \in Key
    PROVE  Cache(Touched(s, k)) /\ Len(Touched(s, k)) = Len(s)
BY RenewedCache DEF Touched

LEMMA BoundedCache ==
    ASSUME NEW s, Cache(s)
    PROVE  Cache(Bounded(s)) /\ Len(Bounded(s)) <= MaxEntries
<1>1. MaxEntries \in Nat \ {0} /\ s \in Seq(Key) /\ IsInjective(s)
  BY PreviewConstants DEF Cache
<1>2. CASE Len(s) > MaxEntries
  <2> DEFINE t == SubSeq(s, Len(s) - MaxEntries + 1, Len(s))
  <2>1. /\ t \in Seq(Key) /\ Len(t) = MaxEntries
        /\ \A j \in 1 .. MaxEntries : t[j] = s[Len(s) - MaxEntries + j]
    BY <1>1, <1>2
  <2>2. Bounded(s) = t
    BY <1>2 DEF Bounded
  <2> HIDE DEF t
  <2>3. IsInjective(t)
    BY <1>1, <1>2, <2>1 DEF IsInjective
  <2> QED BY <1>1, <2>1, <2>2, <2>3 DEF Cache
<1>3. CASE ~(Len(s) > MaxEntries)
  BY <1>1, <1>3 DEF Bounded, Cache
<1> QED BY <1>2, <1>3

CachesBounded ==
    /\ Cache(samples) /\ Len(samples) <= MaxEntries
    /\ Cache(refused) /\ Len(refused) <= MaxEntries

LEMMA CachesStep == PreviewHolds /\ CachesBounded /\ [NextPreview]_previewVars => CachesBounded'
<1> SUFFICES ASSUME PreviewHolds, CachesBounded, [NextPreview]_previewVars PROVE CachesBounded'
  OBVIOUS
<1> USE DEF CachesBounded
<1>0. \A s : Cache(s) => Len(s) \in Nat
  BY DEF Cache
<1>1. Cache(<<>>) /\ Len(<<>>) = 0 /\ MaxEntries \in Nat
  BY PreviewConstants DEF Cache, IsInjective
<1>2. ASSUME NEW h \in Handler, Previews(h) PROVE CachesBounded'
  <2>1. handler[h].at \in Keyed => handler[h].key \in Key
    BY DEF PreviewHolds, HandlersTyped
  <2>2. CASE Drop(h)
    BY <1>1, <2>2 DEF Drop
  <2>3. CASE Replay(h)
    <3>1. \A i \in DOMAIN samples : samples[i] \in Key
      BY DEF Cache
    <3> QED BY <2>3, <3>1, TouchedCache DEF Replay
  <2>4. CASE Lookup(h) \/ Refusals(h) \/ CollectSample(h)
    <3>1. handler[h].key \in Key
      BY <2>1, <2>4 DEF Lookup, Refusals, CollectSample, At, Keyed, Speaking
    <3> QED BY <2>4, <3>1, TouchedCache DEF Lookup, Refusals, CollectSample
  <2>5. CASE Store(h) \/ Refuse(h)
    <3>1. handler[h].key \in Key
      BY <2>1, <2>5 DEF Store, Refuse, At, Keyed, Speaking
    <3>2. \A s : Cache(s) => Cache(Bounded(Renewed(s, handler[h].key)))
                             /\ Len(Bounded(Renewed(s, handler[h].key))) <= MaxEntries
      BY <3>1, RenewedCache, BoundedCache
    <3> QED BY <2>5, <3>2 DEF Store, Refuse
  <2> QED BY <1>2, <2>2, <2>3, <2>4, <2>5
        DEF Previews, Resolve, Join, Speak, Over, GiveUp
<1>3. CASE Expire
  <2>1. ASSUME NEW s, Cache(s), Len(s) <= MaxEntries, NEW k \in Key
        PROVE  Cache(Without(s, k)) /\ Len(Without(s, k)) <= MaxEntries
    BY <1>0, <1>1, <2>1, WithoutCache
  <2> QED BY <1>3, <2>1 DEF Expire
<1>4. CASE UNCHANGED <<samples, refused>>
  BY <1>4
<1> QED BY <1>2, <1>3, <1>4, StepShape DEF AskPreview, Tick, Change, previewVars

-----------------------------------------------------------------------------
(* The theorems.                                                            *)

LEMMA InitInv == InitPreview => PreviewHolds /\ Spoken /\ ListInv /\ CachesBounded
<1> SUFFICES ASSUME InitPreview PROVE PreviewHolds /\ Spoken /\ ListInv /\ CachesBounded
  OBVIOUS
<1>1. PreviewHolds
  BY InitTyped
<1>2. IdleHandler.at = "idle" /\ IdleHandler.read = 0 /\ \A h \in Handler : handler[h] = IdleHandler
  BY DEF InitPreview, InitCatalog, IdleHandler
<1>3. \A s \in Scope : ~snapshots[s].known /\ snapshots[s].read = 0 /\ fetching[s] = Nobody
                       /\ latest[s] = 0
  BY DEF InitPreview, InitCatalog, NoSnapshot
<1>4. now = 0
  BY DEF InitPreview, InitCatalog
<1>5. Spoken
  BY <1>2 DEF Spoken, Speaking
<1>6. ListInv
  BY <1>2, <1>3, <1>4 DEF ListInv, Led, Past, Newest, NoGoingBack, At, Listing, Leading
<1>7. CachesBounded
  BY PreviewConstants DEF InitPreview, CachesBounded, Cache, IsInjective
<1> QED BY <1>1, <1>5, <1>6, <1>7

\* The inductive invariant.
THEOREM PreviewInvariance == PreviewSpec => [](PreviewHolds /\ Spoken /\ ListInv /\ CachesBounded)
<1>1. PreviewHolds /\ Spoken /\ ListInv /\ CachesBounded /\ [NextPreview]_previewVars
         => (PreviewHolds /\ Spoken /\ ListInv /\ CachesBounded)'
  BY StepTyped, SpokenStep, ListStep, CachesStep
<1> QED BY <1>1, InitInv, PTL DEF PreviewSpec

\* Every variable holds a value of its type, and the caches their bounds.
THEOREM PreviewTypeCorrect == PreviewSpec => []PreviewTypeOK
<1>1. PreviewHolds /\ CachesBounded => PreviewTypeOK
  <2> SUFFICES ASSUME PreviewHolds, CachesBounded PROVE PreviewTypeOK
    OBVIOUS
  <2>1. now \in 0 .. MaxTime /\ \A s \in Scope : latest[s] \in 0 .. MaxTime
    BY DEF PreviewHolds, CatalogTyped, Time
  <2>2. \A h \in Handler : handler[h].key \in 0 .. MaxVersions
    <3>1. \A h \in Handler : handler[h].key \in Key \cup {0}
      BY DEF PreviewHolds, HandlersTyped, Request
    <3> QED BY <3>1, PreviewConstants DEF Key
  <2>3. \A s \in Scope : snapshots[s].began \in 0 .. MaxTime
    BY DEF PreviewHolds, CatalogTyped, SnapshotType, Time
  <2>4. \A k \in Key : flights[k] \in Handler \cup {Nobody}
    BY DEF PreviewHolds, PreviewTyped
  <2>5. /\ Len(samples) <= MaxEntries /\ Len(refused) <= MaxEntries
        /\ IsInjective(samples) /\ IsInjective(refused)
    BY DEF CachesBounded, Cache
  <2> QED BY <2>1, <2>2, <2>3, <2>4, <2>5 DEF PreviewTypeOK
<1> QED BY <1>1, PreviewInvariance, PTL

\* A list is never older than one that was answered before it was asked for
\* (VoiceCatalogService: one leader per scope, stale lists on failure).
THEOREM ListsNeverGoBack == PreviewSpec => []NoGoingBack
<1>1. ListInv => NoGoingBack
  BY DEF ListInv
<1> QED BY <1>1, PreviewInvariance, PTL

\* One sample is never paid for by two requests at once (VoicePreviewService's
\* flights), whatever the number of handlers.
THEOREM PaidOnce == PreviewSpec => []PaidOnceAtATime
<1>1. Spoken => PaidOnceAtATime
  <2> SUFFICES ASSUME Spoken, NEW k \in Key PROVE Cardinality(Paying(k)) <= 1
    BY DEF PaidOnceAtATime
  <2>1. Paying(k) \in SUBSET {flights[k]}
    BY DEF Spoken, Speaking, Paying, At
  <2>2. IsFiniteSet({flights[k]}) /\ Cardinality({flights[k]}) = 1
    BY FS_Singleton
  <2> QED BY <2>1, <2>2, FS_Subset
<1> QED BY <1>1, PreviewInvariance, PTL
=============================================================================
