---------------------------- MODULE VoiceSettings ----------------------------
(***************************************************************************)
(* voice_activation.py over the settings (OverlayConfig) and the packs     *)
(* (PackRegistry), with what else changes the same settings meanwhile: the *)
(* raw settings route and the override of the filler texts.                *)
(*                                                                         *)
(* Activation, regeneration and rollback hold one operation lock from      *)
(* their first look at the settings to their last file, so one is in       *)
(* progress at a time (op); the settings' lock they take only to read, at  *)
(* the start, to commit, and to see what they committed.  The engine is    *)
(* the one that supports voices.                                           *)
(***************************************************************************)
EXTENDS PackRegistry

CONSTANTS Catalogued,   \* the voices chosen by catalogue id, others by reference
          MaxVersion,   \* bound: config_version
          MaxText,      \* bound: versions of the filler texts
          MaxCrashes,   \* bound: kills of the process
          MaxFaults     \* bound: failing operations, spells of failing reads

ASSUME VoiceBounds ==
    /\ Catalogued \subseteq Voice
    /\ MaxVersion \in Nat \ {0} /\ {MaxText, MaxCrashes, MaxFaults} \subseteq Nat
    /\ Pack \subseteq Nat

VARIABLES op,        \* the operation in progress, with its locals
          service,   \* the lazily built service: shut / recovering / open
          journal,   \* voice-activation-journal.json exists
          text,      \* version of the effective filler texts
          crashes, faults,
          forgotten, \* history: settings nobody could read were replaced since
                     \* the operation began
          lost       \* history: packs in use that were collected because the
                     \* settings could not be read after their commit

locals  == <<op, service, journal>>
bounds  == <<crashes, faults>>
history == <<forgotten, lost>>
vars    == <<cfg, unreadable, registry, locals, text, bounds, history>>

NoOp == [kind |-> "none", at |-> "idle", want |-> 0, ref |-> NoVoice, cat |-> FALSE,
         stages |-> FALSE, snapshot |-> 0, pack |-> NoPack, mgmt |-> "none",
         status |-> "none", was |-> [ref |-> NoVoice], keep |-> {}, lkg |-> NoPack,
         blind |-> FALSE, doomed |-> {}]

Init ==
    /\ InitConfig /\ InitRegistry
    /\ op = NoOp /\ service = "shut" /\ journal = FALSE
    /\ text = 0
    /\ crashes = 0 /\ faults = 0
    /\ forgotten = FALSE /\ lost = {}

Goto(label) == op' = [op EXCEPT !.at = label] /\ UNCHANGED <<service, journal>>

\* What is left of an operation is its finally.
End == op' = [NoOp EXCEPT !.at = "close"] /\ UNCHANGED <<service, journal>>

Fault == faults < MaxFaults /\ faults' = faults + 1 /\ UNCHANGED crashes

-----------------------------------------------------------------------------
(* The operations, up to their commit.                                      *)

\* What _active_fields() will store as the last known good: the voice and pack
\* of the settings read at the start.
WasSwapped(c) == [lref |-> c.ref, lcat |-> c.cat, lpack |-> c.pack, lmgmt |-> c.status,
                  lstatus |-> c.mgmt]
Was(c) == [lref |-> c.ref, lcat |-> c.cat, lpack |-> c.pack, lmgmt |-> c.mgmt,
           lstatus |-> c.status]

Start(o) ==
    /\ service = "open" /\ op = NoOp
    /\ Settings.ver < MaxVersion /\ (o.stages => In("none") # {})  \* bounds
    /\ op' = [o EXCEPT !.want = Settings.ver, !.was = Was(Settings)]
    /\ journal' = TRUE /\ spoiled' = spoiled \ {"activation"}
    /\ UNCHANGED <<cfg, unreadable, place, made, pin, strays, left, service, text, bounds,
                   history>>

\* An If-Match that is not current is refused before anything else.
Activate(v, require) ==
    Start([NoOp EXCEPT !.kind = "activate", !.at = "match", !.ref = v,
                       !.cat = v \in Catalogued, !.stages = require, !.mgmt = "managed",
                       !.snapshot = text,
                       !.status = IF Settings.voice # NoVoice THEN "stale" ELSE "unavailable"])

Regenerate ==
    /\ Settings.ref # NoVoice
    /\ Start([NoOp EXCEPT !.kind = "regenerate", !.at = "match", !.ref = Settings.ref,
                          !.cat = Settings.cat, !.stages = TRUE, !.mgmt = "managed",
                          !.snapshot = text])

\* The catalogue may resolve the saved voice to another reference by now; when
\* it cannot be reached the saved one is trusted.
RollbackUnresolved(v) == TRUE
RollbackResolves(v) == Settings.lpack # NoPack => Resolves(Settings.lpack, v)
Rollback(v) ==
    LET c == Settings
    IN /\ c.lref # NoVoice
       /\ v = c.lref \/ c.lcat
       /\ RollbackResolves(v)
       /\ Start([NoOp EXCEPT !.kind = "rollback", !.at = "commit", !.ref = v,
                             !.cat = c.lcat, !.pack = c.lpack, !.mgmt = c.lmgmt,
                             !.status = IF c.lpack # NoPack THEN "ready" ELSE c.lstatus])

\* _matching_pack(): a published pack for the voice and the texts read at the start.
Matching == {p \in Published : Resolves(p, op.ref) /\ made[p].text = op.snapshot}

WithPack(p) == [op EXCEPT !.at = "commit", !.pack = p, !.status = "ready", !.snapshot = 0]

Match ==
    /\ op.at = "match"
    /\ \/ \E p \in Matching : op' = WithPack(p)
       \/ /\ Matching = {}
          /\ op' = [op EXCEPT !.at = IF op.stages THEN "stage" ELSE "commit"]
    /\ UNCHANGED <<cfg, unreadable, registry, service, journal, text, bounds, history>>

\* _stage_matching_pack(): minutes of synthesis, with nothing locked.
Stage ==
    /\ \E p \in Pack :
          \/ /\ op.at = "stage" /\ CreateStage(p, op.ref, op.snapshot)
             /\ op' = [op EXCEPT !.at = "lock", !.pack = p]
          \/ /\ op.at = "lock" /\ p = op.pack /\ LockStage(p)
             /\ op' = [op EXCEPT !.at = "validate"]
          \/ /\ op.at = "validate" /\ p = op.pack /\ ValidateStage(p)
             /\ op' = [op EXCEPT !.at = "publish"]
          \/ /\ op.at = "publish" /\ p = op.pack /\ PublishStage(p)
             /\ op' = WithPack(p)
    /\ UNCHANGED <<cfg, unreadable, service, journal, text, bounds, history>>

\* A synthesis, a rename or the settings' replace fails, or the engine was
\* changed: the operation changes no settings, and what it staged stays.
OperationFails ==
    /\ op.at \in {"match", "stage", "commit"}
    /\ Fault /\ End
    /\ UNCHANGED <<cfg, unreadable, registry, text, history>>

StagingFails ==
    /\ op.at \in {"lock", "validate", "publish"}
    /\ Fault /\ End /\ AbandonStage(op.pack)
    /\ UNCHANGED <<cfg, unreadable, pin, strays, spoiled, text, history>>

-----------------------------------------------------------------------------
(* Commit, and the retention that follows it outside the settings' lock.    *)

\* _active_fields()
Fields ==
    [voice |-> op.ref, ref |-> op.ref, cat |-> op.cat, pack |-> op.pack,
     mgmt |-> op.mgmt, status |-> op.status,
     lref |-> op.was.lref, lcat |-> op.was.lcat, lpack |-> op.was.lpack,
     lmgmt |-> op.was.lmgmt, lstatus |-> op.was.lstatus]

\* A regeneration that found the active pack has nothing to commit.
NothingNew == op.kind = "regenerate" /\ op.was.lpack = op.pack

Retain(pack, lkg) == [NoOp EXCEPT !.at = "pin", !.lkg = lkg, !.keep = {pack, lkg} \ {NoPack}]

Commit ==
    /\ op.at = "commit" /\ ~NothingNew
    /\ CommitVoicePointers(op.want, Fields)
    /\ op' = Retain(op.pack, op.was.lpack)
    /\ UNCHANGED <<unreadable, registry, service, journal, text, bounds, history>>

\* The settings are read again for the retention: if that fails, it sees none.
CommitBlind ==
    /\ op.at = "commit" /\ ~NothingNew
    /\ CommitVoicePointers(op.want, Fields)
    /\ IF unreadable THEN UNCHANGED bounds ELSE Fault
    /\ op' = [Retain(NoPack, NoPack) EXCEPT !.blind = TRUE]
    /\ UNCHANGED <<unreadable, registry, service, journal, text, history>>

\* ... or the settings have moved on (409), or there is nothing to commit.
CommitNothing ==
    /\ op.at = "commit" /\ (NothingNew \/ ~Current(op.want))
    /\ End
    /\ UNCHANGED <<cfg, unreadable, registry, text, bounds, history>>

Pin ==
    /\ op.at = "pin" /\ Goto("collect")
    /\ \/ op.lkg # NoPack /\ PinLkg(op.lkg)
       \/ op.lkg = NoPack /\ UNCHANGED registry
    /\ UNCHANGED <<cfg, unreadable, text, bounds, history>>

\* There is no such pack: the retention ends.
PinRaises ==
    /\ op.at = "pin" /\ op.lkg \notin Published \cup {NoPack}
    /\ End
    /\ UNCHANGED <<cfg, unreadable, registry, text, bounds, history>>

\* The candidates are listed, the collection's own journal is written.
Collect ==
    LET doomed == Doomed(Published \ op.keep, op.keep)
    IN /\ op.at = "collect"
       /\ op' = [NoOp EXCEPT !.at = "gc", !.doomed = doomed]
       /\ lost' = IF op.blind THEN lost \cup (doomed \cap {cfg.pack, cfg.lpack}) ELSE lost
       /\ UNCHANGED <<cfg, unreadable, registry, service, journal, text, bounds, forgotten>>

CollectOne ==
    /\ op.at = "gc"
    /\ \E p \in op.doomed :
          \/ In("trash") \cap op.doomed = {} /\ Discard(p)
          \/ EmptyTrash(p)
    /\ UNCHANGED <<cfg, unreadable, locals, text, bounds, history>>

CollectEnds ==
    /\ op.at = "gc" /\ \A p \in op.doomed : place[p] = "gone"
    /\ End
    /\ UNCHANGED <<cfg, unreadable, registry, text, bounds, history>>

\* Retention is best effort: its failure is logged and the operation succeeds.
RetentionFails ==
    /\ op.at \in {"pin", "collect"}
    /\ Fault /\ End
    /\ UNCHANGED <<cfg, unreadable, registry, text, history>>

CollectFails ==
    /\ op.at = "gc"
    /\ Fault /\ End
    /\ strays' = TRUE /\ spoiled' = spoiled \cup {"gc"}
    /\ left' = left \cup (In("trash") \cap op.doomed)
    /\ UNCHANGED <<cfg, unreadable, place, made, pin, text, history>>

\* The finally of every operation: journal and lock go.
Close ==
    /\ op.at = "close" /\ op' = NoOp
    /\ journal' = FALSE /\ forgotten' = FALSE
    /\ UNCHANGED <<cfg, unreadable, registry, service, text, bounds, lost>>

JournalLeft ==
    /\ op.at = "close" /\ op' = NoOp
    /\ Fault /\ spoiled' = spoiled \cup {"activation"} /\ forgotten' = FALSE
    /\ UNCHANGED <<cfg, unreadable, place, made, pin, strays, left, service, journal, text, lost>>

-----------------------------------------------------------------------------
(* What else changes settings and texts.                                    *)

PutSetting ==
    /\ Settings.ver < MaxVersion
    /\ \/ PutOther(Settings.ver)
       \/ \E v \in Voice \cup {NoVoice} : PutVoice(Settings.ver, v)
    /\ forgotten' = (forgotten \/ (unreadable /\ op # NoOp))
    /\ UNCHANGED <<unreadable, registry, locals, text, bounds, lost>>

\* For a while every read of the overlay fails (a write may end it).
Unreadable ==
    /\ ~unreadable /\ unreadable' = TRUE /\ Fault
    /\ UNCHANGED <<cfg, registry, locals, text, history>>

ReadableAgain ==
    /\ unreadable /\ unreadable' = FALSE
    /\ UNCHANGED <<cfg, registry, locals, text, bounds, history>>

\* An override is saved or deleted; deleting it brings an earlier version back.
PutFillerTexts ==
    /\ service = "open"
    /\ text' \in (0..MaxText) \ {text}
    /\ UNCHANGED <<cfg, unreadable, registry, locals, bounds, history>>

-----------------------------------------------------------------------------
(* The process.                                                             *)

Crash ==
    /\ crashes < MaxCrashes /\ crashes' = crashes + 1
    /\ op' = NoOp /\ service' = "shut"
    /\ strays' = (strays \/ op.at = "gc") /\ forgotten' = FALSE
    /\ UNCHANGED <<cfg, unreadable, place, made, pin, residue, journal, text, faults, lost>>

\* The first request that needs the service builds it.
OpenService ==
    /\ service = "shut" /\ service' = "recovering"
    /\ left' = {} /\ spoiled' = {}
    /\ UNCHANGED <<cfg, unreadable, place, made, pin, strays, op, journal, text, bounds, history>>

RecoverStep ==
    /\ service = "recovering"
    /\ RecoverJournals \/ \E p \in Pack : RecoverStage(p) \/ RecoverSkips(p) \/ RecoverTrash(p)
    /\ UNCHANGED <<cfg, unreadable, locals, text, bounds, history>>

\* A removal or rename that fails is passed over, ...
RecoverStays ==
    /\ service = "recovering" /\ Fault
    /\ JournalStays \/ \E p \in Pack : StageStays(p) \/ TrashStays(p)
    /\ UNCHANGED <<cfg, unreadable, locals, text, history>>

\* ... a directory that cannot be listed is not: the request fails.
RecoverRaises ==
    /\ service = "recovering" /\ Fault
    /\ service' = "shut" /\ journal' = FALSE
    /\ UNCHANGED <<cfg, unreadable, registry, op, text, history>>

RecoverEnds ==
    /\ service = "recovering" /\ Recovered
    /\ service' = "open"
    /\ \/ journal' = FALSE /\ UNCHANGED <<spoiled, bounds>>
       \/ Fault /\ spoiled' = spoiled \cup {"activation"} /\ UNCHANGED journal
    /\ UNCHANGED <<cfg, unreadable, place, made, pin, strays, left, op, text, history>>

\* Between requests.
Idle == service = "open" /\ op = NoOp /\ UNCHANGED vars

Next ==
    \/ \E v \in Voice, require \in BOOLEAN : Activate(v, require)
    \/ Regenerate
    \/ \E v \in Voice : Rollback(v)
    \/ Match \/ Stage \/ OperationFails \/ StagingFails
    \/ Commit \/ CommitBlind \/ CommitNothing
    \/ Pin \/ PinRaises \/ Collect \/ CollectOne \/ CollectEnds
    \/ RetentionFails \/ CollectFails \/ Close \/ JournalLeft
    \/ PutSetting \/ Unreadable \/ ReadableAgain \/ PutFillerTexts
    \/ Crash \/ OpenService \/ RecoverStep \/ RecoverStays \/ RecoverRaises
    \/ RecoverEnds \/ Idle

Spec == Init /\ [][Next]_vars
-----------------------------------------------------------------------------
(* Properties.                                                              *)

Statuses == {Legacy, "ready", "stale", "unavailable"}
Managements == {"legacy", "raw", "managed"}
Voices == Voice \cup {NoVoice}
Packs == Pack \cup {NoPack}

\* Every variable has its type: a swapped pointer pair, a status stored as a
\* management state, would show here.
TypeOK ==
    /\ cfg \in [ver : 1..MaxVersion, fillers : 1..MaxVersion,
                voice : Voices, ref : Voices, cat : BOOLEAN, pack : Packs,
                mgmt : Managements, status : Statuses,
                lref : Voices, lcat : BOOLEAN, lpack : Packs,
                lmgmt : Managements, lstatus : Statuses]
    /\ place \in [Pack -> {"none", "bare", "stage", "ready", "published", "trash", "gone"}]
    /\ made \in [Pack -> [voice : Voices, text : 0..MaxText]]
    /\ pin \in Packs /\ strays \in BOOLEAN
    /\ left \cup lost \subseteq Pack /\ spoiled \subseteq {"gc", "activation"}
    /\ unreadable \in BOOLEAN /\ forgotten \in BOOLEAN
    /\ service \in {"shut", "recovering", "open"} /\ journal \in BOOLEAN
    /\ op.doomed \cup op.keep \subseteq Pack

\* What the settings name is there and fits: the voice spoken is the one the
\* pack was made for, of the active pair and of the last known good one, whose
\* packs no collection has taken and no raw settings change has left behind a
\* different voice; and "ready" is said of a pack, and of nothing else.  In
\* every state: in mid commit, after a kill, with the other routes at work.  Only
\* a retention that could not read the settings may have taken one.
PointersHold ==
    /\ cfg.voice = cfg.ref
    /\ cfg.pack \notin lost \cup {NoPack} => Resolves(cfg.pack, cfg.ref)
    /\ cfg.lpack \notin lost \cup {NoPack} => Resolves(cfg.lpack, cfg.lref)
    /\ cfg.status = "ready" <=> cfg.pack # NoPack

Active(c) == <<c.ref, c.cat, c.pack, c.mgmt, c.status>>
LastKnownGood(c) == <<c.lref, c.lcat, c.lpack, c.lmgmt, c.lstatus>>

\* There is a way back from every change of voice: what a commit, or the raw
\* route over a managed voice, replaces is the last known good pair of the same
\* write, and it is what was active at that moment, not when the operation
\* began minutes ago.  (A write that cannot read what it replaces saves nothing,
\* and starts the versions again, which a commit may take for its own.)
WayBack ==
    [][(Active(cfg') # Active(cfg) /\ ~unreadable
           /\ (IF op' = op THEN cfg.mgmt = "managed" ELSE ~forgotten))
          => LastKnownGood(cfg') = Active(cfg)]_vars

\* An idle service leaves nothing on disk that no operation owns, no journal, no
\* stage and no trash, whatever was killed or failed before its start, but for what
\* failed since (an operation's stage, a removal) and the stage a kill left without
\* its lock, if it was young at the start.
NothingLeftBehind ==
    (service = "open" /\ op = NoOp)
        => /\ In("bare") \cup In("stage") \cup In("ready") \cup In("trash") \subseteq left
           /\ strays => "gc" \in spoiled
           /\ journal => "activation" \in spoiled

\* The packs on disk are those in use: every pointer names one that is there
\* and fits its voice, and no kill leaves others for longer than until the next start.
PacksKept == PointersHold /\ NothingLeftBehind
=============================================================================
