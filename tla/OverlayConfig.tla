---------------------------- MODULE OverlayConfig ----------------------------
(***************************************************************************)
(* caty_config.py: the member's settings, one JSON overlay replaced as a   *)
(* whole under one lock, so that each operation is one step.               *)
(*                                                                         *)
(* Kept of the settings: what names the active voice, its pack of filler   *)
(* clips and the last known good pair, and the two versions clients see.   *)
(* config_version is the compare-and-swap token; fillers_version is the    *)
(* clients' cache key of the clips.  An overlay that cannot be read counts *)
(* as an empty one, and the next write replaces it.                        *)
(***************************************************************************)
EXTENDS Integers

CONSTANTS Voice, NoVoice,   \* reference ids; NoVoice is ""
          Default,          \* the member's own voice_id default
          Pack, NoPack      \* pack ids, in the order of their creation

ASSUME ConfigConstants ==
    NoVoice \notin Voice /\ NoPack \notin Pack /\ Default \in Voice \cup {NoVoice}

VARIABLES cfg,
          unreadable   \* reads of the overlay fail

Legacy == "legacy-unknown"

DefaultSettings ==
    [ver |-> 1, fillers |-> 1,
     voice |-> Default, ref |-> Default, cat |-> FALSE, pack |-> NoPack,
     mgmt |-> "legacy", status |-> Legacy,
     lref |-> NoVoice, lcat |-> FALSE, lpack |-> NoPack,
     lmgmt |-> "legacy", lstatus |-> Legacy]

InitConfig == cfg = DefaultSettings /\ unreadable = FALSE

\* get(): what a read gives.
Settings == IF unreadable THEN DefaultSettings ELSE cfg

-----------------------------------------------------------------------------
(* update(): the raw settings route, with the If-Match it was sent.         *)

\* A managed voice that is about to be replaced becomes the last known good.
Saved(c) ==
    IF c.mgmt # "managed" THEN c
    ELSE [c EXCEPT !.lref = c.ref, !.lcat = c.cat, !.lpack = c.pack,
                   !.lmgmt = "managed", !.lstatus = c.status]

IsDefault(v) == v = Default /\ v # NoVoice
ReplacesVoice(c, v) == v # c.voice \/ (IsDefault(v) /\ c.mgmt # "legacy")

\* The raw route cannot prove that a pack matches: the pointer goes with it.
WithRawVoice(c, v) ==
    [Saved(c) EXCEPT !.voice = v, !.ref = v, !.cat = FALSE, !.pack = NoPack,
                     !.mgmt = IF IsDefault(v) THEN "legacy" ELSE "raw",
                     !.status = IF IsDefault(v) THEN Legacy
                                ELSE IF v # NoVoice THEN "stale" ELSE "unavailable",
                     !.fillers = @ + 1]

NextVersion(c) == [c EXCEPT !.ver = @ + 1]

PutVoice(expected, v) ==
    LET c == Settings
    IN /\ expected = c.ver
       /\ cfg' = NextVersion(IF ReplacesVoice(c, v) THEN WithRawVoice(c, v) ELSE c)

\* Name, colour, hint and switches.
PutOther(expected) == expected = Settings.ver /\ cfg' = NextVersion(Settings)

-----------------------------------------------------------------------------
(* commit_voice_pointers()                                                  *)

CacheKeys == {"pack", "voice", "ref", "mgmt", "status"}

Updated(c, fields) ==
    [k \in DOMAIN c |-> IF k \in DOMAIN fields THEN fields[k] ELSE c[k]]

CurrentAnyway(expected) == TRUE
Current(expected) == expected = Settings.ver

CommitVoicePointers(expected, fields) ==
    LET c == Settings
    IN /\ Current(expected)
       /\ cfg' = NextVersion([Updated(c, fields) EXCEPT
                     !.fillers = IF \E k \in CacheKeys : fields[k] # c[k]
                                 THEN c.fillers + 1 ELSE c.fillers])
=============================================================================
