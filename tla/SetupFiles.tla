----------------------------- MODULE SetupFiles -----------------------------
(***************************************************************************)
(* What one member's setup keeps outside its processes: the status file    *)
(* through which setups find each other (setup_supervisor.update_status),  *)
(* the resume state, the brain's configuration and its backup, the         *)
(* installed service configuration; and the processes that share them.     *)
(*                                                                         *)
(* A process registers its pid and start time.  Whether a registered pair  *)
(* belongs to a running process is decided by both, so a pair whose        *)
(* process has ended is "dead" here, whatever runs later.                  *)
(***************************************************************************)
EXTENDS Naturals, FiniteSets

CONSTANTS Terminal,     \* where an operator may type the setup command
          MaxRuns,      \* bound: setup commands started by hand
          MaxFaults     \* bound: processes killed or interrupted

ASSUME SetupConstants ==
    /\ Terminal \cap {"child", "sup", "none", "dead"} = {}
    /\ {MaxRuns, MaxFaults} \subseteq Nat

Orchestrator == Terminal \cup {"child"}    \* "child": the one the supervisor resumes

VARIABLES status,    \* <member>.status.json: state and registered owners
          resume,    \* <member>.json
          config,    \* the brain's configuration files
          reachable, \* the backend answers as an enabled backend does
          artifact,  \* the member's environment file or plist
          kind,      \* how this backend is restarted
          declared,  \* whether the backend has declared configuration paths
          run,       \* per orchestrator: where it is, and its copy of resume
          sup,       \* the restart supervisor
          bounds,    \* commands started, faults spent
          gap,       \* history: a live owner dropped out of the status file
          lost       \* history: the resume state and what it describes came apart

files == <<status, resume, config, reachable, artifact, kind, declared>>
ghosts == <<gap, lost>>
vars == <<files, run, sup, bounds, ghosts>>

TERMINAL_STATES == {"succeeded", "rolled-back", "double-failure", "interrupted",
                    "failed"}
NoStatus == [state |-> "none", orch |-> "none", sup |-> "none"]
NoResume == [has |-> FALSE, manifest |-> "none", done |-> FALSE, own |-> "no",
             phase |-> 0]
FreshResume == [NoResume EXCEPT !.has = TRUE]

-----------------------------------------------------------------------------
(* The status file: every writer rereads it under its lock and changes only *)
(* its own fields.                                                          *)

Active(st) == st.state \notin TERMINAL_STATES \cup {"none"}

\* _flight_is_live: one of the registered pairs is that of a running process.
Live(st) == st.orch \in Orchestrator \/ st.sup = "sup"
Busy(st) == Active(st) /\ Live(st)

\* A terminal record: the state, and nobody owns the flight any more.
Ended(state) == [NoStatus EXCEPT !.state = state]

\* The process p is gone: its pair no longer names a running process.
Gone(st, p) == [st EXCEPT !.orch = IF @ = p THEN "dead" ELSE @,
                          !.sup = IF @ = p THEN "dead" ELSE @]

-----------------------------------------------------------------------------
(* The backup of the brain's configuration.                                 *)

\* create_backup: the generation holds what the declared files are now; a
\* backend without declared paths gets a manifest that names no file.
BackedUp == IF declared THEN config ELSE "empty"
Declares(manifest) == manifest # "empty"    \* manifest_declared

\* restore_backup: the old files are removed first, then copied back; with no
\* file named, nothing is touched.
RemoveConfig(manifest) == config' = IF Declares(manifest) THEN "gone" ELSE config
CopyBack(manifest) == config' = IF Declares(manifest) THEN manifest ELSE config

\* The backend is restarted and watched: it comes back as an enabled backend
\* only with an enabled configuration, and may not come back in time.
Restarted(healthy) ==
    /\ reachable' \in BOOLEAN
    /\ reachable' => config = "new" /\ healthy

Fault == bounds.faults < MaxFaults /\ bounds' = [bounds EXCEPT !.faults = @ + 1]

InitFiles ==
    /\ status = NoStatus /\ resume = NoResume
    /\ config = "old" /\ reachable = FALSE /\ artifact = "none"
    /\ kind \in {"local", "inline", "supervised"} /\ declared \in BOOLEAN
    /\ gap = "no" /\ lost = FALSE /\ bounds = [runs |-> 0, faults |-> 0]
=============================================================================
