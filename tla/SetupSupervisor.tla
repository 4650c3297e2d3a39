-------------------------- MODULE SetupSupervisor --------------------------
(***************************************************************************)
(* setup_supervisor.py: the one-shot process that outlives the restart of  *)
(* the backend, resumes setup in a child, and rolls the brain's            *)
(* configuration back when that fails.  sup.then says what follows a       *)
(* restore: "stop" before the first restart, "restart" after it.           *)
(***************************************************************************)
EXTENDS SetupFiles

Off == [at |-> "off", manifest |-> "none", then |-> "stop"]
NotRunning == [at |-> "off", mem |-> NoResume, code |-> "ok"]  \* code: the child's

SupAt(l) == sup.at = l
SupGoto(l) == sup' = [sup EXCEPT !.at = l]
Unchanged4 == UNCHANGED <<resume, artifact, kind, declared>>

\* _status, while the supervisor lives: it registers itself with every state.
Publish(state) ==
    /\ status' = [status EXCEPT !.state = state, !.sup = "sup"]
    /\ gap' = IF gap = "hidden" THEN "no" ELSE gap

\* _status with a terminal state; the process then exits.  The record drops
\* the pair of a parent that still waits, and may yet restore the backup.
ParentWaits == \E m \in Terminal : run[m].at = "handed"
Conclude(state) ==
    /\ status' = Ended(state) /\ sup' = Off
    /\ gap' = IF gap = "no" /\ ParentWaits THEN "hidden" ELSE gap

StatusOnly == Unchanged4 /\ UNCHANGED <<config, reachable, run, bounds, lost>>

SupRegisters == SupAt("starting") /\ Publish("validating") /\ SupGoto("validating") /\ StatusOnly

\* Detached from the target, environment inherited, backup valid.
SupReady == SupAt("validating") /\ Publish("ready") /\ SupGoto("ready") /\ StatusOnly

\* It is not: what was enabled is taken back without a restart.
SupRefuses ==
    /\ SupAt("validating")
    /\ sup' = [sup EXCEPT !.at = "remove", !.then = "stop"]
    /\ UNCHANGED <<files, run, bounds, ghosts>>

\* The restart.  On Linux it also ends a parent still inside the target unit.
EndsParent(m) == run[m].at = "handed"
SupRestarts ==
    /\ SupAt("ready") /\ Restarted(TRUE) /\ SupGoto("waiting")
    /\ \/ Publish("waiting-backend") /\ UNCHANGED run
       \/ \E m \in Terminal :
             /\ EndsParent(m)
             /\ run' = [run EXCEPT ![m] = NotRunning]
             /\ status' = [Gone(status, m) EXCEPT !.state = "waiting-backend",
                                                  !.sup = "sup"]
             /\ UNCHANGED gap
    /\ Unchanged4 /\ UNCHANGED <<config, bounds, lost>>

\* Any HTTP answer of the backend counts as healthy.
SupHealthy == SupAt("waiting") /\ Publish("resuming") /\ SupGoto("resuming") /\ StatusOnly

\* _resume: the child is started, then waited for.
SupResumes ==
    /\ SupAt("resuming") /\ run["child"].at = "off"
    /\ run' = [run EXCEPT !["child"] = [NotRunning EXCEPT !.at = "claim"]]
    /\ SupGoto("watching")
    /\ UNCHANGED <<files, bounds, ghosts>>

SucceedsAnyway ==
    /\ SupAt("watching") /\ run["child"].at = "off"
    /\ Conclude("succeeded") /\ StatusOnly
SupSucceeds ==
    /\ SupAt("watching") /\ run["child"].at = "off" /\ run["child"].code = "ok"
    /\ Conclude("succeeded") /\ StatusOnly

\* _resume_state_cleared_restart: the child verified the backend and failed
\* in a later phase, so the enable change is kept.
EnableKept == resume.has /\ ~resume.done /\ resume.manifest = "none"
SupKeepsEnable ==
    /\ SupAt("watching") /\ run["child"].at = "off" /\ run["child"].code # "ok"
    /\ EnableKept /\ Conclude("failed") /\ StatusOnly

-----------------------------------------------------------------------------
(* _rollback.                                                               *)

\* What is undone may already be recorded as done for good.
Parted == lost' = (lost \/ resume.manifest = "none")

\* Without declared files there is nothing to roll back: the backend is only
\* restarted, and setup fails.
RollbackState == IF Declares(sup.manifest) THEN "rolling-back" ELSE "recovering"
RollbackEnd == IF Declares(sup.manifest) THEN "rolled-back" ELSE "failed"

Roll == /\ Publish(RollbackState) /\ Parted
        /\ sup' = [sup EXCEPT !.at = "remove", !.then = "restart"]

ChildFailed == SupAt("watching") /\ run["child"].at = "off" /\ run["child"].code # "ok"
SupRollsBack ==
    /\ \/ SupAt("ready")       \* the restart command failed
       \/ SupAt("waiting")     \* no answer within the timeout
       \/ SupAt("resuming")    \* the child could not be started
       \/ ChildFailed /\ ~EnableKept
    /\ Roll /\ Unchanged4 /\ UNCHANGED <<config, reachable, run, bounds>>

\* The child outlived the resume timeout: rolled back whatever it recorded,
\* so a backend phase already marked complete is not run again.
SupGivesUp ==
    /\ SupAt("watching") /\ run["child"].at # "off" /\ Fault
    /\ status' = [Gone(status, "child") EXCEPT !.state = RollbackState, !.sup = "sup"]
    /\ run' = [run EXCEPT !["child"] = NotRunning]
    /\ gap' = IF gap = "hidden" THEN "no" ELSE gap
    /\ sup' = [sup EXCEPT !.at = "remove", !.then = "restart"]
    /\ Parted
    /\ Unchanged4 /\ UNCHANGED <<config, reachable>>

SupRemoves ==
    /\ SupAt("remove") /\ RemoveConfig(sup.manifest) /\ SupGoto("copy")
    /\ Unchanged4 /\ UNCHANGED <<status, reachable, run, bounds, ghosts>>
SupCopies ==
    /\ SupAt("copy") /\ CopyBack(sup.manifest) /\ SupGoto("restored")
    /\ Unchanged4 /\ UNCHANGED <<status, reachable, run, bounds, ghosts>>

SupAborted ==
    /\ SupAt("restored") /\ sup.then = "stop"
    /\ Conclude(RollbackEnd) /\ StatusOnly
SupRestartsOld ==
    /\ SupAt("restored") /\ sup.then = "restart" /\ Restarted(TRUE)
    /\ \E state \in {RollbackEnd, "double-failure"} : Conclude(state)
    /\ Unchanged4 /\ UNCHANGED <<config, run, bounds, lost>>

\* The backup is not valid (before the restart, too), or a file cannot be
\* restored.
SupRestoreFails ==
    /\ sup.at \in {"validating", "remove", "copy"} /\ Fault
    /\ Conclude("double-failure")
    /\ Unchanged4 /\ UNCHANGED <<config, reachable, run, lost>>

-----------------------------------------------------------------------------
(* _sigterm: the child is ended first, then the terminal state recorded.    *)

SupInterrupted ==
    /\ ~SupAt("off") /\ Fault /\ Conclude("interrupted")
    /\ run' = [run EXCEPT !["child"] = NotRunning]
    /\ Unchanged4 /\ UNCHANGED <<config, reachable, lost>>

\* SIGKILL: nothing is recorded, and the child goes on.
SupKilled ==
    /\ ~SupAt("off") /\ Fault
    /\ status' = Gone(status, "sup") /\ sup' = Off
    /\ Unchanged4 /\ UNCHANGED <<config, reachable, run, ghosts>>

SupWorks ==
    \/ SupRegisters \/ SupReady \/ SupRefuses \/ SupRestarts \/ SupHealthy
    \/ SupResumes \/ SupSucceeds \/ SupKeepsEnable \/ SupRollsBack
    \/ SupRemoves \/ SupCopies \/ SupAborted \/ SupRestartsOld
SupStops == SupGivesUp \/ SupRestoreFails \/ SupInterrupted \/ SupKilled
=============================================================================
