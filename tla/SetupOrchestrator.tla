------------------------- MODULE SetupOrchestrator -------------------------
(***************************************************************************)
(* setup_orchestrator.py: one setup command, typed at a terminal or        *)
(* resumed by the supervisor ("child").  A command typed by hand reads the *)
(* resume state, passes preflight and the operator's confirmation, and     *)
(* only then claims the status file; the child claims first.               *)
(***************************************************************************)
EXTENDS SetupSupervisor

At(m, l) == run[m].at = l
Goto(m, l) == run' = [run EXCEPT ![m].at = l]
Mem(m) == run[m].mem
Exit(m, c) ==
    run' = [run EXCEPT ![m] = [NotRunning EXCEPT !.code = IF m = "child" THEN c ELSE @]]
Remember(m, l, mem) == run' = [run EXCEPT ![m].at = l, ![m].mem = mem]

\* _write_state: the copy in memory replaces the file.
Write(m, l, mem) == Remember(m, l, mem) /\ resume' = mem

PhaseAgain(mem) == IF mem.phase = 0 THEN "backend" ELSE IF mem.phase = 1 THEN "install" ELSE "finish"
PhaseOf(mem) == CASE mem.phase = 0 -> "backend"
                  [] mem.phase = 1 -> "install"
                  [] mem.phase = 2 -> "finish"
                  [] mem.phase = 3 -> "unlink"

Outside == UNCHANGED <<artifact, kind, declared, sup, bounds>>
OnlyRun == UNCHANGED <<files, sup, bounds, ghosts>>

\* _artifact_is_ours: by the hash in the resume state, or the token digest.
Ours(mem) == mem.own # "no"
Collides(mem) == artifact # "none" /\ ~Ours(mem)

Running(st) == [st EXCEPT !.state = "running"]

-----------------------------------------------------------------------------
(* Single flight: _single_flight_active, _claim_orchestrator_owner.         *)

\* A live flight is followed; a registration under way is first waited for.
Begin(m) ==
    /\ m \in Terminal /\ At(m, "off") /\ bounds.runs < MaxRuns
    /\ bounds' = [bounds EXCEPT !.runs = @ + 1]
    /\ Goto(m, IF Busy(status) THEN "follow" ELSE "read")
    /\ UNCHANGED <<files, sup, ghosts>>

\* _read_state and preflight.
ReadState(m) ==
    /\ At(m, "read")
    /\ \/ ~Collides(resume) /\ Remember(m, "confirm", resume)
       \/ Goto(m, "failing")
    /\ OnlyRun

\* The plan is confirmed; without a resume state a fresh one is written,
\* whatever another setup wrote since it was read.
Confirm(m) ==
    /\ At(m, "confirm")
    /\ LET mem  == IF Mem(m).has THEN Mem(m) ELSE FreshResume
           stale == IF Mem(m).has THEN m = "child" /\ Mem(m) # resume
                                  ELSE resume.has \/ artifact # "none"
       IN /\ IF Mem(m).has THEN UNCHANGED resume ELSE resume' = mem
          /\ lost' = (lost \/ stale)
          /\ IF m = "child"
             THEN Remember(m, PhaseOf(mem), mem) /\ status' = Running(status)
             ELSE Remember(m, "claim", mem) /\ UNCHANGED status
    /\ UNCHANGED <<config, reachable, gap>> /\ Outside

\* The claim compares the status with the one read before, so it is granted
\* on a status that shows no live flight at that moment.
ClaimUnseen(m) == TRUE
MayClaim(m) == ~Busy(status)
Claim(m) ==
    /\ m \in Terminal /\ At(m, "claim")
    /\ IF MayClaim(m)
       THEN /\ status' = [status EXCEPT !.state = "running", !.orch = m]
            /\ Goto(m, PhaseOf(Mem(m)))
            /\ lost' = (lost \/ Mem(m) # resume)
            /\ gap' = IF gap = "hidden" THEN "used" ELSE gap
       ELSE Goto(m, "follow") /\ UNCHANGED <<status, ghosts>>
    /\ UNCHANGED <<resume, config, reachable>> /\ Outside

\* The resumed child keeps the supervisor's pair and adds its own, yields to
\* another live orchestrator, and goes on unregistered without a flight.
Yields == status.orch \in Terminal
ClaimResumed ==
    /\ At("child", "claim")
    /\ \/ /\ Active(status) /\ ~Yields
          /\ status' = [status EXCEPT !.orch = "child"]
          /\ Goto("child", "read")
       \/ /\ Active(status) /\ Yields
          /\ Goto("child", "follow") /\ UNCHANGED status
       \/ /\ ~Active(status)
          /\ Goto("child", "read") \/ Goto("child", "follow")
          /\ UNCHANGED status
    /\ gap' = IF gap = "no" /\ ~Active(status) THEN "hidden" ELSE gap
    /\ UNCHANGED <<resume, config, reachable, lost>> /\ Outside

-----------------------------------------------------------------------------
(* _status(True): following another setup's status.                         *)

\* The owners named are gone (three polls in a row).
Orphaned == Active(status) /\ ~Live(status) /\ "dead" \in {status.orch, status.sup}

Leave(m, c) ==
    /\ Exit(m, c)
    /\ status' = [status EXCEPT !.orch = IF @ = m THEN "none" ELSE @]
    /\ UNCHANGED <<resume, config, reachable, ghosts>> /\ Outside

FollowEnds(m) ==
    /\ At(m, "follow")
    /\ \/ status.state \in TERMINAL_STATES \cup {"waiting-qr"} /\ Leave(m, "ok")
       \/ Orphaned /\ Leave(m, "err")
FollowTimesOut(m) == At(m, "follow") /\ Goto(m, "failing") /\ OnlyRun

-----------------------------------------------------------------------------
(* _backend: enable the brain's HTTP service and verify it.                 *)

Interrupted(mem) == mem.manifest # "none" /\ ~mem.done
Cleared(mem) == [mem EXCEPT !.manifest = "none", !.done = FALSE]

\* An enable attempt that was cut short is undone before anything else.
RecoverFirst(m) == Interrupted(Mem(m))
Recover(m) == At(m, "backend") /\ RecoverFirst(m) /\ Goto(m, "remove") /\ OnlyRun

\* The backend answers: the rollback point is no longer needed.
ClearRestart(m, l) ==
    /\ Write(m, l, Cleared(Mem(m)))
    /\ lost' = (lost \/ (declared /\ config \notin {"old", "new"}))
    /\ UNCHANGED <<status, config, reachable, gap>> /\ Outside
BackendUp(m) ==
    /\ (At(m, "backend") /\ ~RecoverFirst(m)) \/ At(m, "probe")
    /\ reachable /\ ClearRestart(m, "mark")

BackendDown(m) == At(m, "backend") /\ ~RecoverFirst(m) /\ ~reachable

ResumedButDown == BackendDown("child") /\ Goto("child", "failing") /\ OnlyRun

\* Already enabled by an earlier attempt: its rollback point is kept.
KeepsPoint(mem) == mem.done /\ mem.manifest # "none"
Reuse(m) ==
    /\ m \in Terminal /\ BackendDown(m) /\ KeepsPoint(Mem(m))
    /\ Goto(m, "choose") /\ OnlyRun

BackUpUnsaved(m) ==
    /\ m \in Terminal /\ BackendDown(m) /\ ~KeepsPoint(Mem(m))
    /\ Remember(m, "enable", [Mem(m) EXCEPT !.manifest = BackedUp])
    /\ UNCHANGED <<status, resume, config, reachable, ghosts>> /\ Outside
BackUp(m) ==
    /\ m \in Terminal /\ BackendDown(m) /\ ~KeepsPoint(Mem(m))
    /\ Write(m, "enable", [Mem(m) EXCEPT !.manifest = BackedUp])
    /\ UNCHANGED <<status, config, reachable, ghosts>> /\ Outside
\* No enable command is set, or the backup cannot be written.
BackUpFails(m) ==
    /\ m \in Terminal /\ BackendDown(m) /\ ~KeepsPoint(Mem(m))
    /\ Goto(m, "failing") /\ OnlyRun

\* CATY_BACKEND_ENABLE_CMD writes the configuration, and may fail half-way.
EnableStarts(m) ==
    /\ At(m, "enable") /\ config' = "partial" /\ Goto(m, "enabling")
    /\ UNCHANGED <<status, resume, reachable, ghosts>> /\ Outside
EnableEnds(m) ==
    /\ At(m, "enabling")
    /\ \/ config' = "new" /\ reachable' \in {reachable, TRUE} /\ Goto(m, "enabled")
       \/ UNCHANGED <<config, reachable>> /\ Goto(m, "remove")
    /\ UNCHANGED <<status, resume, ghosts>> /\ Outside
EnableRecorded(m) ==
    /\ At(m, "enabled") /\ Write(m, "probe", [Mem(m) EXCEPT !.done = TRUE])
    /\ UNCHANGED <<status, config, reachable, ghosts>> /\ Outside

\* Still no answer: a backend that can be restarted is, any other is undone;
\* so is one whose restart target cannot be found.
StillDown(m) == At(m, "probe") /\ ~reachable /\ Goto(m, "choose") /\ OnlyRun
Choose(m) ==
    /\ At(m, "choose")
    /\ \/ Goto(m, "remove")
       \/ kind = "inline" /\ Goto(m, "restart")
       \/ kind = "supervised" /\ Goto(m, "handoff")
    /\ OnlyRun

RestartsAgain(m) ==
    /\ At(m, "restart") /\ Restarted(TRUE)
    /\ Goto(m, IF reachable' THEN "probe" ELSE "choose")
    /\ UNCHANGED <<status, resume, config, ghosts>> /\ Outside
InlineRestart(m) ==
    /\ At(m, "restart") /\ Restarted(TRUE)
    /\ Goto(m, IF reachable' THEN "probe" ELSE "remove")
    /\ UNCHANGED <<status, resume, config, ghosts>> /\ Outside

-----------------------------------------------------------------------------
(* _supervised_handoff.                                                     *)

Handoff(m) ==
    /\ At(m, "handoff") /\ Write(m, "spawn", [Mem(m) EXCEPT !.done = TRUE])
    /\ status' = [status EXCEPT !.state = "handoff"]
    /\ UNCHANGED <<config, reachable, ghosts>> /\ Outside
\* By then the child of an earlier supervisor has registered (it takes a
\* second; _handoff_grace allows five, and enabling came in between).
Spawn(m) ==
    /\ At(m, "spawn") /\ ~At("child", "claim")
    /\ \/ /\ SupAt("off") /\ Goto(m, "handed")
          /\ sup' = [Off EXCEPT !.at = "starting", !.manifest = Mem(m).manifest]
       \/ Goto(m, "remove") /\ UNCHANGED sup
    /\ UNCHANGED <<files, bounds, ghosts>>

\* _wait_supervisor_ready.
Confirmed == /\ status.state \in {"ready", "waiting-backend", "resuming",
                                  "waiting-qr", "succeeded"}
             /\ status.sup = "sup" \/ status.state = "succeeded"
HandedOver(m) == At(m, "handed") /\ Confirmed /\ Leave(m, "ok")

\* Not confirmed in time: the supervisor is stopped, the change taken back.
StopsSupervisor == TRUE
HandoffTimesOut(m) ==
    /\ At(m, "handed") /\ ~Confirmed
    /\ IF SupAt("off") \/ ~StopsSupervisor
       THEN Goto(m, "remove") /\ UNCHANGED <<status, sup, gap>>
       ELSE /\ Conclude("interrupted")
            /\ run' = [run EXCEPT !["child"] = NotRunning, ![m].at = "remove"]
    /\ UNCHANGED <<resume, config, reachable, artifact, kind, declared, bounds, lost>>

-----------------------------------------------------------------------------
(* _restore_enable_change; the command then fails.                          *)

Removes(m) ==
    /\ At(m, "remove") /\ RemoveConfig(Mem(m).manifest) /\ Goto(m, "copy")
    /\ UNCHANGED <<status, resume, reachable, ghosts>> /\ Outside
Copies(m) ==
    /\ At(m, "copy") /\ CopyBack(Mem(m).manifest) /\ Goto(m, "clear")
    /\ UNCHANGED <<status, resume, reachable, ghosts>> /\ Outside
\* Once the enable change is recorded as done, _backend tries a restore that
\* failed a second time.
RestoreFails(m) ==
    /\ run[m].at \in {"remove", "copy"} /\ Fault
    /\ \/ Goto(m, "failing")
       \/ Mem(m).done /\ kind # "local" /\ Goto(m, "remove")
    /\ UNCHANGED <<files, sup, ghosts>>
ClearsAfter(m) == At(m, "clear") /\ ClearRestart(m, "failing")
-----------------------------------------------------------------------------
(* _install: the ownership proof is persisted before the service files are  *)
(* written, so a kill in between leaves files a rerun can adopt.            *)

Adopt(m) ==
    /\ At(m, "install") /\ artifact # "none"
    /\ IF Ours(Mem(m)) THEN Write(m, "mark", [Mem(m) EXCEPT !.own = "owned"])
                       ELSE Goto(m, "failing") /\ UNCHANGED resume
    /\ UNCHANGED <<status, config, reachable, ghosts>> /\ Outside
ProofFirst == "digest"
PersistDigest(m) ==
    /\ At(m, "install") /\ artifact = "none"
    /\ Write(m, "render", [Mem(m) EXCEPT !.own = ProofFirst])
    /\ UNCHANGED <<status, config, reachable, ghosts>> /\ Outside
Render(m) ==
    /\ At(m, "render")
    /\ \/ artifact' = "written" /\ Goto(m, "own")
       \/ Goto(m, "failing") /\ UNCHANGED artifact
    /\ UNCHANGED <<status, resume, config, reachable, kind, declared, sup, bounds, ghosts>>
Own(m) ==
    /\ At(m, "own") /\ Write(m, "mark", [Mem(m) EXCEPT !.own = "owned"])
    /\ UNCHANGED <<status, config, reachable, ghosts>> /\ Outside

-----------------------------------------------------------------------------
(* The other phases (start, linger, health, identity, voice, qr) run        *)
(* commands and probes that succeed or fail; then setup is over.            *)

Finish(m) ==
    /\ At(m, "finish") /\ OnlyRun
    /\ Goto(m, "mark") \/ Goto(m, "failing")

\* _run_supervised_qr publishes the QR's address for whoever follows.
ShowQr ==
    /\ At("child", "finish") /\ status.state # "waiting-qr"
    /\ status' = [status EXCEPT !.state = "waiting-qr"]
    /\ UNCHANGED <<resume, config, reachable, run, ghosts>> /\ Outside

Mark(m) ==
    /\ At(m, "mark")
    /\ LET mem == [Mem(m) EXCEPT !.phase = @ + 1]
       IN Write(m, PhaseOf(mem), mem)
    /\ status' = Running(status)
    /\ UNCHANGED <<config, reachable, ghosts>> /\ Outside
Unlink(m) ==
    /\ At(m, "unlink") /\ resume' = NoResume /\ Goto(m, "done")
    /\ UNCHANGED <<status, config, reachable, ghosts>> /\ Outside

Unlisted(m) == \/ m # "child" /\ run["child"].at # "off"
               \/ \E n \in Terminal : run[n].at \in {"handed", "remove", "copy", "clear"}

\* A terminal record written while the supervisor still runs hides it.
Stamp(m, state) ==
    /\ status' = Ended(state)
    /\ gap' = CASE gap = "used" -> gap
                [] gap # "used" /\ ~SupAt("off") -> "hidden"
                [] gap # "used" /\ SupAt("off") -> IF Unlisted(m) THEN gap ELSE "no"
    /\ UNCHANGED <<resume, config, reachable, lost>> /\ Outside
Succeed(m) == At(m, "done") /\ Exit(m, "ok") /\ Stamp(m, "succeeded")

-----------------------------------------------------------------------------
(* main: a command that fails or is interrupted records it, unless another  *)
(* orchestrator is registered.                                              *)

MayStamp(m) == status.orch \in {m, "none"}
RecordTerminal(m) ==
    /\ run[m].at \in {"failing", "stopping"} /\ Exit(m, "err")
    /\ IF MayStamp(m)
       THEN Stamp(m, IF At(m, "failing") THEN "failed" ELSE "interrupted")
       ELSE UNCHANGED <<files, ghosts, sup, bounds>>

\* Ctrl-C or SIGTERM: no handler of _backend restores anything.
Interrupt(m) ==
    /\ run[m].at \notin {"off", "failing", "stopping"} /\ Fault
    /\ Goto(m, "stopping")
    /\ UNCHANGED <<files, sup, ghosts>>

\* SIGKILL, between any two steps.
Kill(m) ==
    /\ ~At(m, "off") /\ Fault /\ Exit(m, "err")
    /\ status' = Gone(status, m)
    /\ gap' = IF gap = "no" /\ SupAt("starting") THEN "hidden" ELSE gap
    /\ UNCHANGED <<resume, config, reachable, artifact, kind, declared, sup, lost>>

Works(m) ==
    \/ ReadState(m) \/ Confirm(m) \/ Claim(m) \/ FollowEnds(m) \/ FollowTimesOut(m)
    \/ Recover(m) \/ BackendUp(m) \/ Reuse(m) \/ BackUp(m) \/ BackUpFails(m)
    \/ EnableStarts(m) \/ EnableEnds(m) \/ EnableRecorded(m) \/ StillDown(m) \/ Choose(m)
    \/ InlineRestart(m) \/ Handoff(m) \/ Spawn(m) \/ HandedOver(m) \/ HandoffTimesOut(m)
    \/ Removes(m) \/ Copies(m) \/ ClearsAfter(m)
    \/ Adopt(m) \/ PersistDigest(m) \/ Render(m) \/ Own(m)
    \/ Finish(m) \/ Mark(m) \/ Unlink(m) \/ Succeed(m) \/ RecordTerminal(m)
ResumedWorks == ClaimResumed \/ ResumedButDown
Stops(m) == RestoreFails(m) \/ Interrupt(m) \/ Kill(m)
=============================================================================
