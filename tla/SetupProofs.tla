---------------------------- MODULE SetupProofs ----------------------------
(* Proofs about Setup, for any number of terminals, commands and faults: its *)
(* type correctness, and the invariants behind OneSetup (who works is alone, *)
(* because the status file names it), Recoverable (who has the files in hand *)
(* has them for itself, so they describe each other at every place of its    *)
(* program) and SuccessIsComplete (the supervisor believes only a child that *)
(* recorded its success).                                                    *)
EXTENDS Setup, FiniteSetTheorems, TLAPS

-----------------------------------------------------------------------------
(* Where the processes are, and what they hold there.                        *)

Manifest == {"none", "empty", "old", "partial", "new", "gone"}
BackendPlace == {"backend", "enable", "enabling", "enabled", "probe", "choose",
                 "restart", "handoff", "spawn", "handed", "remove", "copy", "clear"}
RestorePlace == {"enable", "enabling", "enabled", "probe", "choose", "restart", "handoff",
                  "spawn", "handed", "remove", "copy"}
InstallPlace == {"install", "render", "own"}
IdlePlace == {"off", "follow", "read", "confirm", "claim", "failing", "stopping"}
Place == IdlePlace \cup BackendPlace \cup InstallPlace
         \cup {"finish", "mark", "unlink", "done"}
SupPlace == {"off", "starting", "validating", "ready", "waiting", "resuming",
             "watching", "remove", "copy", "restored"}

\* The place of a process is that of the phase its resume state has reached.
PlaceFits(m) ==
    /\ run[m].at \in BackendPlace => Mem(m).phase = 0
    /\ run[m].at \in InstallPlace => Mem(m).phase = 1
    /\ At(m, "finish") => Mem(m).phase = 2
    /\ At(m, "mark") => Mem(m).phase \in 0 .. 2
    /\ run[m].at \in {"unlink", "done"} => Mem(m).phase = 3
    /\ run[m].at \in RestorePlace => Mem(m).manifest # "none"

StatusTyped ==
    /\ status \in [state : TERMINAL_STATES \cup
                           {"none", "running", "handoff", "validating", "ready",
                            "waiting-backend", "resuming", "waiting-qr",
                            "rolling-back", "recovering"},
                   orch : Orchestrator \cup {"none", "dead"},
                   sup : {"none", "sup", "dead"}]
FilesTyped ==
    /\ resume \in Resume /\ config \in {"old", "partial", "new", "gone"}
    /\ reachable \in BOOLEAN /\ artifact \in {"none", "written"}
    /\ kind \in {"local", "inline", "supervised"} /\ declared \in BOOLEAN
    /\ gap \in {"no", "hidden", "used"} /\ lost \in BOOLEAN
RunTyped == run \in [Orchestrator -> [at : Place, mem : Resume, code : {"ok", "err"}]]
SupTyped == sup \in [at : SupPlace, manifest : Manifest, then : {"stop", "restart"}]
\* The child passes the backend phase or undoes it: it never enables anything.
Placed == /\ \A m \in Orchestrator : PlaceFits(m)
          /\ ~SupAt("off") => sup.manifest # "none"
          /\ run["child"].at \in BackendPlace =>
                run["child"].at \in {"backend", "remove", "copy", "clear"}
Typed ==
    /\ StatusTyped /\ FilesTyped /\ RunTyped /\ SupTyped /\ Placed
    /\ bounds \in [runs : Nat, faults : Nat]

-----------------------------------------------------------------------------
(* The inductive invariants.                                                 *)

\* A terminal that works, or waits for the supervisor it started; the child
\* from its claim on; the process the status file names.
Engaged(t) == Claimed(t) \/ At(t, "handed")
Resumed == run["child"].at \in {"read", "confirm"} \/ Claimed("child")
Registered(m) == Active(status) /\ status.orch = m

\* Who works is alone, but for the supervisor that waits for its child and the
\* parent that waits for its supervisor.
Alone ==
    /\ \A t \in Terminal : Engaged(t) =>
          ~Resumed /\ \A u \in Terminal : Engaged(u) => u = t
    /\ \A t \in Terminal : Claimed(t) => SupAt("off")
    /\ Resumed \/ At("child", "claim") => sup.at \in {"off", "watching"}

\* Who works is named by the status file, unless it takes a hand-over back;
\* with nobody hidden, so are the supervisor and the child it resumed.
Listed ==
    /\ \A t \in Terminal :
          /\ Claimed(t) /\ run[t].at \notin {"remove", "copy", "clear"} => Registered(t)
          /\ At(t, "handed") /\ ~SupAt("off") => Registered(t)
          /\ Engaged(t) /\ (gap = "no" \/ At("child", "claim")) => Registered(t)
    /\ gap = "no" =>
          /\ sup.at \notin {"off", "starting"} => Active(status) /\ status.sup = "sup"
          /\ SupAt("starting") => \E m \in Terminal :
                 run[m].at \in {"handed", "stopping"} /\ Registered(m)
          /\ Resumed => Registered("child")

\* Nothing is promised once a command has claimed a status file that no longer
\* names a live process (gap is then "used").
Flight == gap # "used" =>
             Alone /\ Listed /\ (status.sup = "sup" => sup.at \notin {"off", "starting"})

\* A process at work holds what the resume state says, and the files are what
\* its place says they are.
InHand(m) == Claimed(m) \/ At(m, "handed")
Carried(m) ==
    /\ ~At(m, "done") => Mem(m) = resume /\ resume.has
    /\ run[m].at \in RestorePlace => Mem(m).manifest = Original
    /\ At(m, "clear") /\ declared => config = "old"
    /\ At(m, "render") => Mem(m).own # "no"
    /\ At(m, "own") => Mem(m).own # "no" /\ artifact = "written"
    /\ At(m, "mark") => /\ Mem(m).manifest = "none" /\ reachable
                        /\ Mem(m).phase \in {1, 2} => artifact = "written"
    /\ At(m, "done") => artifact = "written" /\ reachable /\ ~resume.has
Fit(m) == /\ InHand(m) => Carried(m)
          /\ m # "child" /\ At(m, "claim") => Mem(m).has
\* The files describe each other: the rollback point is the configuration that
\* was there first, it is gone only when the configuration is that one or one
\* that answers, and each phase recorded left behind what it is for.
FilesKept ==
    /\ resume.has \/ resume = NoResume
    /\ resume.manifest \in {"none", Original}
    /\ resume.manifest = "none" /\ declared =>
          config = "old" \/ (config = "new" /\ reachable)
    /\ resume.manifest # "none" => resume.phase = 0
    /\ resume.phase >= 1 => reachable
    /\ resume.phase >= 2 => artifact = "written"
    /\ artifact = "written" /\ resume.has => resume.own # "no"
\* A supervisor that may still roll back knows the point to go back to.
SupKept ==
    /\ sup.manifest \in {"none", Original} /\ (~SupAt("off") => sup.manifest = Original)
    /\ sup.at \notin {"off", "watching"} => resume.manifest = Original
Sane == FilesKept /\ SupKept /\ \A m \in Orchestrator : Fit(m)
Kept == ~lost /\ gap # "used" => Sane

\* A supervisor that has seen nobody hidden takes its child for successful only
\* when the child recorded that itself.
Complete == gap = "no" =>
    /\ SupAt("resuming") => status.state = "resuming"
    /\ SupAt("watching") =>
         /\ ~(At("child", "off") /\ run["child"].code = "ok")
         /\ run["child"].at \in {"claim", "follow"} => status.state # "waiting-qr"
    /\ status.state = "succeeded" /\ ~lost => artifact = "written" /\ reachable /\ ~resume.has

-----------------------------------------------------------------------------
(* Types.                                                                    *)

RunRecord == [at : Place, mem : Resume, code : {"ok", "err"}]

LEMMA RecordsTyped ==
    /\ NoResume \in Resume /\ FreshResume \in Resume /\ NotRunning \in RunRecord
    /\ \A mem \in Resume :
          /\ Cleared(mem) \in Resume
          /\ [mem EXCEPT !.done = TRUE] \in Resume
          /\ \A o \in {"no", "digest", "owned"} : [mem EXCEPT !.own = o] \in Resume
          /\ \A c \in {"none", "empty", "old", "partial", "new", "gone"} :
                [mem EXCEPT !.manifest = c] \in Resume
          /\ mem.phase \in 0 .. 2 => [mem EXCEPT !.phase = @ + 1] \in Resume
          /\ PhaseOf(mem) \in Place
<1>1. NoResume \in Resume /\ FreshResume \in Resume
  <2>1. NoResume \in Resume
    BY DEF NoResume, Resume
  <2>2. \A mem \in Resume : [mem EXCEPT !.has = TRUE] \in Resume
    BY DEF Resume
  <2> QED BY <2>1, <2>2 DEF FreshResume
<1>2. NotRunning \in RunRecord
  BY <1>1 DEF NotRunning, RunRecord, Place, IdlePlace
<1>3. ASSUME NEW mem \in Resume PROVE PhaseOf(mem) \in Place
  <2>1. mem.phase \in {0, 1, 2, 3}
    BY DEF Resume
  <2>2. CASE mem.phase = 0
    BY <2>2 DEF PhaseOf, Place, BackendPlace
  <2>3. CASE mem.phase = 1
    BY <2>3 DEF PhaseOf, Place, InstallPlace
  <2>4. CASE mem.phase = 2
    BY <2>4 DEF PhaseOf, Place
  <2>5. CASE mem.phase = 3
    BY <2>5 DEF PhaseOf, Place
  <2> QED BY <2>1, <2>2, <2>3, <2>4, <2>5
<1>4. ASSUME NEW mem \in Resume
      PROVE  /\ Cleared(mem) \in Resume
             /\ [mem EXCEPT !.done = TRUE] \in Resume
  BY DEF Resume, Cleared
<1>5. ASSUME NEW mem \in Resume
      PROVE  /\ \A o \in {"no", "digest", "owned"} : [mem EXCEPT !.own = o] \in Resume
             /\ \A c \in {"none", "empty", "old", "partial", "new", "gone"} :
                   [mem EXCEPT !.manifest = c] \in Resume
  BY DEF Resume
<1>6. ASSUME NEW mem \in Resume, mem.phase \in 0 .. 2
      PROVE  [mem EXCEPT !.phase = @ + 1] \in Resume
  BY <1>6 DEF Resume
<1> QED BY <1>1, <1>2, <1>3, <1>4, <1>5, <1>6

LEMMA Puts ==
    ASSUME RunTyped, NEW m \in Orchestrator, NEW r \in RunRecord,
           run' = [run EXCEPT ![m] = r]
    PROVE  RunTyped'
BY DEF RunTyped, RunRecord

LEMMA Moves ==
    ASSUME RunTyped, NEW m \in Orchestrator, NEW l \in Place, Goto(m, l)
    PROVE  RunTyped'
BY DEF RunTyped, Goto

LEMMA Remembers ==
    ASSUME RunTyped, NEW m \in Orchestrator, NEW l \in Place, NEW mem \in Resume,
           Remember(m, l, mem)
    PROVE  RunTyped'
BY DEF RunTyped, Remember

LEMMA Exits ==
    ASSUME RunTyped, NEW m \in Orchestrator, NEW c \in {"ok", "err"}, Exit(m, c)
    PROVE  RunTyped' /\ At(m, "off")'
<1>1. run[m] \in RunRecord
  BY DEF RunTyped, RunRecord
<1>2. \A d \in {"ok", "err"} : [NotRunning EXCEPT !.code = d] \in RunRecord
  BY RecordsTyped DEF RunRecord
<1> DEFINE d == IF m = "child" THEN c ELSE NotRunning.code
<1>3. d \in {"ok", "err"}
  BY DEF NotRunning
<1>4. run' = [run EXCEPT ![m] = [NotRunning EXCEPT !.code = d]]
  BY DEF Exit
<1> HIDE DEF d
<1>5. RunTyped'
  BY <1>2, <1>3, <1>4, Puts
<1> QED BY <1>1, <1>4, <1>5 DEF RunTyped, At, NotRunning

LEMMA MemTyped ==
    ASSUME Typed, NEW m \in Orchestrator PROVE Mem(m) \in Resume
BY DEF Typed, RunTyped, Mem

LEMMA OneEnds ==
    ASSUME RunTyped,
           run' = run \/ \E t \in Orchestrator : run' = [run EXCEPT ![t] = NotRunning]
    PROVE  \A n \in Orchestrator : run'[n] = run[n] \/ run'[n].at = "off"
<1> SUFFICES ASSUME NEW n \in Orchestrator PROVE run'[n] = run[n] \/ run'[n].at = "off"
  OBVIOUS
<1>1. NotRunning.at = "off"
  BY DEF NotRunning
<1>2. CASE \E t \in Orchestrator : run' = [run EXCEPT ![t] = NotRunning]
  BY <1>1, <1>2 DEF RunTyped
<1> QED BY <1>2

LEMMA TypedStep == Typed /\ [Next]_vars => Typed'
<1> SUFFICES ASSUME Typed, [Next]_vars PROVE Typed'
  OBVIOUS
<1> USE SetupConstants DEF At, Goto, Mem, Remember, Write, Exit, SupAt, SupGoto, Publish,
    Conclude, StatusOnly, Unchanged4, Outside, OnlyRun, Fault, Stamp, Running, Leave,
    ClearRestart, Roll, Parted, vars, files, ghosts, Ended, Gone, NoStatus, Restarted,
    RemoveConfig, CopyBack, NotRunning, NoResume, Off, BackUp, Begin, RollbackState,
    RollbackEnd
<1>1. CASE UNCHANGED vars
  BY <1>1 DEF Typed, StatusTyped, FilesTyped, RunTyped, SupTyped, Placed, PlaceFits
<1>2. ASSUME NEW m \in Terminal, Begin(m) PROVE Typed'
  <2>1. StatusTyped'
    BY <1>2 DEF Typed, StatusTyped, TERMINAL_STATES, Orchestrator
  <2>2. FilesTyped'
    BY <1>2 DEF Typed, FilesTyped, Orchestrator, Resume, RunTyped, SupTyped
  <2>3. RunTyped'
    BY <1>2 DEF Typed, RunTyped, FilesTyped, Resume, Place, BackendPlace, InstallPlace,
           IdlePlace, Orchestrator
  <2>4. SupTyped'
    BY <1>2 DEF Typed, SupTyped, SupPlace, Manifest, RunTyped, Orchestrator
  <2>5. Placed'
    BY <1>2 DEF Typed, Placed, PlaceFits, RestorePlace, SupTyped, RunTyped, FilesTyped,
           BackendPlace, InstallPlace, Orchestrator
  <2> QED BY <1>2, <2>1, <2>2, <2>3, <2>4, <2>5 DEF Typed
<1>3. ASSUME NEW m \in Orchestrator, ReadState(m) PROVE Typed'
  <2>1. StatusTyped'
    BY <1>3 DEF Typed, ReadState, StatusTyped, TERMINAL_STATES, Orchestrator
  <2>2. FilesTyped'
    BY <1>3 DEF Typed, ReadState, FilesTyped, Resume, RunTyped, SupTyped
  <2>3. RunTyped'
    BY <1>3, Moves, Remembers DEF Typed, FilesTyped, ReadState, Place, IdlePlace
  <2>4. SupTyped'
    BY <1>3 DEF Typed, ReadState, SupTyped, SupPlace, Manifest, RunTyped
  <2>5. Placed'
    BY <1>3 DEF Typed, ReadState, Placed, PlaceFits, RestorePlace, SupTyped, RunTyped,
           FilesTyped, BackendPlace, InstallPlace, Orchestrator
  <2> QED BY <1>3, <2>1, <2>2, <2>3, <2>4, <2>5 DEF Typed, ReadState
<1>4. ASSUME NEW m \in Orchestrator, Confirm(m) PROVE Typed'
  <2>1. StatusTyped'
    BY <1>4 DEF Typed, Confirm, StatusTyped, TERMINAL_STATES, Orchestrator
  <2>2. FilesTyped'
    BY <1>4 DEF Typed, Confirm, FilesTyped, Resume, FreshResume, NoResume, RunTyped,
           SupTyped
  <2>3. RunTyped'
    BY <1>4 DEF Typed, Confirm, RunTyped, FilesTyped, Resume, FreshResume, NoResume,
           PhaseOf, Place, BackendPlace, InstallPlace, IdlePlace, Orchestrator
  <2>4. SupTyped'
    BY <1>4 DEF Typed, Confirm, SupTyped, SupPlace, Manifest, RunTyped
  <2>5. Placed'
    BY <1>4 DEF Typed, Confirm, Placed, PlaceFits, RestorePlace, SupTyped, RunTyped,
           FilesTyped, BackendPlace, InstallPlace, Place, IdlePlace, Resume, PhaseOf,
           Cleared, FreshResume, BackedUp, ProofFirst, Orchestrator, BackendDown,
           RecoverFirst
  <2> QED BY <1>4, <2>1, <2>2, <2>3, <2>4, <2>5 DEF Typed, Confirm
<1>5. ASSUME NEW m \in Orchestrator, Claim(m) PROVE Typed'
  <2>1. StatusTyped'
    BY <1>5 DEF Typed, Claim, StatusTyped, TERMINAL_STATES, Orchestrator
  <2>2. FilesTyped'
    <3>1. lost' \in BOOLEAN
      BY <1>5 DEF Typed, FilesTyped, Claim
    <3>2. gap' \in {"no", "hidden", "used"}
      BY <1>5 DEF Typed, FilesTyped, Claim
    <3> QED BY <1>5, <3>1, <3>2 DEF Typed, FilesTyped, Claim
  <2>3. RunTyped'
    BY <1>5 DEF Typed, Claim, RunTyped, FilesTyped, Resume, PhaseOf, Place,
           BackendPlace, InstallPlace, IdlePlace, Orchestrator
  <2>4. SupTyped'
    BY <1>5 DEF Typed, Claim, SupTyped, SupPlace, Manifest, RunTyped, Orchestrator
  <2>5. Placed'
    BY <1>5 DEF Typed, Claim, Placed, PlaceFits, RestorePlace, SupTyped, RunTyped,
           FilesTyped, BackendPlace, InstallPlace, Place, IdlePlace, Resume, PhaseOf,
           Cleared, FreshResume, BackedUp, ProofFirst, Orchestrator, BackendDown,
           RecoverFirst
  <2> QED BY <1>5, <2>1, <2>2, <2>3, <2>4, <2>5 DEF Typed, Claim
<1>6. ASSUME NEW m \in Orchestrator, FollowEnds(m) PROVE Typed'
  <2>1. StatusTyped'
    BY <1>6 DEF Typed, FollowEnds, StatusTyped, TERMINAL_STATES, Orchestrator
  <2>2. FilesTyped'
    BY <1>6 DEF Typed, FollowEnds, FilesTyped, Orchestrator, Resume, NoResume, RunTyped,
           SupTyped
  <2>3. RunTyped'
    BY <1>6, Exits DEF Typed, FollowEnds
  <2>4. SupTyped'
    BY <1>6 DEF Typed, FollowEnds, SupTyped, SupPlace, Manifest, RunTyped, Orchestrator
  <2>5. Placed'
    BY <1>6 DEF Typed, FollowEnds, Placed, PlaceFits, RestorePlace, SupTyped, RunTyped,
           FilesTyped, BackendPlace, InstallPlace, Orchestrator
  <2> QED BY <1>6, <2>1, <2>2, <2>3, <2>4, <2>5 DEF Typed, FollowEnds
<1>7. ASSUME NEW m \in Orchestrator, FollowTimesOut(m) PROVE Typed'
  <2>1. StatusTyped'
    BY <1>7 DEF Typed, FollowTimesOut, StatusTyped, TERMINAL_STATES, Orchestrator
  <2>2. FilesTyped'
    BY <1>7 DEF Typed, FollowTimesOut, FilesTyped, Resume, RunTyped, SupTyped
  <2>3. RunTyped'
    BY <1>7 DEF Typed, FollowTimesOut, RunTyped, FilesTyped, Resume, Place,
           BackendPlace, InstallPlace, IdlePlace, Orchestrator
  <2>4. SupTyped'
    BY <1>7 DEF Typed, FollowTimesOut, SupTyped, SupPlace, Manifest, RunTyped
  <2>5. Placed'
    BY <1>7 DEF Typed, FollowTimesOut, Placed, PlaceFits, RestorePlace, SupTyped,
           RunTyped, FilesTyped, BackendPlace, InstallPlace, Orchestrator
  <2> QED BY <1>7, <2>1, <2>2, <2>3, <2>4, <2>5 DEF Typed, FollowTimesOut
<1>8. ASSUME NEW m \in Orchestrator, Recover(m) PROVE Typed'
  <2>1. StatusTyped'
    BY <1>8 DEF Typed, Recover, StatusTyped, TERMINAL_STATES, Orchestrator
  <2>2. FilesTyped'
    BY <1>8 DEF Typed, Recover, FilesTyped, Resume, RunTyped, SupTyped
  <2>3. RunTyped'
    BY <1>8 DEF Typed, Recover, RunTyped, FilesTyped, Resume, Place, BackendPlace,
           InstallPlace, IdlePlace, Orchestrator
  <2>4. SupTyped'
    BY <1>8 DEF Typed, Recover, SupTyped, SupPlace, Manifest, RunTyped
  <2>5. Placed'
    BY <1>8 DEF Typed, Recover, RecoverFirst, Interrupted, Placed, PlaceFits,
           RestorePlace, RunTyped, BackendPlace, InstallPlace, Orchestrator
  <2> QED BY <1>8, <2>1, <2>2, <2>3, <2>4, <2>5 DEF Typed, Recover
<1>9. ASSUME NEW m \in Orchestrator, BackendUp(m) PROVE Typed'
  <2>1. StatusTyped'
    BY <1>9 DEF Typed, BackendUp, StatusTyped, TERMINAL_STATES, Orchestrator
  <2>2. FilesTyped'
    BY <1>9 DEF Typed, BackendUp, FilesTyped, Resume, Cleared, RunTyped, SupTyped
  <2>3. RunTyped'
    BY <1>9 DEF Typed, BackendUp, RunTyped, FilesTyped, Resume, Cleared, Place,
           BackendPlace, InstallPlace, IdlePlace, Orchestrator
  <2>4. SupTyped'
    BY <1>9 DEF Typed, BackendUp, SupTyped, SupPlace, Manifest, RunTyped
  <2>5. Placed'
    BY <1>9 DEF Typed, BackendUp, Placed, PlaceFits, RestorePlace, SupTyped, RunTyped,
           FilesTyped, BackendPlace, InstallPlace, Cleared, Orchestrator, RecoverFirst
  <2> QED BY <1>9, <2>1, <2>2, <2>3, <2>4, <2>5 DEF Typed, BackendUp
<1>10. ASSUME NEW m \in Orchestrator, Reuse(m) PROVE Typed'
  <2>1. StatusTyped'
    BY <1>10 DEF Typed, Reuse, StatusTyped, TERMINAL_STATES, Orchestrator
  <2>2. FilesTyped'
    BY <1>10 DEF Typed, Reuse, FilesTyped, Resume, RunTyped, SupTyped
  <2>3. RunTyped'
    BY <1>10 DEF Typed, Reuse, RunTyped, FilesTyped, Resume, Place, BackendPlace,
           InstallPlace, IdlePlace, Orchestrator
  <2>4. SupTyped'
    BY <1>10 DEF Typed, Reuse, SupTyped, SupPlace, Manifest, RunTyped
  <2>5. Placed'
    BY <1>10 DEF Typed, Reuse, BackendDown, KeepsPoint, Placed, PlaceFits, RestorePlace,
           RunTyped, BackendPlace, InstallPlace, Orchestrator
  <2> QED BY <1>10, <2>1, <2>2, <2>3, <2>4, <2>5 DEF Typed, Reuse
<1>11. ASSUME NEW m \in Orchestrator, BackUp(m) PROVE Typed'
  <2>1. StatusTyped'
    BY <1>11 DEF Typed, StatusTyped, TERMINAL_STATES, Orchestrator
  <2>2. FilesTyped'
    BY <1>11 DEF Typed, FilesTyped, Resume, RunTyped, SupTyped, BackedUp
  <2>3. RunTyped'
    BY <1>11, MemTyped, Remembers, RecordsTyped DEF Typed, FilesTyped, BackedUp, Place,
           BackendPlace
  <2>4. SupTyped'
    BY <1>11 DEF Typed, SupTyped, SupPlace, Manifest, RunTyped
  <2>5. Placed'
    BY <1>11 DEF Typed, Placed, PlaceFits, RestorePlace, SupTyped, RunTyped, FilesTyped,
           BackendPlace, InstallPlace, BackedUp, Orchestrator, BackendDown, RecoverFirst
  <2> QED BY <1>11, <2>1, <2>2, <2>3, <2>4, <2>5 DEF Typed
<1>12. ASSUME NEW m \in Orchestrator, EnableStarts(m) PROVE Typed'
  <2>1. StatusTyped'
    BY <1>12 DEF Typed, EnableStarts, StatusTyped, TERMINAL_STATES, Orchestrator
  <2>2. FilesTyped'
    BY <1>12 DEF Typed, EnableStarts, FilesTyped, Resume, RunTyped, SupTyped
  <2>3. RunTyped'
    BY <1>12 DEF Typed, EnableStarts, RunTyped, FilesTyped, Resume, Place, BackendPlace,
           InstallPlace, IdlePlace, Orchestrator
  <2>4. SupTyped'
    BY <1>12 DEF Typed, EnableStarts, SupTyped, SupPlace, Manifest, RunTyped
  <2>5. Placed'
    BY <1>12 DEF Typed, EnableStarts, Placed, PlaceFits, RestorePlace, SupTyped,
           RunTyped, FilesTyped, BackendPlace, InstallPlace, Orchestrator
  <2> QED BY <1>12, <2>1, <2>2, <2>3, <2>4, <2>5 DEF Typed, EnableStarts
<1>13. ASSUME NEW m \in Orchestrator, EnableEnds(m) PROVE Typed'
  <2>1. StatusTyped'
    BY <1>13 DEF Typed, EnableEnds, StatusTyped, TERMINAL_STATES, Orchestrator
  <2>2. FilesTyped'
    <3>1. reachable' \in BOOLEAN
      BY <1>13 DEF Typed, FilesTyped, EnableEnds
    <3> QED BY <1>13, <3>1 DEF Typed, FilesTyped, EnableEnds
  <2>3. RunTyped'
    BY <1>13, Moves DEF Typed, EnableEnds, Place, BackendPlace
  <2>4. SupTyped'
    BY <1>13 DEF Typed, EnableEnds, SupTyped, SupPlace, Manifest, RunTyped
  <2>5. Placed'
    <3>1. \E l \in {"enabled", "remove"} : Goto(m, l) /\ At(m, "enabling") /\ UNCHANGED sup
      BY <1>13 DEF EnableEnds
    <3>2. m # "child" /\ Mem(m).phase = 0 /\ Mem(m).manifest # "none"
      BY <3>1 DEF Typed, Placed, PlaceFits, RestorePlace, BackendPlace
    <3> QED BY <3>1, <3>2 DEF Typed, Placed, PlaceFits, RestorePlace, RunTyped,
        BackendPlace, InstallPlace
  <2> QED BY <1>13, <2>1, <2>2, <2>3, <2>4, <2>5 DEF Typed, EnableEnds
<1>14. ASSUME NEW m \in Orchestrator, EnableRecorded(m) PROVE Typed'
  <2>1. StatusTyped'
    BY <1>14 DEF Typed, EnableRecorded, StatusTyped, TERMINAL_STATES, Orchestrator
  <2>2. FilesTyped'
    BY <1>14 DEF Typed, EnableRecorded, FilesTyped, Resume, RunTyped, SupTyped
  <2>3. RunTyped'
    BY <1>14, MemTyped, Remembers, RecordsTyped DEF Typed, EnableRecorded, Place,
           BackendPlace
  <2>4. SupTyped'
    BY <1>14 DEF Typed, EnableRecorded, SupTyped, SupPlace, Manifest, RunTyped
  <2>5. Placed'
    BY <1>14 DEF Typed, EnableRecorded, Placed, PlaceFits, RestorePlace, SupTyped,
           RunTyped, FilesTyped, BackendPlace, InstallPlace, Orchestrator
  <2> QED BY <1>14, <2>1, <2>2, <2>3, <2>4, <2>5 DEF Typed, EnableRecorded
<1>15. ASSUME NEW m \in Orchestrator, StillDown(m) PROVE Typed'
  <2>1. StatusTyped'
    BY <1>15 DEF Typed, StillDown, StatusTyped, TERMINAL_STATES, Orchestrator
  <2>2. FilesTyped'
    BY <1>15 DEF Typed, StillDown, FilesTyped, Resume, RunTyped, SupTyped
  <2>3. RunTyped'
    BY <1>15 DEF Typed, StillDown, RunTyped, FilesTyped, Resume, Place, BackendPlace,
           InstallPlace, IdlePlace, Orchestrator
  <2>4. SupTyped'
    BY <1>15 DEF Typed, StillDown, SupTyped, SupPlace, Manifest, RunTyped
  <2>5. Placed'
    BY <1>15 DEF Typed, StillDown, Placed, PlaceFits, RestorePlace, SupTyped, RunTyped,
           FilesTyped, BackendPlace, InstallPlace, Orchestrator
  <2> QED BY <1>15, <2>1, <2>2, <2>3, <2>4, <2>5 DEF Typed, StillDown
<1>16. ASSUME NEW m \in Orchestrator, Choose(m) PROVE Typed'
  <2>1. StatusTyped'
    BY <1>16 DEF Typed, Choose, StatusTyped, TERMINAL_STATES, Orchestrator
  <2>2. FilesTyped'
    BY <1>16 DEF Typed, Choose, FilesTyped, Resume, RunTyped, SupTyped
  <2>3. RunTyped'
    BY <1>16 DEF Typed, Choose, RunTyped, FilesTyped, Resume, Place, BackendPlace,
           InstallPlace, IdlePlace, Orchestrator
  <2>4. SupTyped'
    BY <1>16 DEF Typed, Choose, SupTyped, SupPlace, Manifest, RunTyped
  <2>5. Placed'
    BY <1>16 DEF Typed, Choose, Placed, PlaceFits, RestorePlace, SupTyped, RunTyped,
           FilesTyped, BackendPlace, InstallPlace, Orchestrator
  <2> QED BY <1>16, <2>1, <2>2, <2>3, <2>4, <2>5 DEF Typed, Choose
<1>17. ASSUME NEW m \in Orchestrator, InlineRestart(m) PROVE Typed'
  <2>1. StatusTyped'
    BY <1>17 DEF Typed, InlineRestart, StatusTyped, TERMINAL_STATES, Orchestrator
  <2>2. FilesTyped'
    BY <1>17 DEF Typed, InlineRestart, FilesTyped, Resume, RunTyped, SupTyped
  <2>3. RunTyped'
    BY <1>17 DEF Typed, InlineRestart, RunTyped, FilesTyped, Resume, Place,
           BackendPlace, InstallPlace, IdlePlace, Orchestrator
  <2>4. SupTyped'
    BY <1>17 DEF Typed, InlineRestart, SupTyped, SupPlace, Manifest, RunTyped
  <2>5. Placed'
    BY <1>17 DEF Typed, InlineRestart, Placed, PlaceFits, RestorePlace, SupTyped,
           RunTyped, FilesTyped, BackendPlace, InstallPlace, Orchestrator
  <2> QED BY <1>17, <2>1, <2>2, <2>3, <2>4, <2>5 DEF Typed, InlineRestart
<1>18. ASSUME NEW m \in Orchestrator, Handoff(m) PROVE Typed'
  <2>1. StatusTyped'
    BY <1>18 DEF Typed, Handoff, StatusTyped, TERMINAL_STATES, Orchestrator
  <2>2. FilesTyped'
    BY <1>18 DEF Typed, Handoff, FilesTyped, Resume, RunTyped, SupTyped
  <2>3. RunTyped'
    BY <1>18, MemTyped, Remembers, RecordsTyped DEF Typed, Handoff, Place, BackendPlace
  <2>4. SupTyped'
    BY <1>18 DEF Typed, Handoff, SupTyped, SupPlace, Manifest, RunTyped
  <2>5. Placed'
    BY <1>18 DEF Typed, Handoff, Placed, PlaceFits, RestorePlace, SupTyped, RunTyped,
           FilesTyped, BackendPlace, InstallPlace, Orchestrator
  <2> QED BY <1>18, <2>1, <2>2, <2>3, <2>4, <2>5 DEF Typed, Handoff
<1>19. ASSUME NEW m \in Orchestrator, Spawn(m) PROVE Typed'
  <2>1. StatusTyped'
    BY <1>19 DEF Typed, Spawn, StatusTyped, TERMINAL_STATES, Orchestrator
  <2>2. FilesTyped'
    BY <1>19 DEF Typed, Spawn, FilesTyped, Resume, RunTyped, SupTyped
  <2>3. RunTyped'
    BY <1>19 DEF Typed, Spawn, RunTyped, FilesTyped, Resume, Place, BackendPlace,
           InstallPlace, IdlePlace, Orchestrator
  <2>4. SupTyped'
    BY <1>19 DEF Typed, Spawn, SupTyped, SupPlace, Manifest, RunTyped, Resume, Orchestrator
  <2>5. Placed'
    <3>1. \E l \in {"handed", "remove"} : Goto(m, l) /\ At(m, "spawn")
      BY <1>19 DEF Spawn
    <3>2. m # "child" /\ Mem(m).phase = 0 /\ Mem(m).manifest # "none"
      BY <3>1 DEF Typed, Placed, PlaceFits, RestorePlace, BackendPlace
    <3>3. ~SupAt("off")' => sup'.manifest # "none"
      BY <1>19, <3>2 DEF Spawn, Typed, Placed
    <3> QED BY <3>1, <3>2, <3>3 DEF Typed, Placed, PlaceFits, RestorePlace, RunTyped,
        BackendPlace, InstallPlace
  <2> QED BY <1>19, <2>1, <2>2, <2>3, <2>4, <2>5 DEF Typed, Spawn
<1>20. ASSUME NEW m \in Orchestrator, HandedOver(m) PROVE Typed'
  <2>1. StatusTyped'
    BY <1>20 DEF Typed, HandedOver, StatusTyped, TERMINAL_STATES, Orchestrator
  <2>2. FilesTyped'
    BY <1>20 DEF Typed, HandedOver, FilesTyped, Resume, NoResume, RunTyped, SupTyped
  <2>3. RunTyped'
    BY <1>20, Exits DEF Typed, HandedOver
  <2>4. SupTyped'
    BY <1>20 DEF Typed, HandedOver, SupTyped, SupPlace, Manifest, RunTyped
  <2>5. Placed'
    BY <1>20 DEF Typed, HandedOver, Placed, PlaceFits, RestorePlace, SupTyped, RunTyped,
           FilesTyped, BackendPlace, InstallPlace, Orchestrator
  <2> QED BY <1>20, <2>1, <2>2, <2>3, <2>4, <2>5 DEF Typed, HandedOver
<1>21. ASSUME NEW m \in Orchestrator, HandoffTimesOut(m) PROVE Typed'
  <2>1. StatusTyped'
    BY <1>21 DEF Typed, HandoffTimesOut, StatusTyped, TERMINAL_STATES, Orchestrator
  <2>2. FilesTyped'
    BY <1>21 DEF Typed, HandoffTimesOut, FilesTyped, Resume, NoResume, RunTyped, SupTyped
  <2>3. RunTyped'
    <3>1. CASE run' = [run EXCEPT ![m].at = "remove"]
      BY <3>1, Moves DEF Typed, Place, BackendPlace
    <3>2. CASE run' = [run EXCEPT !["child"] = NotRunning, ![m].at = "remove"]
      <4> DEFINE r == [run EXCEPT !["child"] = NotRunning]
      <4>1. r \in [Orchestrator -> RunRecord]
        BY RecordsTyped DEF Typed, RunTyped, RunRecord, Orchestrator
      <4>2. run' = [r EXCEPT ![m].at = "remove"]
        BY <3>2
      <4>3. "remove" \in Place
        BY DEF Place, BackendPlace
      <4> QED BY <4>1, <4>2, <4>3 DEF RunTyped, RunRecord
    <3> QED BY <1>21, <3>1, <3>2 DEF HandoffTimesOut
  <2>4. SupTyped'
    BY <1>21 DEF Typed, HandoffTimesOut, SupTyped, SupPlace, Manifest, RunTyped
  <2>5. Placed'
    BY <1>21 DEF Typed, HandoffTimesOut, Placed, PlaceFits, RestorePlace, SupTyped,
           RunTyped, FilesTyped, BackendPlace, InstallPlace, Orchestrator
  <2> QED BY <1>21, <2>1, <2>2, <2>3, <2>4, <2>5 DEF Typed, HandoffTimesOut
<1>22. ASSUME NEW m \in Orchestrator, Removes(m) PROVE Typed'
  <2>1. StatusTyped'
    BY <1>22 DEF Typed, Removes, StatusTyped, TERMINAL_STATES, Orchestrator
  <2>2. FilesTyped'
    BY <1>22 DEF Typed, Removes, FilesTyped, Resume, RunTyped, SupTyped
  <2>3. RunTyped'
    BY <1>22 DEF Typed, Removes, RunTyped, FilesTyped, Resume, Place, BackendPlace,
           InstallPlace, IdlePlace, Orchestrator
  <2>4. SupTyped'
    BY <1>22 DEF Typed, Removes, SupTyped, SupPlace, Manifest, RunTyped
  <2>5. Placed'
    BY <1>22 DEF Typed, Removes, Placed, PlaceFits, RestorePlace, SupTyped, RunTyped,
           FilesTyped, BackendPlace, InstallPlace, Orchestrator
  <2> QED BY <1>22, <2>1, <2>2, <2>3, <2>4, <2>5 DEF Typed, Removes
<1>23. ASSUME NEW m \in Orchestrator, Copies(m) PROVE Typed'
  <2>1. StatusTyped'
    BY <1>23 DEF Typed, Copies, StatusTyped, TERMINAL_STATES, Orchestrator
  <2>2. FilesTyped'
    BY <1>23 DEF Typed, Copies, Declares, FilesTyped, RestorePlace, Resume, RunTyped,
           Placed, PlaceFits
  <2>3. RunTyped'
    BY <1>23 DEF Typed, Copies, RunTyped, FilesTyped, Resume, Place, BackendPlace,
           InstallPlace, IdlePlace, Orchestrator
  <2>4. SupTyped'
    BY <1>23 DEF Typed, Copies, SupTyped, SupPlace, Manifest, RunTyped
  <2>5. Placed'
    BY <1>23 DEF Typed, Copies, Placed, PlaceFits, RestorePlace, SupTyped, RunTyped,
           FilesTyped, BackendPlace, InstallPlace, Orchestrator
  <2> QED BY <1>23, <2>1, <2>2, <2>3, <2>4, <2>5 DEF Typed, Copies
<1>24. ASSUME NEW m \in Orchestrator, ClearsAfter(m) PROVE Typed'
  <2>1. StatusTyped'
    BY <1>24 DEF Typed, ClearsAfter, StatusTyped, TERMINAL_STATES, Orchestrator
  <2>2. FilesTyped'
    BY <1>24 DEF Typed, ClearsAfter, FilesTyped, Resume, Cleared, RunTyped, SupTyped
  <2>3. RunTyped'
    BY <1>24 DEF Typed, ClearsAfter, RunTyped, FilesTyped, Resume, Cleared, Place,
           BackendPlace, InstallPlace, IdlePlace, Orchestrator
  <2>4. SupTyped'
    BY <1>24 DEF Typed, ClearsAfter, SupTyped, SupPlace, Manifest, RunTyped
  <2>5. Placed'
    BY <1>24 DEF Typed, ClearsAfter, Placed, PlaceFits, RestorePlace, SupTyped,
           RunTyped, FilesTyped, BackendPlace, InstallPlace, Cleared, Orchestrator
  <2> QED BY <1>24, <2>1, <2>2, <2>3, <2>4, <2>5 DEF Typed, ClearsAfter
<1>25. ASSUME NEW m \in Orchestrator, Adopt(m) PROVE Typed'
  <2>1. StatusTyped'
    BY <1>25 DEF Typed, Adopt, StatusTyped, TERMINAL_STATES, Orchestrator
  <2>2. FilesTyped'
    BY <1>25 DEF Typed, Adopt, FilesTyped, Resume, RunTyped, SupTyped
  <2>3. RunTyped'
    BY <1>25 DEF Typed, Adopt, RunTyped, FilesTyped, Resume, Place, BackendPlace,
           InstallPlace, IdlePlace, Orchestrator
  <2>4. SupTyped'
    BY <1>25 DEF Typed, Adopt, SupTyped, SupPlace, Manifest, RunTyped
  <2>5. Placed'
    BY <1>25 DEF Typed, Adopt, Placed, PlaceFits, RestorePlace, SupTyped, RunTyped,
           FilesTyped, BackendPlace, InstallPlace, Orchestrator
  <2> QED BY <1>25, <2>1, <2>2, <2>3, <2>4, <2>5 DEF Typed, Adopt
<1>26. ASSUME NEW m \in Orchestrator, PersistDigest(m) PROVE Typed'
  <2>1. StatusTyped'
    BY <1>26 DEF Typed, PersistDigest, StatusTyped, TERMINAL_STATES, Orchestrator
  <2>2. FilesTyped'
    BY <1>26 DEF Typed, PersistDigest, FilesTyped, Resume, RunTyped, SupTyped, ProofFirst
  <2>3. RunTyped'
    BY <1>26 DEF Typed, PersistDigest, RunTyped, FilesTyped, Resume, ProofFirst, Place,
           BackendPlace, InstallPlace, IdlePlace, Orchestrator
  <2>4. SupTyped'
    BY <1>26 DEF Typed, PersistDigest, SupTyped, SupPlace, Manifest, RunTyped
  <2>5. Placed'
    BY <1>26 DEF Typed, PersistDigest, Placed, PlaceFits, RestorePlace, SupTyped,
           RunTyped, FilesTyped, BackendPlace, InstallPlace, ProofFirst, Orchestrator
  <2> QED BY <1>26, <2>1, <2>2, <2>3, <2>4, <2>5 DEF Typed, PersistDigest
<1>27. ASSUME NEW m \in Orchestrator, Render(m) PROVE Typed'
  <2>1. StatusTyped'
    BY <1>27 DEF Typed, Render, StatusTyped, TERMINAL_STATES, Orchestrator
  <2>2. FilesTyped'
    BY <1>27 DEF Typed, Render, FilesTyped, Resume, RunTyped, SupTyped
  <2>3. RunTyped'
    BY <1>27 DEF Typed, Render, RunTyped, FilesTyped, Resume, Place, BackendPlace,
           InstallPlace, IdlePlace, Orchestrator
  <2>4. SupTyped'
    BY <1>27 DEF Typed, Render, SupTyped, SupPlace, Manifest, RunTyped
  <2>5. Placed'
    BY <1>27 DEF Typed, Render, Placed, PlaceFits, RestorePlace, SupTyped, RunTyped,
           FilesTyped, BackendPlace, InstallPlace, Orchestrator
  <2> QED BY <1>27, <2>1, <2>2, <2>3, <2>4, <2>5 DEF Typed, Render
<1>28. ASSUME NEW m \in Orchestrator, Own(m) PROVE Typed'
  <2>1. StatusTyped'
    BY <1>28 DEF Typed, Own, StatusTyped, TERMINAL_STATES, Orchestrator
  <2>2. FilesTyped'
    BY <1>28 DEF Typed, Own, FilesTyped, Resume, RunTyped, SupTyped
  <2>3. RunTyped'
    BY <1>28 DEF Typed, Own, RunTyped, FilesTyped, Resume, Place, BackendPlace,
           InstallPlace, IdlePlace, Orchestrator
  <2>4. SupTyped'
    BY <1>28 DEF Typed, Own, SupTyped, SupPlace, Manifest, RunTyped
  <2>5. Placed'
    BY <1>28 DEF Typed, Own, Placed, PlaceFits, RestorePlace, SupTyped, RunTyped,
           FilesTyped, BackendPlace, InstallPlace, Orchestrator
  <2> QED BY <1>28, <2>1, <2>2, <2>3, <2>4, <2>5 DEF Typed, Own
<1>29. ASSUME NEW m \in Orchestrator, Finish(m) PROVE Typed'
  <2>1. StatusTyped'
    BY <1>29 DEF Typed, Finish, StatusTyped, TERMINAL_STATES, Orchestrator
  <2>2. FilesTyped'
    BY <1>29 DEF Typed, Finish, FilesTyped, Resume, RunTyped, SupTyped
  <2>3. RunTyped'
    BY <1>29 DEF Typed, Finish, RunTyped, FilesTyped, Resume, Place, BackendPlace,
           InstallPlace, IdlePlace, Orchestrator
  <2>4. SupTyped'
    BY <1>29 DEF Typed, Finish, SupTyped, SupPlace, Manifest, RunTyped
  <2>5. Placed'
    BY <1>29 DEF Typed, Finish, Placed, PlaceFits, RestorePlace, SupTyped, RunTyped,
           FilesTyped, BackendPlace, InstallPlace, Orchestrator
  <2> QED BY <1>29, <2>1, <2>2, <2>3, <2>4, <2>5 DEF Typed, Finish
<1>30. ASSUME NEW m \in Orchestrator, Mark(m) PROVE Typed'
  <2>1. StatusTyped'
    BY <1>30 DEF Typed, Mark, StatusTyped, TERMINAL_STATES, Orchestrator
  <2>2. FilesTyped'
    BY <1>30 DEF Typed, Mark, FilesTyped, Resume, RunTyped, SupTyped
  <2>3. RunTyped'
    <3>1. Mem(m) \in Resume /\ Mem(m).phase \in 0 .. 2
      BY <1>30, MemTyped DEF Typed, Placed, PlaceFits, Mark
    <3> QED BY <1>30, <3>1, Remembers, RecordsTyped DEF Typed, Mark
  <2>4. SupTyped'
    BY <1>30 DEF Typed, Mark, SupTyped, SupPlace, Manifest, RunTyped
  <2>5. Placed'
    <3> DEFINE mem == [Mem(m) EXCEPT !.phase = @ + 1]
    <3>1. Mem(m) \in Resume /\ Mem(m).phase \in {0, 1, 2}
      BY <1>30, MemTyped DEF Typed, Placed, PlaceFits, Mark
    <3>2. mem.phase = Mem(m).phase + 1
      BY <3>1 DEF Resume
    <3>3. \/ mem.phase = 1 /\ PhaseOf(mem) = "install"
          \/ mem.phase = 2 /\ PhaseOf(mem) = "finish"
          \/ mem.phase = 3 /\ PhaseOf(mem) = "unlink"
      <4>1. CASE Mem(m).phase = 0
        BY <3>2, <4>1 DEF PhaseOf
      <4>2. CASE Mem(m).phase = 1
        BY <3>2, <4>2 DEF PhaseOf
      <4>3. CASE Mem(m).phase = 2
        BY <3>2, <4>3 DEF PhaseOf
      <4> QED BY <3>1, <4>1, <4>2, <4>3
    <3>4. run'[m].at = PhaseOf(mem) /\ run'[m].mem = mem /\ UNCHANGED sup
          /\ \A n \in Orchestrator \ {m} : run'[n] = run[n]
      BY <1>30 DEF Mark, Typed, RunTyped
    <3> HIDE DEF mem
    <3> QED BY <3>3, <3>4 DEF Typed, Placed, PlaceFits, BackendPlace, RestorePlace,
        InstallPlace, Orchestrator
  <2> QED BY <1>30, <2>1, <2>2, <2>3, <2>4, <2>5 DEF Typed, Mark
<1>31. ASSUME NEW m \in Orchestrator, Unlink(m) PROVE Typed'
  <2>1. StatusTyped'
    BY <1>31 DEF Typed, Unlink, StatusTyped, TERMINAL_STATES, Orchestrator
  <2>2. FilesTyped'
    BY <1>31 DEF Typed, Unlink, FilesTyped, Resume, NoResume, RunTyped, SupTyped
  <2>3. RunTyped'
    BY <1>31 DEF Typed, Unlink, RunTyped, FilesTyped, Resume, NoResume, Place,
           BackendPlace, InstallPlace, IdlePlace, Orchestrator
  <2>4. SupTyped'
    BY <1>31 DEF Typed, Unlink, SupTyped, SupPlace, Manifest, RunTyped
  <2>5. Placed'
    BY <1>31 DEF Typed, Unlink, Placed, PlaceFits, RestorePlace, SupTyped, RunTyped,
           FilesTyped, BackendPlace, InstallPlace, Orchestrator
  <2> QED BY <1>31, <2>1, <2>2, <2>3, <2>4, <2>5 DEF Typed, Unlink
<1>32. ASSUME NEW m \in Orchestrator, Succeed(m) PROVE Typed'
  <2>1. StatusTyped'
    BY <1>32 DEF Typed, Succeed, StatusTyped, TERMINAL_STATES, Orchestrator
  <2>2. FilesTyped'
    BY <1>32 DEF Typed, Succeed, FilesTyped, Resume, NoResume, RunTyped, SupTyped
  <2>3. RunTyped'
    BY <1>32, Exits DEF Typed, Succeed
  <2>4. SupTyped'
    BY <1>32 DEF Typed, Succeed, SupTyped, SupPlace, Manifest, RunTyped
  <2>5. Placed'
    BY <1>32 DEF Typed, Succeed, Placed, PlaceFits, RestorePlace, SupTyped, RunTyped,
           FilesTyped, BackendPlace, InstallPlace, Orchestrator
  <2> QED BY <1>32, <2>1, <2>2, <2>3, <2>4, <2>5 DEF Typed, Succeed
<1>33. ASSUME NEW m \in Orchestrator, RecordTerminal(m) PROVE Typed'
  <2>1. StatusTyped'
    BY <1>33 DEF Typed, RecordTerminal, StatusTyped, TERMINAL_STATES, Orchestrator
  <2>2. FilesTyped'
    BY <1>33 DEF Typed, RecordTerminal, FilesTyped, Resume, NoResume, RunTyped, SupTyped
  <2>3. RunTyped'
    BY <1>33, Exits DEF Typed, RecordTerminal
  <2>4. SupTyped'
    BY <1>33 DEF Typed, RecordTerminal, SupTyped, SupPlace, Manifest, RunTyped
  <2>5. Placed'
    BY <1>33 DEF Typed, RecordTerminal, Placed, PlaceFits, RestorePlace, SupTyped,
           RunTyped, FilesTyped, BackendPlace, InstallPlace, Orchestrator
  <2> QED BY <1>33, <2>1, <2>2, <2>3, <2>4, <2>5 DEF Typed, RecordTerminal
<1>34. ASSUME NEW m \in Orchestrator, RestoreFails(m) PROVE Typed'
  <2>1. StatusTyped'
    BY <1>34 DEF Typed, RestoreFails, StatusTyped, TERMINAL_STATES, Orchestrator
  <2>2. FilesTyped'
    BY <1>34 DEF Typed, RestoreFails, FilesTyped, Resume, RunTyped, SupTyped
  <2>3. RunTyped'
    BY <1>34 DEF Typed, RestoreFails, RunTyped, FilesTyped, Resume, Place, BackendPlace,
           InstallPlace, IdlePlace, Orchestrator
  <2>4. SupTyped'
    BY <1>34 DEF Typed, RestoreFails, SupTyped, SupPlace, Manifest, RunTyped
  <2>5. Placed'
    BY <1>34 DEF Typed, RestoreFails, Placed, PlaceFits, RestorePlace, SupTyped,
           RunTyped, FilesTyped, BackendPlace, InstallPlace, Orchestrator
  <2> QED BY <1>34, <2>1, <2>2, <2>3, <2>4, <2>5 DEF Typed, RestoreFails
<1>35. ASSUME NEW m \in Orchestrator, Interrupt(m) PROVE Typed'
  <2>1. StatusTyped'
    BY <1>35 DEF Typed, Interrupt, StatusTyped, TERMINAL_STATES, Orchestrator
  <2>2. FilesTyped'
    BY <1>35 DEF Typed, Interrupt, FilesTyped, Resume, RunTyped, SupTyped
  <2>3. RunTyped'
    BY <1>35 DEF Typed, Interrupt, RunTyped, FilesTyped, Resume, Place, BackendPlace,
           InstallPlace, IdlePlace, Orchestrator
  <2>4. SupTyped'
    BY <1>35 DEF Typed, Interrupt, SupTyped, SupPlace, Manifest, RunTyped
  <2>5. Placed'
    BY <1>35 DEF Typed, Interrupt, Placed, PlaceFits, RestorePlace, SupTyped, RunTyped,
           FilesTyped, BackendPlace, InstallPlace, Orchestrator
  <2> QED BY <1>35, <2>1, <2>2, <2>3, <2>4, <2>5 DEF Typed, Interrupt
<1>36. ASSUME NEW m \in Orchestrator, Kill(m) PROVE Typed'
  <2>1. StatusTyped'
    BY <1>36 DEF Typed, Kill, StatusTyped, TERMINAL_STATES, Orchestrator
  <2>2. FilesTyped'
    BY <1>36 DEF Typed, Kill, FilesTyped, Resume, NoResume, RunTyped, SupTyped
  <2>3. RunTyped'
    BY <1>36, Exits DEF Typed, Kill
  <2>4. SupTyped'
    BY <1>36 DEF Typed, Kill, SupTyped, SupPlace, Manifest, RunTyped
  <2>5. Placed'
    BY <1>36 DEF Typed, Kill, Placed, PlaceFits, RestorePlace, SupTyped, RunTyped,
           FilesTyped, BackendPlace, InstallPlace, Orchestrator
  <2> QED BY <1>36, <2>1, <2>2, <2>3, <2>4, <2>5 DEF Typed, Kill
<1>37. CASE SupRegisters
  <2>1. StatusTyped'
    BY <1>37 DEF Typed, SupRegisters, StatusTyped, TERMINAL_STATES, Orchestrator
  <2>2. FilesTyped'
    BY <1>37 DEF Typed, SupRegisters, FilesTyped, Resume, RunTyped, SupTyped
  <2>3. RunTyped'
    BY <1>37 DEF Typed, SupRegisters, RunTyped, FilesTyped, Resume, Place, BackendPlace,
           InstallPlace, IdlePlace, Orchestrator
  <2>4. SupTyped'
    BY <1>37 DEF Typed, SupRegisters, SupTyped, SupPlace, Manifest, RunTyped
  <2>5. Placed'
    BY <1>37 DEF Typed, SupRegisters, Placed, PlaceFits, RestorePlace, SupTyped,
           RunTyped, FilesTyped, BackendPlace, InstallPlace, Orchestrator
  <2> QED BY <1>37, <2>1, <2>2, <2>3, <2>4, <2>5 DEF Typed, SupRegisters
<1>38. CASE SupReady
  <2>1. StatusTyped'
    BY <1>38 DEF Typed, SupReady, StatusTyped, TERMINAL_STATES, Orchestrator
  <2>2. FilesTyped'
    BY <1>38 DEF Typed, SupReady, FilesTyped, Resume, RunTyped, SupTyped
  <2>3. RunTyped'
    BY <1>38 DEF Typed, SupReady, RunTyped, FilesTyped, Resume, Place, BackendPlace,
           InstallPlace, IdlePlace, Orchestrator
  <2>4. SupTyped'
    BY <1>38 DEF Typed, SupReady, SupTyped, SupPlace, Manifest, RunTyped
  <2>5. Placed'
    BY <1>38 DEF Typed, SupReady, Placed, PlaceFits, RestorePlace, SupTyped, RunTyped,
           FilesTyped, BackendPlace, InstallPlace, Orchestrator
  <2> QED BY <1>38, <2>1, <2>2, <2>3, <2>4, <2>5 DEF Typed, SupReady
<1>39. CASE SupRefuses
  <2>1. StatusTyped'
    BY <1>39 DEF Typed, SupRefuses, StatusTyped, TERMINAL_STATES, Orchestrator
  <2>2. FilesTyped'
    BY <1>39 DEF Typed, SupRefuses, FilesTyped, Resume, RunTyped, SupTyped
  <2>3. RunTyped'
    BY <1>39 DEF Typed, SupRefuses, RunTyped, FilesTyped, Resume, Place, BackendPlace,
           InstallPlace, IdlePlace, Orchestrator
  <2>4. SupTyped'
    BY <1>39 DEF Typed, SupRefuses, SupTyped, SupPlace, Manifest, RunTyped
  <2>5. Placed'
    BY <1>39 DEF Typed, SupRefuses, Placed, PlaceFits, RestorePlace, SupTyped, RunTyped,
           FilesTyped, BackendPlace, InstallPlace, Orchestrator
  <2> QED BY <1>39, <2>1, <2>2, <2>3, <2>4, <2>5 DEF Typed, SupRefuses
<1>40. CASE SupRestarts
  <2>1. StatusTyped'
    BY <1>40 DEF Typed, SupRestarts, StatusTyped, TERMINAL_STATES, Orchestrator
  <2>2. FilesTyped'
    <3>1. reachable' \in BOOLEAN
      BY <1>40 DEF SupRestarts
    <3> QED BY <1>40, <3>1 DEF Typed, FilesTyped, SupRestarts
  <2>3. RunTyped'
    <3>1. CASE UNCHANGED run
      BY <3>1 DEF Typed, RunTyped
    <3>2. CASE \E t \in Terminal : run' = [run EXCEPT ![t] = NotRunning]
      BY <3>2, Puts, RecordsTyped DEF Typed, Orchestrator
    <3> QED BY <1>40, <3>1, <3>2 DEF SupRestarts
  <2>4. SupTyped'
    BY <1>40 DEF Typed, SupRestarts, SupTyped, SupPlace, Manifest, RunTyped
  <2>5. Placed'
    <3>1. run' = run \/ \E t \in Orchestrator : run' = [run EXCEPT ![t] = NotRunning]
      BY <1>40 DEF SupRestarts, Orchestrator
    <3>2. \A n \in Orchestrator : run'[n] = run[n] \/ run'[n].at = "off"
      BY <3>1, OneEnds DEF Typed
    <3>3. sup'.manifest # "none"
      BY <1>40 DEF SupRestarts, Typed, Placed, SupTyped
    <3> QED BY <3>2, <3>3 DEF Typed, Placed, PlaceFits, BackendPlace, RestorePlace,
        InstallPlace, Orchestrator
  <2> QED BY <1>40, <2>1, <2>2, <2>3, <2>4, <2>5 DEF Typed, SupRestarts
<1>41. CASE SupHealthy
  <2>1. StatusTyped'
    BY <1>41 DEF Typed, SupHealthy, StatusTyped, TERMINAL_STATES, Orchestrator
  <2>2. FilesTyped'
    BY <1>41 DEF Typed, SupHealthy, FilesTyped, Resume, RunTyped, SupTyped
  <2>3. RunTyped'
    BY <1>41 DEF Typed, SupHealthy, RunTyped, FilesTyped, Resume, Place, BackendPlace,
           InstallPlace, IdlePlace, Orchestrator
  <2>4. SupTyped'
    BY <1>41 DEF Typed, SupHealthy, SupTyped, SupPlace, Manifest, RunTyped
  <2>5. Placed'
    BY <1>41 DEF Typed, SupHealthy, Placed, PlaceFits, RestorePlace, SupTyped, RunTyped,
           FilesTyped, BackendPlace, InstallPlace, Orchestrator
  <2> QED BY <1>41, <2>1, <2>2, <2>3, <2>4, <2>5 DEF Typed, SupHealthy
<1>42. CASE SupResumes
  <2>1. StatusTyped'
    BY <1>42 DEF Typed, SupResumes, StatusTyped, TERMINAL_STATES, Orchestrator
  <2>2. FilesTyped'
    BY <1>42 DEF Typed, SupResumes, FilesTyped, Resume, NoResume, RunTyped, SupTyped
  <2>3. RunTyped'
    <3>1. [NotRunning EXCEPT !.at = "claim"] \in RunRecord
      BY RecordsTyped DEF RunRecord, Place, IdlePlace
    <3> QED BY <1>42, <3>1, Puts DEF Typed, SupResumes, Orchestrator
  <2>4. SupTyped'
    BY <1>42 DEF Typed, SupResumes, SupTyped, SupPlace, Manifest, RunTyped
  <2>5. Placed'
    BY <1>42 DEF Typed, SupResumes, Placed, PlaceFits, RestorePlace, SupTyped, RunTyped,
           FilesTyped, BackendPlace, InstallPlace, Orchestrator
  <2> QED BY <1>42, <2>1, <2>2, <2>3, <2>4, <2>5 DEF Typed, SupResumes
<1>43. CASE SupSucceeds
  <2>1. StatusTyped'
    BY <1>43 DEF Typed, SupSucceeds, StatusTyped, TERMINAL_STATES, Orchestrator
  <2>2. FilesTyped'
    BY <1>43 DEF Typed, SupSucceeds, FilesTyped, Resume, RunTyped, SupTyped
  <2>3. RunTyped'
    BY <1>43 DEF Typed, SupSucceeds, RunTyped, FilesTyped, Resume, Place, BackendPlace,
           InstallPlace, IdlePlace, Orchestrator
  <2>4. SupTyped'
    BY <1>43 DEF Typed, SupSucceeds, SupTyped, SupPlace, Manifest, RunTyped
  <2>5. Placed'
    BY <1>43 DEF Typed, SupSucceeds, Placed, PlaceFits, RestorePlace, SupTyped,
           RunTyped, FilesTyped, BackendPlace, InstallPlace, Orchestrator
  <2> QED BY <1>43, <2>1, <2>2, <2>3, <2>4, <2>5 DEF Typed, SupSucceeds
<1>44. CASE SupKeepsEnable
  <2>1. StatusTyped'
    BY <1>44 DEF Typed, SupKeepsEnable, StatusTyped, TERMINAL_STATES, Orchestrator
  <2>2. FilesTyped'
    BY <1>44 DEF Typed, SupKeepsEnable, FilesTyped, Resume, RunTyped, SupTyped
  <2>3. RunTyped'
    BY <1>44 DEF Typed, SupKeepsEnable, RunTyped, FilesTyped, Resume, Place,
           BackendPlace, InstallPlace, IdlePlace, Orchestrator
  <2>4. SupTyped'
    BY <1>44 DEF Typed, SupKeepsEnable, SupTyped, SupPlace, Manifest, RunTyped
  <2>5. Placed'
    BY <1>44 DEF Typed, SupKeepsEnable, Placed, PlaceFits, RestorePlace, SupTyped,
           RunTyped, FilesTyped, BackendPlace, InstallPlace, Orchestrator
  <2> QED BY <1>44, <2>1, <2>2, <2>3, <2>4, <2>5 DEF Typed, SupKeepsEnable
<1>45. CASE SupRollsBack
  <2>1. StatusTyped'
    BY <1>45 DEF Typed, SupRollsBack, StatusTyped, TERMINAL_STATES, Orchestrator
  <2>2. FilesTyped'
    BY <1>45 DEF Typed, SupRollsBack, FilesTyped, Resume, RunTyped, SupTyped
  <2>3. RunTyped'
    BY <1>45 DEF Typed, SupRollsBack, RunTyped, FilesTyped, Resume, Place, BackendPlace,
           InstallPlace, IdlePlace, Orchestrator
  <2>4. SupTyped'
    BY <1>45 DEF Typed, SupRollsBack, SupTyped, SupPlace, Manifest, RunTyped
  <2>5. Placed'
    BY <1>45 DEF Typed, SupRollsBack, ChildFailed, Placed, PlaceFits, SupTyped
  <2> QED BY <1>45, <2>1, <2>2, <2>3, <2>4, <2>5 DEF Typed, SupRollsBack
<1>46. CASE SupRemoves
  <2>1. StatusTyped'
    BY <1>46 DEF Typed, SupRemoves, StatusTyped, TERMINAL_STATES, Orchestrator
  <2>2. FilesTyped'
    BY <1>46 DEF Typed, SupRemoves, FilesTyped, Resume, RunTyped, SupTyped
  <2>3. RunTyped'
    BY <1>46 DEF Typed, SupRemoves, RunTyped, FilesTyped, Resume, Place, BackendPlace,
           InstallPlace, IdlePlace, Orchestrator
  <2>4. SupTyped'
    BY <1>46 DEF Typed, SupRemoves, SupTyped, SupPlace, Manifest, RunTyped
  <2>5. Placed'
    BY <1>46 DEF Typed, SupRemoves, Placed, PlaceFits, RestorePlace, SupTyped, RunTyped,
           FilesTyped, BackendPlace, InstallPlace, Orchestrator
  <2> QED BY <1>46, <2>1, <2>2, <2>3, <2>4, <2>5 DEF Typed, SupRemoves
<1>47. CASE SupCopies
  <2>1. StatusTyped'
    BY <1>47 DEF Typed, SupCopies, StatusTyped, TERMINAL_STATES, Orchestrator
  <2>2. FilesTyped'
    BY <1>47 DEF Typed, SupCopies, Declares, FilesTyped, SupTyped, Manifest, Placed
  <2>3. RunTyped'
    BY <1>47 DEF Typed, SupCopies, RunTyped, FilesTyped, Resume, Place, BackendPlace,
           InstallPlace, IdlePlace, Orchestrator
  <2>4. SupTyped'
    BY <1>47 DEF Typed, SupCopies, SupTyped, SupPlace, Manifest, RunTyped
  <2>5. Placed'
    BY <1>47 DEF Typed, SupCopies, Placed, PlaceFits, RestorePlace, SupTyped, RunTyped,
           FilesTyped, BackendPlace, InstallPlace, Orchestrator
  <2> QED BY <1>47, <2>1, <2>2, <2>3, <2>4, <2>5 DEF Typed, SupCopies
<1>48. CASE SupAborted
  <2>1. StatusTyped'
    BY <1>48 DEF Typed, SupAborted, StatusTyped, TERMINAL_STATES, Orchestrator
  <2>2. FilesTyped'
    BY <1>48 DEF Typed, SupAborted, FilesTyped, Resume, RunTyped, SupTyped
  <2>3. RunTyped'
    BY <1>48 DEF Typed, SupAborted, RunTyped, FilesTyped, Resume, Place, BackendPlace,
           InstallPlace, IdlePlace, Orchestrator
  <2>4. SupTyped'
    BY <1>48 DEF Typed, SupAborted, SupTyped, SupPlace, Manifest, RunTyped
  <2>5. Placed'
    BY <1>48 DEF Typed, SupAborted, Placed, PlaceFits, RestorePlace, SupTyped, RunTyped,
           FilesTyped, BackendPlace, InstallPlace, Orchestrator
  <2> QED BY <1>48, <2>1, <2>2, <2>3, <2>4, <2>5 DEF Typed, SupAborted
<1>49. CASE SupRestartsOld
  <2>1. StatusTyped'
    BY <1>49 DEF Typed, SupRestartsOld, StatusTyped, TERMINAL_STATES, Orchestrator
  <2>2. FilesTyped'
    BY <1>49 DEF Typed, SupRestartsOld, FilesTyped, Resume, RunTyped, SupTyped
  <2>3. RunTyped'
    BY <1>49 DEF Typed, SupRestartsOld, RunTyped, FilesTyped, Resume, Place,
           BackendPlace, InstallPlace, IdlePlace, Orchestrator
  <2>4. SupTyped'
    BY <1>49 DEF Typed, SupRestartsOld, SupTyped, SupPlace, Manifest, RunTyped
  <2>5. Placed'
    BY <1>49 DEF Typed, SupRestartsOld, Placed, PlaceFits, RestorePlace, SupTyped,
           RunTyped, FilesTyped, BackendPlace, InstallPlace, Orchestrator
  <2> QED BY <1>49, <2>1, <2>2, <2>3, <2>4, <2>5 DEF Typed, SupRestartsOld
<1>50. CASE SupGivesUp
  <2>1. StatusTyped'
    BY <1>50 DEF Typed, SupGivesUp, StatusTyped, TERMINAL_STATES, Orchestrator
  <2>2. FilesTyped'
    BY <1>50 DEF Typed, SupGivesUp, FilesTyped, Resume, NoResume, RunTyped, SupTyped
  <2>3. RunTyped'
    BY <1>50 DEF Typed, SupGivesUp, RunTyped, FilesTyped, Resume, NoResume, Place,
           BackendPlace, InstallPlace, IdlePlace, Orchestrator
  <2>4. SupTyped'
    BY <1>50 DEF Typed, SupGivesUp, SupTyped, SupPlace, Manifest, RunTyped
  <2>5. Placed'
    BY <1>50 DEF Typed, SupGivesUp, Placed, PlaceFits, RestorePlace, SupTyped, RunTyped,
           FilesTyped, BackendPlace, InstallPlace, Orchestrator
  <2> QED BY <1>50, <2>1, <2>2, <2>3, <2>4, <2>5 DEF Typed, SupGivesUp
<1>51. CASE SupRestoreFails
  <2>1. StatusTyped'
    BY <1>51 DEF Typed, SupRestoreFails, StatusTyped, TERMINAL_STATES, Orchestrator
  <2>2. FilesTyped'
    BY <1>51 DEF Typed, SupRestoreFails, FilesTyped, Resume, RunTyped, SupTyped
  <2>3. RunTyped'
    BY <1>51 DEF Typed, SupRestoreFails, RunTyped, FilesTyped, Resume, Place,
           BackendPlace, InstallPlace, IdlePlace, Orchestrator
  <2>4. SupTyped'
    BY <1>51 DEF Typed, SupRestoreFails, SupTyped, SupPlace, Manifest, RunTyped
  <2>5. Placed'
    BY <1>51 DEF Typed, SupRestoreFails, Placed, PlaceFits, RestorePlace, SupTyped,
           RunTyped, FilesTyped, BackendPlace, InstallPlace, Orchestrator
  <2> QED BY <1>51, <2>1, <2>2, <2>3, <2>4, <2>5 DEF Typed, SupRestoreFails
<1>52. CASE SupInterrupted
  <2>1. StatusTyped'
    BY <1>52 DEF Typed, SupInterrupted, StatusTyped, TERMINAL_STATES, Orchestrator
  <2>2. FilesTyped'
    BY <1>52 DEF Typed, SupInterrupted, FilesTyped, Resume, NoResume, RunTyped, SupTyped
  <2>3. RunTyped'
    BY <1>52 DEF Typed, SupInterrupted, RunTyped, FilesTyped, Resume, NoResume, Place,
           BackendPlace, InstallPlace, IdlePlace, Orchestrator
  <2>4. SupTyped'
    BY <1>52 DEF Typed, SupInterrupted, SupTyped, SupPlace, Manifest, RunTyped
  <2>5. Placed'
    BY <1>52 DEF Typed, SupInterrupted, Placed, PlaceFits, RestorePlace, SupTyped,
           RunTyped, FilesTyped, BackendPlace, InstallPlace, Orchestrator
  <2> QED BY <1>52, <2>1, <2>2, <2>3, <2>4, <2>5 DEF Typed, SupInterrupted
<1>53. CASE SupKilled
  <2>1. StatusTyped'
    BY <1>53 DEF Typed, SupKilled, StatusTyped, TERMINAL_STATES, Orchestrator
  <2>2. FilesTyped'
    BY <1>53 DEF Typed, SupKilled, FilesTyped, Resume, RunTyped, SupTyped
  <2>3. RunTyped'
    BY <1>53 DEF Typed, SupKilled, RunTyped, FilesTyped, Resume, Place, BackendPlace,
           InstallPlace, IdlePlace, Orchestrator
  <2>4. SupTyped'
    BY <1>53 DEF Typed, SupKilled, SupTyped, SupPlace, Manifest, RunTyped
  <2>5. Placed'
    BY <1>53 DEF Typed, SupKilled, Placed, PlaceFits, RestorePlace, SupTyped, RunTyped,
           FilesTyped, BackendPlace, InstallPlace, Orchestrator
  <2> QED BY <1>53, <2>1, <2>2, <2>3, <2>4, <2>5 DEF Typed, SupKilled
<1>54. CASE ClaimResumed
  <2>1. StatusTyped'
    BY <1>54 DEF Typed, ClaimResumed, StatusTyped, TERMINAL_STATES, Orchestrator
  <2>2. FilesTyped'
    BY <1>54 DEF Typed, ClaimResumed, FilesTyped, Resume, RunTyped, SupTyped
  <2>3. RunTyped'
    BY <1>54 DEF Typed, ClaimResumed, RunTyped, FilesTyped, Resume, Place, BackendPlace,
           InstallPlace, IdlePlace, Orchestrator
  <2>4. SupTyped'
    BY <1>54 DEF Typed, ClaimResumed, SupTyped, SupPlace, Manifest, RunTyped
  <2>5. Placed'
    BY <1>54 DEF Typed, ClaimResumed, Placed, PlaceFits, RestorePlace, SupTyped,
           RunTyped, FilesTyped, BackendPlace, InstallPlace, Orchestrator
  <2> QED BY <1>54, <2>1, <2>2, <2>3, <2>4, <2>5 DEF Typed, ClaimResumed
<1>55. CASE ResumedButDown
  <2>1. StatusTyped'
    BY <1>55 DEF Typed, ResumedButDown, StatusTyped, TERMINAL_STATES, Orchestrator
  <2>2. FilesTyped'
    BY <1>55 DEF Typed, ResumedButDown, FilesTyped, Resume, RunTyped, SupTyped
  <2>3. RunTyped'
    BY <1>55 DEF Typed, ResumedButDown, RunTyped, FilesTyped, Resume, Place,
           BackendPlace, InstallPlace, IdlePlace, Orchestrator
  <2>4. SupTyped'
    BY <1>55 DEF Typed, ResumedButDown, SupTyped, SupPlace, Manifest, RunTyped
  <2>5. Placed'
    BY <1>55 DEF Typed, ResumedButDown, Placed, PlaceFits, RestorePlace, SupTyped,
           RunTyped, FilesTyped, BackendPlace, InstallPlace, Orchestrator, BackendDown,
           RecoverFirst
  <2> QED BY <1>55, <2>1, <2>2, <2>3, <2>4, <2>5 DEF Typed, ResumedButDown
<1>56. CASE ShowQr
  <2>1. StatusTyped'
    BY <1>56 DEF Typed, ShowQr, StatusTyped, TERMINAL_STATES, Orchestrator
  <2>2. FilesTyped'
    BY <1>56 DEF Typed, ShowQr, FilesTyped, Resume, RunTyped, SupTyped
  <2>3. RunTyped'
    BY <1>56 DEF Typed, ShowQr, RunTyped, FilesTyped, Resume, Place, BackendPlace,
           InstallPlace, IdlePlace, Orchestrator
  <2>4. SupTyped'
    BY <1>56 DEF Typed, ShowQr, SupTyped, SupPlace, Manifest, RunTyped
  <2>5. Placed'
    BY <1>56 DEF Typed, ShowQr, Placed, PlaceFits, RestorePlace, SupTyped, RunTyped,
           FilesTyped, BackendPlace, InstallPlace, Orchestrator
  <2> QED BY <1>56, <2>1, <2>2, <2>3, <2>4, <2>5 DEF Typed, ShowQr
<1>57. ASSUME NEW m \in Orchestrator, BackUpFails(m) PROVE Typed'
  <2>1. StatusTyped'
    BY <1>57 DEF Typed, BackUpFails, StatusTyped, TERMINAL_STATES, Orchestrator
  <2>2. FilesTyped'
    BY <1>57 DEF Typed, BackUpFails, FilesTyped, Resume, RunTyped, SupTyped
  <2>3. RunTyped'
    BY <1>57, Moves DEF Typed, BackUpFails, Place, IdlePlace
  <2>4. SupTyped'
    BY <1>57 DEF Typed, BackUpFails, SupTyped, SupPlace, Manifest, RunTyped
  <2>5. Placed'
    BY <1>57 DEF Typed, BackUpFails, Placed, PlaceFits, RestorePlace, SupTyped, RunTyped,
           FilesTyped, BackendPlace, InstallPlace, Orchestrator
  <2> QED BY <1>57, <2>1, <2>2, <2>3, <2>4, <2>5 DEF Typed, BackUpFails
<1> QED BY <1>1, <1>2, <1>3, <1>4, <1>5, <1>6, <1>7, <1>8, <1>9, <1>10, <1>11, <1>12, <1>13,
    <1>14, <1>15, <1>16, <1>17, <1>18, <1>19, <1>20, <1>21, <1>22, <1>23, <1>24, <1>25,
    <1>26, <1>27, <1>28, <1>29, <1>30, <1>31, <1>32, <1>33, <1>34, <1>35, <1>36, <1>37,
    <1>38, <1>39, <1>40, <1>41, <1>42, <1>43, <1>44, <1>45, <1>46, <1>47, <1>48, <1>49,
    <1>50, <1>51, <1>52, <1>53, <1>54, <1>55, <1>56, <1>57 DEF Next, Works, Stops, SupWorks,
    SupStops, ResumedWorks, Rest

LEMMA InitTyped == Init => Typed
<1> SUFFICES ASSUME Init PROVE Typed
  OBVIOUS
<1>1. RunTyped
  BY RecordsTyped DEF Init, RunTyped, RunRecord
<1>2. StatusTyped /\ FilesTyped /\ SupTyped
  BY RecordsTyped
     DEF Init, InitFiles, StatusTyped, NoStatus, FilesTyped, SupTyped, Off, SupPlace,
         Manifest
<1>3. Placed
  BY DEF Init, Placed, PlaceFits, NotRunning, BackendPlace, RestorePlace,
         InstallPlace, At, SupAt, Off, Orchestrator
<1> QED BY <1>1, <1>2, <1>3 DEF Typed, Init, InitFiles

LEMMA TypedAlways == Spec => []Typed
BY InitTyped, TypedStep, PTL DEF Spec

\* Every file, process and history variable has its type, for any number of
\* terminals, commands and faults.
THEOREM TypeCorrect == Spec => []TypeOK
<1>1. Typed => TypeOK
  <2> SUFFICES ASSUME Typed PROVE TypeOK
    OBVIOUS
  <2>1. \A m \in Orchestrator : run[m].mem \in Resume /\ run[m].code \in {"ok", "err"}
    BY DEF Typed, RunTyped
  <2>2. sup.manifest \in {"none", "empty", "old", "partial", "new", "gone"}
    BY DEF Typed, SupTyped, Manifest
  <2> QED BY <2>1, <2>2 DEF Typed, StatusTyped, FilesTyped, TypeOK
<1> QED BY <1>1, TypedAlways, PTL

-----------------------------------------------------------------------------
(* One flight.  While no live owner was hidden and overlooked, a terminal    *)
(* that works is alone and, except while it takes a hand-over back, the one  *)
(* the status file names.                                                    *)

Undoing == {"remove", "copy", "clear"}
Working(m) == IF m = "child" THEN Resumed ELSE Claimed(m)
OthersStay(m) == \A n \in Orchestrator \ {m} : run'[n] = run[n]
Names == /\ status'.orch = status.orch /\ status'.sup = status.sup
         /\ Active(status) => Active(status')

\* Nobody but m moves, and m takes up no work it did not have.
Quiet(m) ==
    /\ OthersStay(m) /\ Names /\ UNCHANGED <<sup, gap>>
    /\ Working(m)' => Working(m)
    /\ At(m, "handed")' => At(m, "handed")
    /\ At("child", "claim")' => At("child", "claim")
    /\ Claimed(m)' /\ run'[m].at \notin Undoing => run[m].at \notin Undoing
    /\ run[m].at \in {"handed", "stopping"} => run'[m].at \in {"handed", "stopping"}

LEMMA Distinct ==
    /\ "child" \notin Terminal /\ "sup" \notin Terminal
    /\ "none" \notin Terminal /\ "dead" \notin Terminal
    /\ Terminal \subseteq Orchestrator /\ "child" \in Orchestrator
BY SetupConstants DEF Orchestrator

LEMMA QuietKeeps ==
    ASSUME Typed, Flight, NEW m \in Orchestrator, Quiet(m)
    PROVE  Flight'
<1> USE Distinct DEF Quiet, OthersStay, Names
<1>1. \A t \in Terminal : /\ Claimed(t)' => Claimed(t)
                          /\ Engaged(t)' => Engaged(t)
                          /\ At(t, "handed")' => At(t, "handed")
                          /\ Claimed(t)' /\ run'[t].at \notin Undoing =>
                                run[t].at \notin Undoing
  BY DEF Working, Engaged, Claimed, At, Orchestrator
<1>2. Resumed' => Resumed
  BY DEF Working, Resumed, Claimed, Orchestrator
<1>3. \A n \in Orchestrator : Registered(n) => Registered(n)'
  BY DEF Registered
<1>4. gap # "used" => Alone'
  BY <1>1, <1>2 DEF Flight, Alone, SupAt, At
<1>5. gap # "used" => Listed'
  <2> SUFFICES ASSUME gap # "used" PROVE Listed'
    OBVIOUS
  <2>1. ASSUME NEW t \in Terminal
        PROVE  /\ Claimed(t)' /\ run'[t].at \notin {"remove", "copy", "clear"}
                     => Registered(t)'
               /\ At(t, "handed")' /\ ~SupAt("off")' => Registered(t)'
               /\ Engaged(t)' /\ (gap' = "no" \/ At("child", "claim")') => Registered(t)'
    BY <1>1, <1>3 DEF Flight, Listed, SupAt, Undoing
  <2>2. gap' = "no" /\ sup'.at \notin {"off", "starting"} =>
            Active(status)' /\ status'.sup = "sup"
    BY DEF Flight, Listed
  <2>3. gap' = "no" /\ SupAt("starting")' => \E n \in Terminal :
            run'[n].at \in {"handed", "stopping"} /\ Registered(n)'
    BY <1>3 DEF Flight, Listed, SupAt
  <2>4. gap' = "no" /\ Resumed' => Registered("child")'
    BY <1>2, <1>3 DEF Flight, Listed
  <2> QED BY <2>1, <2>2, <2>3, <2>4 DEF Listed
<1> QED BY <1>4, <1>5 DEF Flight

LEMMA Phases ==
    ASSUME NEW mem \in Resume
    PROVE  PhaseOf(mem) \in {"backend", "install", "finish", "unlink"}
<1>1. mem.phase \in {0, 1, 2, 3}
  BY DEF Resume
<1>2. CASE mem.phase = 0
  BY <1>2 DEF PhaseOf
<1>3. CASE mem.phase = 1
  BY <1>3 DEF PhaseOf
<1>4. CASE mem.phase = 2
  BY <1>4 DEF PhaseOf
<1>5. CASE mem.phase = 3
  BY <1>5 DEF PhaseOf
<1> QED BY <1>1, <1>2, <1>3, <1>4, <1>5

QuietAction(m) ==
    \/ m \in Terminal /\ Begin(m)
    \/ ReadState(m) \/ FollowTimesOut(m) \/ Recover(m) \/ BackendUp(m) \/ Reuse(m)
    \/ BackUp(m) \/ BackUpFails(m) \/ EnableStarts(m) \/ EnableEnds(m)
    \/ EnableRecorded(m) \/ StillDown(m) \/ Choose(m) \/ InlineRestart(m)
    \/ Handoff(m) \/ Removes(m) \/ Copies(m)
    \/ ClearsAfter(m) \/ Adopt(m) \/ PersistDigest(m) \/ Render(m) \/ Own(m)
    \/ Finish(m) \/ Unlink(m) \/ RestoreFails(m) \/ Interrupt(m) \/ Confirm(m)
    \/ Mark(m)
    \/ m = "child" /\ (ResumedButDown \/ ShowQr)

LEMMA QuietActions ==
    ASSUME Typed, NEW m \in Orchestrator, QuietAction(m) PROVE Quiet(m)
<1> USE Distinct DEF Quiet, OthersStay, Names, Working, Resumed, Claimed, Undoing, Active,
    Running, TERMINAL_STATES, RunTyped, StatusTyped, At, Goto, Remember, Write, Outside,
    OnlyRun, Fault, ClearRestart, ghosts, files, BackendDown
<1>1. CASE m \in Terminal /\ Begin(m)
  BY <1>1 DEF Begin, Typed
<1>2. CASE ReadState(m)
  BY <1>2 DEF Typed, ReadState
<1>3. CASE FollowTimesOut(m)
  BY <1>3 DEF Typed, FollowTimesOut
<1>4. CASE Recover(m)
  BY <1>4 DEF Typed, Recover
<1>5. CASE BackendUp(m)
  BY <1>5 DEF Typed, BackendUp
<1>6. CASE Reuse(m)
  BY <1>6 DEF Typed, Reuse
<1>7. CASE BackUp(m)
  BY <1>7 DEF Typed, BackUp
<1>8. CASE EnableStarts(m)
  BY <1>8 DEF Typed, EnableStarts
<1>9. CASE EnableEnds(m)
  <2>1. PICK l \in {"enabled", "remove"} : Goto(m, l)
    BY <1>9 DEF EnableEnds
  <2>2. At(m, "enabling") /\ UNCHANGED <<status, sup, gap>>
    BY <1>9 DEF EnableEnds
  <2> QED BY <2>1, <2>2 DEF Typed
<1>10. CASE EnableRecorded(m)
  BY <1>10 DEF Typed, EnableRecorded
<1>11. CASE StillDown(m)
  BY <1>11 DEF Typed, StillDown
<1>12. CASE Choose(m)
  BY <1>12 DEF Typed, Choose
<1>13. CASE InlineRestart(m)
  BY <1>13 DEF Typed, InlineRestart
<1>14. CASE Handoff(m)
  BY <1>14 DEF Typed, Handoff
<1>15. CASE Removes(m)
  BY <1>15 DEF Typed, Removes
<1>16. CASE Copies(m)
  BY <1>16 DEF Typed, Copies
<1>17. CASE ClearsAfter(m)
  BY <1>17 DEF Typed, ClearsAfter
<1>18. CASE Adopt(m)
  BY <1>18 DEF Typed, Adopt
<1>19. CASE PersistDigest(m)
  BY <1>19 DEF Typed, PersistDigest
<1>20. CASE Render(m)
  BY <1>20 DEF Typed, Render
<1>21. CASE Own(m)
  BY <1>21 DEF Typed, Own
<1>22. CASE Finish(m)
  BY <1>22 DEF Typed, Finish
<1>23. CASE Unlink(m)
  BY <1>23 DEF Typed, Unlink
<1>24. CASE RestoreFails(m)
  BY <1>24 DEF Typed, RestoreFails
<1>25. CASE Interrupt(m)
  BY <1>25 DEF Typed, Interrupt
<1>26. CASE Confirm(m)
  <2>1. PICK mem \in Resume :
          \/ m = "child" /\ Remember(m, PhaseOf(mem), mem) /\ status' = Running(status)
          \/ m # "child" /\ Remember(m, "claim", mem) /\ UNCHANGED status
    BY <1>26, MemTyped, RecordsTyped DEF Confirm
  <2>2. PhaseOf(mem) \in {"backend", "install", "finish", "unlink"}
    BY Phases
  <2>3. At(m, "confirm") /\ UNCHANGED <<sup, gap>>
    BY <1>26 DEF Confirm
  <2> HIDE DEF Quiet
  <2>4. CASE m = "child" /\ Remember(m, PhaseOf(mem), mem) /\ status' = Running(status)
    BY <2>2, <2>3, <2>4 DEF Quiet, Typed
  <2>5. CASE m # "child" /\ Remember(m, "claim", mem) /\ UNCHANGED status
    BY <2>3, <2>5 DEF Quiet, Typed
  <2> QED BY <2>1, <2>4, <2>5
<1>27. CASE Mark(m)
  <2> DEFINE mem == [Mem(m) EXCEPT !.phase = @ + 1]
  <2>1. Mem(m).phase \in 0 .. 2
    BY <1>27 DEF Mark, Typed, Placed, PlaceFits
  <2>2. PhaseOf(mem) \in {"backend", "install", "finish", "unlink"}
    BY <2>1, MemTyped, RecordsTyped, Phases
  <2>3. At(m, "mark") /\ Remember(m, PhaseOf(mem), mem) /\ status' = Running(status)
        /\ UNCHANGED <<sup, gap>>
    BY <1>27 DEF Mark
  <2> HIDE DEF mem
  <2> QED BY <2>2, <2>3 DEF Typed
<1>28. CASE m = "child" /\ ResumedButDown
  BY <1>28 DEF ResumedButDown, Typed
<1>29. CASE m = "child" /\ ShowQr
  BY <1>29 DEF ShowQr, Typed
<1>30. CASE BackUpFails(m)
  BY <1>30 DEF Typed, BackUpFails
<1> QED BY <1>1, <1>2, <1>3, <1>4, <1>5, <1>6, <1>7, <1>8, <1>9, <1>10, <1>11, <1>12, <1>13,
    <1>14, <1>15, <1>16, <1>17, <1>18, <1>19, <1>20, <1>21, <1>22, <1>23, <1>24, <1>25,
    <1>26, <1>27, <1>28, <1>29, <1>30 DEF QuietAction

\* m exits or is thrown out of its work; a working process can be ended by its
\* supervisor or parent.
Free(m) == ~Working(m) /\ ~At(m, "handed")

LEMMA ClaimKeeps ==
    ASSUME Typed, Flight, gap' # "used", NEW m \in Orchestrator, Claim(m)
    PROVE  Flight'
<1> USE Distinct
<1>1. m \in Terminal /\ At(m, "claim") /\ UNCHANGED <<sup>> /\ OthersStay(m) /\ m # "child"
  BY DEF Claim, Outside, Goto, OthersStay, Typed, RunTyped
<1>2. CASE ~MayClaim(m)
  <2>1. Quiet(m)
    BY <1>1, <1>2 DEF Claim, ghosts, Outside, Goto, Quiet, Working, Names, Resumed, Claimed,
                      At, OthersStay, Undoing, Typed, RunTyped
  <2> QED BY <2>1, QuietKeeps
<1>3. CASE MayClaim(m)
  <2>1. gap = "no" /\ gap' = "no"
    BY <1>3 DEF Claim, Typed, FilesTyped
  <2>2. Alone /\ Listed
    BY <2>1 DEF Flight
  <2>3. ~Busy(status)
    BY <1>3 DEF MayClaim
  <2>4. \A t \in Terminal : ~Engaged(t)
    BY <2>1, <2>2, <2>3 DEF Listed, Registered, Busy, Live
  <2>5. ~Resumed
    BY <2>1, <2>2, <2>3 DEF Listed, Registered, Busy, Live
  <2>6. SupAt("off")
    BY <2>1, <2>2, <2>3 DEF Listed, Registered, Busy, Live, SupAt
  <2>7. Registered(m)' /\ status'.sup = status.sup
    BY <1>3 DEF Claim, Registered, Active, TERMINAL_STATES, Typed, StatusTyped
  <2>8. \A t \in Terminal : Engaged(t)' => t = m
    BY <1>1, <2>4 DEF OthersStay, Engaged, Claimed, At
  <2>9. ~Resumed'
    BY <1>1, <2>5 DEF OthersStay, Resumed, Claimed
  <2>10. Alone'
    BY <1>1, <2>6, <2>8, <2>9 DEF Alone, SupAt, At, Resumed, OthersStay
  <2>11. Listed'
    BY <1>1, <2>6, <2>7, <2>8, <2>9 DEF Listed, SupAt, Engaged
  <2> QED BY <1>1, <2>1, <2>7, <2>10, <2>11 DEF Flight
<1> QED BY <1>2, <1>3

LEMMA ClaimResumedKeeps ==
    ASSUME Typed, Flight, gap' # "used", ClaimResumed
    PROVE  Flight'
<1> USE Distinct
<1>1. At("child", "claim") /\ UNCHANGED sup /\ OthersStay("child") /\ gap # "used"
      /\ run'["child"].at \in {"read", "follow"}
  BY DEF ClaimResumed, Outside, Goto, OthersStay, Typed, RunTyped
<1>2. Alone /\ Listed
  BY <1>1 DEF Flight
<1>3. status'.sup = status.sup /\ (Active(status) <=> Active(status'))
  BY DEF ClaimResumed, Active, Typed, StatusTyped
<1>4. \A t \in Terminal : /\ Claimed(t)' <=> Claimed(t)
                          /\ Engaged(t)' <=> Engaged(t)
                          /\ run'[t] = run[t]
  BY <1>1 DEF OthersStay, Engaged, Claimed, At
<1>5. CASE Active(status) /\ ~Yields
  <2>1. Registered("child")' /\ gap' = gap
    BY <1>3, <1>5 DEF ClaimResumed, Registered, Typed, StatusTyped
  <2>2. \A t \in Terminal : ~Engaged(t)
    BY <1>1, <1>2, <1>5 DEF Listed, Registered, Yields
  <2>3. Alone'
    BY <1>1, <1>2, <1>4, <2>2 DEF Alone, SupAt, Engaged
  <2>4. Listed'
    BY <1>1, <1>2, <1>3, <1>4, <1>5, <2>1, <2>2
       DEF Listed, SupAt, Engaged, Registered, Yields
  <2> QED BY <1>1, <1>3, <2>3, <2>4 DEF Flight
<1>6. CASE Active(status) /\ Yields
  <2>1. Quiet("child")
    BY <1>1, <1>6
       DEF ClaimResumed, Quiet, Names, Working, Resumed, Claimed, At, Goto, Undoing,
           Typed, RunTyped
  <2> QED BY <2>1, QuietKeeps
<1>7. CASE ~Active(status)
  <2>1. gap' = "hidden" /\ status' = status
    BY <1>1, <1>7 DEF ClaimResumed, Typed, FilesTyped
  <2>2. \A t \in Terminal : ~Engaged(t)
    BY <1>1, <1>2, <1>7 DEF Listed, Registered
  <2>3. Alone'
    BY <1>1, <1>2, <1>4, <2>2 DEF Alone, SupAt, Engaged
  <2>4. Listed'
    BY <1>1, <1>4, <2>1, <2>2 DEF Listed, Engaged, At
  <2> QED BY <1>1, <1>3, <2>3, <2>4 DEF Flight
<1> QED BY <1>5, <1>6, <1>7

\* m ends, and its pair may go from the status file.
LEMMA DepartKeeps ==
    ASSUME Typed, Flight, gap' # "used", NEW m \in Orchestrator,
           At(m, "off")', OthersStay(m), UNCHANGED sup,
           status'.sup = status.sup, Active(status) <=> Active(status'),
           status.orch # m => status'.orch = status.orch,
           gap' = gap \/ (gap = "no" /\ gap' = "hidden"),
           gap' = "no" /\ SupAt("starting") => ~Registered(m)
    PROVE  Flight'
<1> USE Distinct
<1>1. CASE gap = "used"
  BY <1>1 DEF Flight
<1>2. CASE gap # "used"
  <2>1. Alone /\ Listed
    BY <1>2 DEF Flight
  <2>2. \A t \in Terminal : Engaged(t)' => Engaged(t) /\ t # m /\ run'[t] = run[t]
    BY DEF Engaged, Claimed, At, OthersStay
  <2>3. Resumed' => Resumed /\ m # "child"
    BY DEF Resumed, Claimed, At, OthersStay
  <2>4. At("child", "claim")' => At("child", "claim")
    BY DEF At, OthersStay
  <2>5. \A n \in Orchestrator \ {m} : Registered(n) => Registered(n)'
    BY DEF Registered
  <2>6. Alone'
    BY <2>1, <2>2, <2>3, <2>4 DEF Alone, SupAt, Engaged, Claimed
  <2>7. ASSUME NEW t \in Terminal
        PROVE  /\ Claimed(t)' /\ run'[t].at \notin {"remove", "copy", "clear"}
                     => Registered(t)'
               /\ At(t, "handed")' /\ ~SupAt("off")' => Registered(t)'
               /\ Engaged(t)' /\ (gap' = "no" \/ At("child", "claim")') => Registered(t)'
    BY <1>2, <2>1, <2>2, <2>4, <2>5 DEF Listed, SupAt, Engaged, Claimed, At
  <2>8. gap' = "no" /\ sup'.at \notin {"off", "starting"} =>
            Active(status)' /\ status'.sup = "sup"
    BY <2>1 DEF Listed
  <2>9. gap' = "no" /\ SupAt("starting")' => \E n \in Terminal :
            run'[n].at \in {"handed", "stopping"} /\ Registered(n)'
    BY <2>1, <2>5 DEF Listed, SupAt, OthersStay
  <2>10. gap' = "no" /\ Resumed' => Registered("child")'
    BY <2>1, <2>3, <2>5 DEF Listed
  <2> QED BY <2>6, <2>7, <2>8, <2>9, <2>10 DEF Flight, Listed
<1> QED BY <1>1, <1>2

LEMMA ExitLeaves ==
    ASSUME Typed, NEW m \in Orchestrator, NEW c, Exit(m, c)
    PROVE  At(m, "off")' /\ OthersStay(m)
BY DEF Typed, RunTyped, Exit, At, OthersStay, NotRunning

LEMMA FollowEndsKeeps ==
    ASSUME Typed, Flight, gap' # "used", NEW m \in Orchestrator, FollowEnds(m)
    PROVE  Flight'
<1>1. \E c \in {"ok", "err"} : Leave(m, c)
  BY DEF FollowEnds
<1>2. At(m, "off")' /\ OthersStay(m) /\ UNCHANGED <<sup, gap>>
  BY <1>1, ExitLeaves DEF Leave, Outside, ghosts
<1>3. /\ status'.sup = status.sup /\ (Active(status) <=> Active(status'))
      /\ status.orch # m => status'.orch = status.orch
  BY <1>1 DEF Leave, Typed, StatusTyped, Active
<1>4. gap = "no" /\ SupAt("starting") => ~Registered(m)
  BY DEF Flight, Listed, Registered, FollowEnds, At
<1> QED BY <1>2, <1>3, <1>4, DepartKeeps

LEMMA HandedOverKeeps ==
    ASSUME Typed, Flight, gap' # "used", NEW m \in Orchestrator, HandedOver(m)
    PROVE  Flight'
<1>1. Leave(m, "ok")
  BY DEF HandedOver
<1>2. At(m, "off")' /\ OthersStay(m) /\ UNCHANGED <<sup, gap>>
  BY <1>1, ExitLeaves DEF Leave, Outside, ghosts
<1>3. /\ status'.sup = status.sup /\ (Active(status) <=> Active(status'))
      /\ status.orch # m => status'.orch = status.orch
  BY <1>1 DEF Leave, Typed, StatusTyped, Active
<1>4. SupAt("starting") => ~Registered(m)
  BY <1>2 DEF HandedOver, Confirmed, Flight, Registered, Active, TERMINAL_STATES, SupAt
<1> QED BY <1>2, <1>3, <1>4, DepartKeeps

LEMMA KillKeeps ==
    ASSUME Typed, Flight, gap' # "used", NEW m \in Orchestrator, Kill(m)
    PROVE  Flight'
<1>1. At(m, "off")' /\ OthersStay(m) /\ UNCHANGED sup
  BY ExitLeaves DEF Kill
<1>2. /\ status'.sup = status.sup /\ (Active(status) <=> Active(status'))
      /\ status.orch # m => status'.orch = status.orch
  BY Distinct DEF Kill, Gone, Typed, StatusTyped, Active, Orchestrator
<1>3. gap' = gap \/ (gap = "no" /\ gap' = "hidden")
  BY DEF Kill
<1>4. gap' = "no" => ~SupAt("starting")
  BY DEF Kill, Typed, FilesTyped
<1> QED BY <1>1, <1>2, <1>3, <1>4, DepartKeeps

LEMMA StampKeeps ==
    ASSUME Typed, Flight, gap' # "used", NEW m \in Orchestrator,
           NEW state \in TERMINAL_STATES, NEW c, Exit(m, c), Stamp(m, state),
           MayStamp(m) \/ Working(m), run[m].at \in {"done", "failing", "stopping"}
    PROVE  Flight'
<1> USE Distinct
<1>1. gap # "used" /\ UNCHANGED sup /\ status'.sup = "none"
  BY DEF Stamp, Outside, Ended, NoStatus
<1>2. Alone /\ Listed
  BY <1>1 DEF Flight
<1>3. At(m, "off")' /\ OthersStay(m)
  BY ExitLeaves
<1>4. \A t \in Terminal : Engaged(t)' => Engaged(t) /\ t # m /\ run'[t] = run[t]
  BY <1>3 DEF Engaged, Claimed, At, OthersStay
<1>5. Resumed' => Resumed /\ m # "child"
  BY <1>3 DEF Resumed, Claimed, At, OthersStay
<1>6. At("child", "claim")' => At("child", "claim")
  BY <1>3 DEF At, OthersStay
<1>7. \A t \in Terminal : Engaged(t)' => ~Registered(t)
  BY <1>2, <1>4 DEF MayStamp, Registered, Working, Alone, Engaged, Orchestrator
<1>8. Resumed' => ~Registered("child")
  BY <1>2, <1>5 DEF MayStamp, Registered, Working, Alone, Engaged, Orchestrator
<1>9. gap' = "no" => SupAt("off") /\ (gap = "no" \/ ~Unlisted(m))
  BY DEF Stamp
<1>10. gap' = "no" => \A t \in Terminal : ~Engaged(t)'
  <2> SUFFICES ASSUME gap' = "no", NEW t \in Terminal, Engaged(t)' PROVE FALSE
    OBVIOUS
  <2>1. ~Registered(t) /\ Engaged(t)
    BY <1>4, <1>7
  <2>2. gap # "no" /\ ~Unlisted(m)
    BY <1>2, <1>9, <2>1 DEF Listed
  <2>3. run[t].at \notin {"handed", "remove", "copy", "clear"}
    BY <2>2 DEF Unlisted
  <2> QED BY <1>2, <2>1, <2>3 DEF Listed, Engaged, At
<1>11. gap' = "no" => ~Resumed'
  <2> SUFFICES ASSUME gap' = "no", Resumed' PROVE FALSE
    OBVIOUS
  <2>1. ~Registered("child") /\ Resumed /\ m # "child"
    BY <1>5, <1>8
  <2>2. ~Unlisted(m)
    BY <1>2, <1>9, <2>1 DEF Listed
  <2> QED BY <2>1, <2>2 DEF Unlisted, Resumed, Claimed
<1>12. Alone'
  BY <1>1, <1>2, <1>4, <1>5, <1>6 DEF Alone, SupAt, Engaged, Claimed
<1>13. ASSUME NEW t \in Terminal
       PROVE  /\ Claimed(t)' /\ run'[t].at \notin {"remove", "copy", "clear"}
                    => Registered(t)'
              /\ At(t, "handed")' /\ ~SupAt("off")' => Registered(t)'
              /\ Engaged(t)' /\ (gap' = "no" \/ At("child", "claim")') => Registered(t)'
  BY <1>1, <1>2, <1>4, <1>6, <1>7, <1>10 DEF Listed, Engaged, Claimed, At, SupAt
<1> QED BY <1>1, <1>9, <1>11, <1>12, <1>13 DEF Flight, Listed, SupAt

LEMMA RecordTerminalKeeps ==
    ASSUME Typed, Flight, gap' # "used", NEW m \in Orchestrator, RecordTerminal(m)
    PROVE  Flight'
<1>1. CASE MayStamp(m)
  <2>1. PICK state \in TERMINAL_STATES : Stamp(m, state)
    BY <1>1 DEF RecordTerminal, TERMINAL_STATES
  <2> QED BY <1>1, <2>1, StampKeeps DEF RecordTerminal
<1>2. CASE ~MayStamp(m)
  <2>1. At(m, "off")' /\ OthersStay(m)
    BY ExitLeaves DEF RecordTerminal
  <2>2. UNCHANGED <<status, gap, sup>>
    BY <1>2 DEF RecordTerminal, files, ghosts
  <2>3. ~Registered(m)
    BY <1>2 DEF MayStamp, Registered
  <2> QED BY <2>1, <2>2, <2>3, DepartKeeps
<1> QED BY <1>1, <1>2

LEMMA SucceedKeeps ==
    ASSUME Typed, Flight, gap' # "used", NEW m \in Orchestrator, Succeed(m)
    PROVE  Flight'
<1>1. Working(m)
  BY DEF Succeed, Working, Resumed, Claimed, At
<1>2. "succeeded" \in TERMINAL_STATES
  BY DEF TERMINAL_STATES
<1> QED BY <1>1, <1>2, StampKeeps DEF Succeed, At

LEMMA SpawnKeeps ==
    ASSUME Typed, Flight, gap' # "used", NEW m \in Orchestrator, Spawn(m)
    PROVE  Flight'
<1> USE Distinct
<1>1. At(m, "spawn") /\ m # "child" /\ m \in Terminal /\ ~At("child", "claim")
  BY DEF Spawn, At, Typed, Placed, BackendPlace, Orchestrator
<1>2. UNCHANGED <<status, gap>> /\ OthersStay(m)
  BY DEF Spawn, files, ghosts, Goto, OthersStay, Typed, RunTyped
<1>3. CASE At(m, "remove")' /\ UNCHANGED sup
  <2>1. Quiet(m)
    BY <1>1, <1>2, <1>3
       DEF Quiet, Names, Working, Resumed, Claimed, At, Undoing, OthersStay
  <2> QED BY <2>1, QuietKeeps
<1>4. CASE At(m, "handed")' /\ SupAt("starting")'
  <2>1. Alone /\ Listed /\ Engaged(m) /\ Registered(m)
    BY <1>1, <1>2 DEF Flight, Listed, Engaged, Claimed, At
  <2>2. ~Resumed' /\ ~At("child", "claim")'
    BY <1>1, <1>2, <2>1 DEF Alone, Resumed, Claimed, At, OthersStay
  <2>3. ASSUME NEW t \in Terminal, Engaged(t)', t # m PROVE FALSE
    <3>1. Engaged(t)
      BY <1>2, <2>3 DEF Engaged, Claimed, At, OthersStay
    <3> QED BY <2>1, <2>3, <3>1, <1>1 DEF Alone
  <2>4. Registered(m)'
    BY <1>2, <2>1 DEF Registered
  <2>5. Alone'
    BY <1>4, <2>2, <2>3 DEF Alone, Claimed, Engaged, At
  <2>6. Listed'
    BY <1>1, <1>4, <2>2, <2>3, <2>4 DEF Listed, Engaged, Claimed, At, SupAt
  <2>7. status'.sup # "sup"
    BY <1>1, <1>2, <2>1 DEF Flight, Alone, Claimed, At, SupAt
  <2> QED BY <2>5, <2>6, <2>7 DEF Flight
<1>5. (At(m, "remove")' /\ UNCHANGED sup) \/ (At(m, "handed")' /\ SupAt("starting")')
  <2>1. Goto(m, "handed") => At(m, "handed")'
    BY DEF Goto, At, Typed, RunTyped
  <2>2. Goto(m, "remove") => At(m, "remove")'
    BY DEF Goto, At, Typed, RunTyped
  <2>3. \A c : [Off EXCEPT !.at = "starting", !.manifest = c].at = "starting"
    BY DEF Off
  <2> QED BY <2>1, <2>2, <2>3 DEF Spawn, SupAt
<1> QED BY <1>3, <1>4, <1>5

\* The supervisor records a state while it lives.
LEMMA PublishKeeps ==
    ASSUME Typed, Flight, gap' # "used", ~SupAt("off"),
           sup'.at \notin {"off", "starting"},
           Active(status'), status'.sup = "sup",
           gap' = "no" \/ gap' = gap,
           ~Resumed', ~At("child", "claim")',
           \A n \in Orchestrator : run'[n] = run[n] \/ At(n, "off")',
           \A t \in Terminal : Registered(t) /\ ~At(t, "off")' => status'.orch = t,
           gap # "used"
    PROVE  Flight'
<1> USE Distinct
<1>1. Alone /\ Listed
  BY DEF Flight
<1>2. \A t \in Terminal : Engaged(t)' => Engaged(t) /\ run'[t] = run[t] /\ At(t, "handed")
  BY <1>1 DEF Engaged, Claimed, At, Alone
<1>3. \A t \in Terminal : Engaged(t)' => Registered(t)'
  BY <1>1, <1>2 DEF Listed, Registered, At
<1>4. Alone'
  BY <1>1, <1>2 DEF Alone, Engaged, Claimed, At
<1>5. Listed'
  BY <1>3 DEF Listed, Engaged, SupAt
<1> QED BY <1>4, <1>5 DEF Flight

\* The supervisor ends and records it; who waited for it takes its change back.
LEMMA ConcludeKeeps ==
    ASSUME Typed, Flight, gap' # "used", ~SupAt("off"),
           NEW state \in TERMINAL_STATES, Conclude(state),
           ~Resumed', ~At("child", "claim")',
           \A n \in Orchestrator : \/ run'[n] = run[n] \/ At(n, "off")'
                                   \/ At(n, "handed") /\ At(n, "remove")'
    PROVE  Flight'
<1> USE Distinct
<1>1. gap # "used" /\ SupAt("off")' /\ status'.sup = "none"
  BY DEF Conclude, SupAt, Off, Ended, NoStatus
<1>2. Alone /\ Listed
  BY <1>1 DEF Flight
<1>3. \A t \in Terminal : Engaged(t)' =>
          /\ At(t, "handed")
          /\ Claimed(t)' => At(t, "remove")'
  BY <1>2 DEF Engaged, Claimed, At, Alone
<1>4. gap' = "no" => \A t \in Terminal : ~Engaged(t)'
  BY <1>3 DEF Conclude, ParentWaits, At
<1>5. Alone'
  BY <1>1, <1>2, <1>3 DEF Alone, Engaged
<1>6. Listed'
  BY <1>1, <1>3, <1>4 DEF Listed, Engaged, At, SupAt
<1> QED BY <1>1, <1>5, <1>6 DEF Flight, SupAt

LEMMA HandoffTimesOutKeeps ==
    ASSUME Typed, Flight, gap' # "used", NEW m \in Orchestrator, HandoffTimesOut(m)
    PROVE  Flight'
<1> USE Distinct
<1>1. At(m, "handed") /\ m \in Terminal /\ m # "child"
  BY DEF HandoffTimesOut, At, Typed, Placed, BackendPlace, Orchestrator
<1>2. CASE SupAt("off")
  <2>1. UNCHANGED <<status, sup, gap>> /\ Goto(m, "remove")
    BY <1>2 DEF HandoffTimesOut
  <2>2. OthersStay(m) /\ run'[m].at = "remove"
    BY <2>1 DEF Goto, OthersStay, Typed, RunTyped
  <2>3. CASE gap # "used"
    <3>1. Alone /\ Listed /\ Engaged(m)
      BY <1>1, <2>3 DEF Flight, Engaged
    <3>2. \A t \in Terminal : Engaged(t)' <=> Engaged(t)
      BY <1>1, <2>2 DEF Engaged, Claimed, At, OthersStay
    <3>3. (Resumed' <=> Resumed) /\ (At("child", "claim")' <=> At("child", "claim"))
      BY <1>1, <2>2 DEF Resumed, Claimed, At, OthersStay
    <3>4. Alone'
      BY <1>2, <2>1, <3>1, <3>2, <3>3 DEF Alone, SupAt
    <3>5. Listed'
      BY <1>1, <1>2, <2>1, <2>2, <3>1, <3>2, <3>3
         DEF Listed, SupAt, Engaged, Claimed, At, OthersStay, Registered
    <3> QED BY <2>1, <3>4, <3>5 DEF Flight
  <2> QED BY <2>1, <2>3 DEF Flight
<1>3. CASE ~SupAt("off")
  <2>1. Conclude("interrupted")
        /\ run' = [run EXCEPT !["child"] = NotRunning, ![m].at = "remove"]
    BY <1>3 DEF HandoffTimesOut, StopsSupervisor
  <2>2. At("child", "off")' /\ At(m, "remove")'
        /\ \A n \in Orchestrator \ {m, "child"} : run'[n] = run[n]
    BY <1>1, <2>1 DEF Typed, RunTyped, At, NotRunning
  <2>3. "interrupted" \in TERMINAL_STATES
    BY DEF TERMINAL_STATES
  <2> QED BY <1>1, <1>3, <2>1, <2>2, <2>3, ConcludeKeeps DEF Resumed, Claimed, At
<1> QED BY <1>2, <1>3

\* The supervisor goes on, and nobody else does.
LEMMA SupMovesKeeps ==
    ASSUME Typed, Flight, UNCHANGED <<run, status, gap>>,
           sup.at \notin {"off", "starting", "watching"},
           sup'.at \notin {"off", "starting", "watching"}
    PROVE  Flight'
BY DEF Flight, Alone, Listed, Engaged, Resumed, Registered, Claimed, At, SupAt

LEMMA SupResumesKeeps ==
    ASSUME Typed, Flight, SupResumes PROVE Flight'
<1> USE Distinct
<1>1. UNCHANGED <<status, gap>> /\ SupAt("resuming") /\ SupAt("watching")'
      /\ OthersStay("child") /\ At("child", "claim")'
  BY DEF SupResumes, files, ghosts, SupGoto, SupAt, OthersStay, At, NotRunning,
         Typed, RunTyped, SupTyped
<1>2. CASE gap # "used"
  <2>1. Alone /\ Listed
    BY <1>2 DEF Flight
  <2>2. \A t \in Terminal : Engaged(t)' => Engaged(t) /\ At(t, "handed") /\ At(t, "handed")'
    BY <1>1, <2>1 DEF Engaged, Claimed, At, OthersStay, Alone, SupAt
  <2>3. \A t \in Terminal : Engaged(t)' => Registered(t)'
    BY <1>1, <2>1, <2>2 DEF Listed, Registered, SupAt
  <2>4. ~Resumed'
    BY <1>1 DEF Resumed, Claimed, At
  <2>5. Alone'
    BY <1>1, <2>1, <2>2, <2>4 DEF Alone, SupAt, Claimed, Engaged, At
  <2>6. Listed'
    BY <1>1, <2>1, <2>3, <2>4 DEF Listed, SupAt, Engaged, Active
  <2> QED BY <1>1, <1>2, <2>5, <2>6 DEF Flight, SupAt
<1> QED BY <1>1, <1>2 DEF Flight, SupAt

LEMMA SupKilledKeeps ==
    ASSUME Typed, Flight, SupKilled PROVE Flight'
<1> USE Distinct
<1>1. UNCHANGED <<run, gap>> /\ SupAt("off")' /\ status'.sup # "sup"
  BY DEF SupKilled, ghosts, Gone, SupAt, Off, Typed, StatusTyped
<1>2. status'.orch = status.orch /\ (Active(status) <=> Active(status'))
  BY DEF SupKilled, Gone, Typed, StatusTyped, Active, Orchestrator
<1>3. gap # "used" => Alone'
  BY <1>1 DEF Flight, Alone, SupAt, Claimed, Engaged, At, Resumed
<1>4. gap # "used" => Listed'
  BY <1>1, <1>2 DEF Flight, Listed, SupAt, Claimed, Engaged, At, Resumed, Registered
<1> QED BY <1>1, <1>3, <1>4 DEF Flight

\* The child is off while the supervisor is elsewhere than at the wait for it.
LEMMA ChildAway ==
    ASSUME Typed, Flight, gap # "used", sup.at \notin {"off", "watching"}
    PROVE  ~Resumed /\ ~At("child", "claim")
BY DEF Flight, Alone

SupPublishes == \/ SupRegisters \/ SupReady \/ SupHealthy \/ SupRestarts
                \/ SupRollsBack \/ SupGivesUp

LEMMA SupPublishesKeeps ==
    ASSUME Typed, Flight, gap' # "used", SupPublishes PROVE Flight'
<1> USE Distinct
<1>1. /\ ~SupAt("off") /\ sup'.at \notin {"off", "starting"}
      /\ gap # "used" => gap' = "no" \/ gap' = gap
      /\ gap = "used" => gap' = "used"
  BY DEF SupPublishes, SupRegisters, SupReady, SupHealthy, SupRestarts, SupRollsBack,
         SupGivesUp, Roll, Publish, SupGoto, SupAt, ChildFailed, Typed, SupTyped,
         FilesTyped
<1>2. status'.sup = "sup"
  BY DEF SupPublishes, SupRegisters, SupReady, SupHealthy, SupRestarts, SupRollsBack,
         SupGivesUp, Roll, Publish, Gone, Typed, StatusTyped
<1>3. Active(status')
  BY DEF SupPublishes, SupRegisters, SupReady, SupHealthy, SupRestarts, SupRollsBack,
         SupGivesUp, Roll, RollbackState, Publish, Gone, Typed, StatusTyped, Active,
         TERMINAL_STATES
<1>4. \A n \in Orchestrator : run'[n] = run[n] \/ At(n, "off")'
  <2>1. run' = run \/ \E t \in Orchestrator : run' = [run EXCEPT ![t] = NotRunning]
    BY DEF SupPublishes, SupRegisters, SupReady, SupHealthy, SupRestarts, SupRollsBack,
           SupGivesUp, StatusOnly
  <2> QED BY <2>1, OneEnds DEF Typed, At
<1>5. \A t \in Terminal : Registered(t) /\ ~At(t, "off")' => status'.orch = t
  <2>1. \/ status'.orch = status.orch
        \/ \E n \in Orchestrator : run' = [run EXCEPT ![n] = NotRunning]
                                   /\ status'.orch = Gone(status, n).orch
    BY DEF SupPublishes, SupRegisters, SupReady, SupHealthy, SupRestarts, SupRollsBack,
           SupGivesUp, Roll, Publish, Gone, Typed, StatusTyped
  <2>2. ASSUME NEW n \in Orchestrator, run' = [run EXCEPT ![n] = NotRunning],
               status'.orch = Gone(status, n).orch
        PROVE  At(n, "off")' /\ (status.orch # n => status'.orch = status.orch)
    BY <2>2 DEF Gone, Typed, StatusTyped, RunTyped, At, NotRunning
  <2> QED BY <2>1, <2>2 DEF Registered
<1>6. ~Resumed' /\ ~At("child", "claim")'
  <2>1. CASE sup.at \notin {"off", "watching"}
    <3>1. ~Resumed /\ ~At("child", "claim")
      BY <1>1, <2>1, ChildAway
    <3> QED BY <1>4, <3>1 DEF Resumed, Claimed, At
  <2>2. CASE At("child", "off")'
    BY <2>2 DEF Resumed, Claimed, At
  <2>3. SupAt("watching") => At("child", "off")'
    BY DEF SupPublishes, SupRegisters, SupReady, SupHealthy, SupRestarts, SupRollsBack,
           SupGivesUp, StatusOnly, Typed, RunTyped, At, NotRunning, SupAt, ChildFailed
  <2> QED BY <1>1, <2>1, <2>2, <2>3 DEF SupAt
<1> QED BY <1>1, <1>2, <1>3, <1>4, <1>5, <1>6, PublishKeeps

SupConcludes == \/ SupSucceeds \/ SupKeepsEnable \/ SupAborted \/ SupRestartsOld
                \/ SupRestoreFails \/ SupInterrupted

LEMMA SupConcludesKeeps ==
    ASSUME Typed, Flight, gap' # "used", SupConcludes PROVE Flight'
<1> USE Distinct
<1>1. PICK state \in TERMINAL_STATES : Conclude(state)
  BY DEF SupConcludes, SupSucceeds, SupKeepsEnable, SupAborted, SupRestartsOld,
         SupRestoreFails, SupInterrupted, RollbackEnd, TERMINAL_STATES
<1>2. ~SupAt("off") /\ gap # "used"
  BY <1>1 DEF SupConcludes, SupSucceeds, SupKeepsEnable, SupAborted, SupRestartsOld,
         SupRestoreFails, SupInterrupted, SupAt, Conclude
<1>3. \A n \in Orchestrator : run'[n] = run[n] \/ At(n, "off")'
  <2>1. run' = run \/ \E t \in Orchestrator : run' = [run EXCEPT ![t] = NotRunning]
    BY DEF SupConcludes, SupSucceeds, SupKeepsEnable, SupAborted, SupRestartsOld,
           SupRestoreFails, SupInterrupted, StatusOnly
  <2> QED BY <2>1, OneEnds DEF Typed, At
<1>4. ~Resumed' /\ ~At("child", "claim")'
  <2>1. CASE sup.at \notin {"off", "watching"}
    <3>1. ~Resumed /\ ~At("child", "claim")
      BY <1>2, <2>1, ChildAway
    <3> QED BY <1>3, <3>1 DEF Resumed, Claimed, At
  <2>2. SupAt("watching") => At("child", "off")'
    BY DEF SupConcludes, SupSucceeds, SupKeepsEnable, SupAborted, SupRestartsOld,
           SupRestoreFails, SupInterrupted, StatusOnly, Typed, RunTyped, At, NotRunning,
           SupAt
  <2> QED BY <1>2, <2>1, <2>2 DEF SupAt, Resumed, Claimed, At
<1> QED BY <1>1, <1>2, <1>3, <1>4, ConcludeKeeps

SupMoves == SupRefuses \/ SupRemoves \/ SupCopies

\* The actions by what they do to the flight.
LEMMA ByEffect ==
    ASSUME [Next]_vars
    PROVE  \/ UNCHANGED vars
           \/ \E m \in Orchestrator :
                 \/ QuietAction(m) \/ Claim(m) \/ FollowEnds(m) \/ HandedOver(m)
                 \/ HandoffTimesOut(m) \/ Spawn(m) \/ Succeed(m)
                 \/ RecordTerminal(m) \/ Kill(m)
           \/ ClaimResumed \/ SupResumes \/ SupKilled
           \/ SupMoves \/ SupPublishes \/ SupConcludes
<1> USE Distinct
<1>1. CASE UNCHANGED vars
  BY <1>1
<1>2. CASE Rest
  BY <1>2 DEF Rest
<1>3. CASE SupWorks \/ SupStops
  BY <1>3 DEF SupWorks, SupStops, SupMoves, SupPublishes, SupConcludes
<1>4. CASE ResumedWorks \/ ShowQr
  BY <1>4 DEF ResumedWorks, QuietAction
<1>5. ASSUME NEW m \in Orchestrator, Begin(m)
      PROVE  QuietAction(m)
  BY <1>5 DEF Begin, QuietAction
<1>6. ASSUME NEW m \in Orchestrator, Works(m) \/ Stops(m)
      PROVE  \/ QuietAction(m) \/ Claim(m) \/ FollowEnds(m) \/ HandedOver(m)
             \/ HandoffTimesOut(m) \/ Spawn(m) \/ Succeed(m)
             \/ RecordTerminal(m) \/ Kill(m)
  BY <1>6 DEF Works, Stops, QuietAction
<1> QED BY <1>1, <1>2, <1>3, <1>4, <1>5, <1>6 DEF Next

LEMMA FlightStep == Typed /\ Flight /\ [Next]_vars => Flight'
<1> SUFFICES ASSUME Typed, Flight, [Next]_vars PROVE Flight'
  OBVIOUS
<1>1. CASE gap' = "used"
  BY <1>1 DEF Flight
<1>2. CASE gap' # "used"
  <2>1. CASE UNCHANGED vars
    BY <2>1 DEF vars, files, ghosts, Flight, Alone, Listed, Engaged, Resumed,
                Registered, Claimed, At, SupAt
  <2>2. ASSUME NEW m \in Orchestrator, QuietAction(m) PROVE Flight'
    BY <2>2, QuietActions, QuietKeeps
  <2>3. ASSUME NEW m \in Orchestrator,
               \/ Claim(m) \/ FollowEnds(m) \/ HandedOver(m) \/ HandoffTimesOut(m)
               \/ Spawn(m) \/ Succeed(m) \/ RecordTerminal(m) \/ Kill(m)
        PROVE  Flight'
    BY <1>2, <2>3, ClaimKeeps, FollowEndsKeeps, HandedOverKeeps, HandoffTimesOutKeeps,
       SpawnKeeps, SucceedKeeps, RecordTerminalKeeps, KillKeeps
  <2>4. CASE ClaimResumed \/ SupResumes \/ SupKilled
    BY <1>2, <2>4, ClaimResumedKeeps, SupResumesKeeps, SupKilledKeeps
  <2>5. CASE SupMoves
    BY <2>5, SupMovesKeeps
       DEF SupMoves, SupRefuses, SupRemoves, SupCopies, SupAt, SupGoto, files, ghosts,
           Typed, SupTyped
  <2>6. CASE SupPublishes \/ SupConcludes
    BY <1>2, <2>6, SupPublishesKeeps, SupConcludesKeeps
  <2> QED BY <2>1, <2>2, <2>3, <2>4, <2>5, <2>6, ByEffect
<1> QED BY <1>1, <1>2

LEMMA InitFlight == Init => Flight
<1> SUFFICES ASSUME Init PROVE Flight
  OBVIOUS
<1>1. \A m \in Orchestrator : At(m, "off")
  BY DEF Init, NotRunning, At
<1> QED BY <1>1, Distinct
        DEF Init, InitFiles, Flight, Alone, Listed, Engaged, Resumed, Claimed, At, SupAt,
            Off, NoStatus

LEMMA FlightAlways == Spec => []Flight
BY InitFlight, FlightStep, TypedAlways, PTL DEF Spec

LEMMA AtMostOneFlight == Typed /\ Flight => OneSetup
<1> SUFFICES ASSUME Typed, Flight, gap # "used" PROVE Cardinality(Flights) <= 1
  BY DEF OneSetup
<1> USE Distinct
<1>1. Alone
  BY DEF Flight
<1>2. \E x : Flights \subseteq {x}
  <2>1. CASE \E t \in Terminal : Claimed(t)
    BY <1>1, <2>1 DEF Alone, Flights, Engaged, Resumed, SupAt
  <2>2. CASE ~\E t \in Terminal : Claimed(t)
    BY <2>2 DEF Flights
  <2> QED BY <2>1, <2>2
<1>3. PICK x : Flights \subseteq {x}
  BY <1>2
<1>4. IsFiniteSet({x}) /\ Cardinality({x}) = 1
  BY FS_Singleton
<1> QED BY <1>3, <1>4, FS_Subset

\* Two setups never change a member at once, for any number of terminals,
\* commands, kills, interrupts and time-outs, unless a command claimed the
\* status file while the pair of a live process had dropped out of it.
THEOREM OneSetupAtATime == Spec => []OneSetup
BY AtMostOneFlight, TypedAlways, FlightAlways, PTL

-----------------------------------------------------------------------------
(* The files kept together.  While nothing was overlooked, the resume state, *)
(* the brain's configuration and the installed service describe each other.  *)

USE DEF Original

FilesStay == UNCHANGED <<resume, config, reachable, artifact, declared>>

LEMMA Goes ==
    ASSUME RunTyped, NEW m \in Orchestrator, NEW l, Goto(m, l)
    PROVE  run'[m].at = l /\ run'[m].mem = run[m].mem /\ OthersStay(m)
BY DEF RunTyped, Goto, OthersStay

LEMMA Recalls ==
    ASSUME RunTyped, NEW m \in Orchestrator, NEW l, NEW mem, Remember(m, l, mem)
    PROVE  run'[m].at = l /\ run'[m].mem = mem /\ OthersStay(m)
BY DEF RunTyped, Remember, OthersStay

\* A step of a process that leaves the files as they are.
LEMMA StayKeeps ==
    ASSUME Sane, NEW m \in Orchestrator, OthersStay(m), FilesStay, UNCHANGED sup, Fit(m)'
    PROVE  Sane'
<1>1. FilesKept' /\ SupKept'
  BY DEF Sane, FilesStay, FilesKept, SupKept, SupAt
<1>2. ASSUME NEW n \in Orchestrator, n # m PROVE Fit(n)'
  BY <1>2 DEF Sane, Fit, InHand, Carried, Claimed, At, Mem, FilesStay, OthersStay
<1> QED BY <1>1, <1>2 DEF Sane

\* A process that is at work has the files for itself.
LEMMA AloneAtWork ==
    ASSUME Typed, Alone, NEW m \in Orchestrator, Claimed(m)
    PROVE  /\ sup.at \in {"off", "watching"}
           /\ \A n \in Orchestrator \ {m} : ~InHand(n)
<1> USE Distinct
<1>1. ~At("child", "handed")
  BY DEF Typed, Placed, At, BackendPlace
<1>2. CASE m \in Terminal
  BY <1>1, <1>2 DEF Alone, Engaged, Resumed, InHand, Orchestrator, SupAt
<1>3. CASE m = "child"
  BY <1>1, <1>3 DEF Alone, Engaged, Resumed, InHand, Orchestrator
<1> QED BY <1>2, <1>3 DEF Orchestrator

LEMMA WorkKeeps ==
    ASSUME Typed, Alone, Sane, NEW m \in Orchestrator, Claimed(m),
           OthersStay(m), UNCHANGED <<sup, declared>>, FilesKept', Fit(m)'
    PROVE  Sane'
<1>1. SupKept'
  BY AloneAtWork DEF Sane, SupKept, SupAt
<1>2. ASSUME NEW n \in Orchestrator, n # m PROVE Fit(n)'
  BY <1>2, AloneAtWork DEF Sane, Fit, InHand, Claimed, At, Mem, OthersStay
<1> QED BY <1>1, <1>2 DEF Sane

\* The work of setup proper: every step on the files, by the one process that
\* has them in hand.
FileWork(m) ==
    \/ Recover(m) \/ BackendUp(m) \/ Reuse(m) \/ BackUp(m) \/ EnableStarts(m)
    \/ EnableEnds(m) \/ EnableRecorded(m) \/ StillDown(m) \/ Choose(m) \/ InlineRestart(m)
    \/ Handoff(m) \/ Removes(m) \/ Copies(m) \/ ClearsAfter(m) \/ Adopt(m)
    \/ PersistDigest(m) \/ Render(m) \/ Own(m) \/ Finish(m) \/ Mark(m)
    \/ Unlink(m)
    \/ m = "child" /\ ResumedButDown

LEMMA FileWorks ==
    ASSUME Typed, Alone, Sane, NEW m \in Orchestrator, FileWork(m), ~lost'
    PROVE  Sane'
<1> USE Distinct
<1>1. Claimed(m)
  BY DEF FileWork, Recover, BackendUp, Reuse, BackUp, EnableStarts, EnableEnds,
         EnableRecorded, StillDown, Choose, InlineRestart, Handoff, Removes, Copies,
         ClearsAfter, Adopt, PersistDigest, Render, Own, Finish, Mark, Unlink,
         ResumedButDown, BackendDown, Claimed, At
<1>2. Carried(m) /\ FilesKept /\ PlaceFits(m)
  BY <1>1 DEF Sane, Fit, InHand, Typed, Placed
<1>3. Mem(m) \in Resume /\ RunTyped /\ FilesTyped
  BY MemTyped DEF Typed
<1>4. CASE Recover(m)
  <2>1. OthersStay(m) /\ UNCHANGED <<sup, declared>>
    BY <1>4, <1>3, Goes, Recalls DEF Recover, Write, ClearRestart, Outside, OnlyRun, files
  <2>2. FilesKept' /\ Fit(m)'
    BY <1>4, <1>2, <1>3, Goes, Recalls DEF Recover, RecoverFirst, Interrupted, Write,
           ClearRestart, Cleared, BackendDown, FilesKept, Fit, InHand, Carried, Claimed, At,
           Mem, PlaceFits, Resume, FilesTyped, RestorePlace, BackendPlace, InstallPlace,
           Outside, OnlyRun, files, ghosts
  <2> QED BY <1>1, <2>1, <2>2, WorkKeeps
<1>5. CASE BackendUp(m)
  <2>1. OthersStay(m) /\ UNCHANGED <<sup, declared>>
    BY <1>5, <1>3, Goes, Recalls DEF BackendUp, Write, ClearRestart, Outside, OnlyRun, files
  <2>2. FilesKept' /\ Fit(m)'
    <3>1. Claimed(m) /\ m \in Orchestrator /\ Remember(m, "mark", Cleared(Mem(m)))
          /\ resume' = Cleared(Mem(m))
      BY <1>5, <1>1 DEF BackendUp, ClearRestart, Write
    <3>2. /\ reachable /\ (declared => config \in {"old", "new"})
          /\ UNCHANGED <<config, reachable, artifact, declared>>
      BY <1>5 DEF BackendUp, ClearRestart, Outside
    <3>3. Mem(m) = resume /\ resume.has /\ Mem(m).phase = 0
      BY <1>5, <1>2 DEF BackendUp, Carried, PlaceFits, At, BackendPlace
    <3>4. /\ resume'.manifest = "none" /\ resume'.phase = 0 /\ resume'.has
          /\ resume'.own = resume.own
      BY <1>3, <3>1, <3>3 DEF Cleared, Resume
    <3>5. FilesKept'
      BY <1>2, <3>2, <3>3, <3>4 DEF FilesKept
    <3>6. At(m, "mark")' /\ Mem(m)' = resume'
      BY <1>3, <3>1, Recalls DEF At, Mem
    <3> QED BY <3>2, <3>4, <3>5, <3>6 DEF Fit, InHand, Carried, Claimed, At, RestorePlace
  <2> QED BY <1>1, <2>1, <2>2, WorkKeeps
<1>6. CASE Reuse(m)
  <2>1. OthersStay(m) /\ UNCHANGED <<sup, declared>>
    BY <1>6, <1>3, Goes, Recalls DEF Reuse, Write, ClearRestart, Outside, OnlyRun, files
  <2>2. FilesKept' /\ Fit(m)'
    BY <1>6, <1>2, <1>3, Goes, Recalls DEF Reuse, KeepsPoint, Write, ClearRestart, Cleared,
           BackendDown, FilesKept, Fit, InHand, Carried, Claimed, At, Mem, PlaceFits,
           Resume, FilesTyped, RestorePlace, BackendPlace, InstallPlace, Outside, OnlyRun,
           files, ghosts
  <2> QED BY <1>1, <2>1, <2>2, WorkKeeps
<1>7. CASE BackUp(m)
  <2>1. OthersStay(m) /\ UNCHANGED <<sup, declared>>
    BY <1>7, <1>3, Goes, Recalls DEF BackUp, Write, ClearRestart, Outside, OnlyRun, files
  <2>2. FilesKept' /\ Fit(m)'
    BY <1>7, <1>2, <1>3, Goes, Recalls DEF BackUp, RecoverFirst, Interrupted, KeepsPoint,
           BackedUp, Write, ClearRestart, Cleared, BackendDown, FilesKept, Fit, InHand,
           Carried, Claimed, At, Mem, PlaceFits, Resume, FilesTyped, RestorePlace,
           BackendPlace, InstallPlace, Outside, OnlyRun, files, ghosts
  <2> QED BY <1>1, <2>1, <2>2, WorkKeeps
<1>8. CASE EnableStarts(m)
  <2>1. OthersStay(m) /\ UNCHANGED <<sup, declared>>
    BY <1>8, <1>3, Goes, Recalls DEF EnableStarts, Write, ClearRestart, Outside,
           OnlyRun, files
  <2>2. FilesKept' /\ Fit(m)'
    BY <1>8, <1>2, <1>3, Goes, Recalls DEF EnableStarts, Write, ClearRestart, Cleared,
           BackendDown, FilesKept, Fit, InHand, Carried, Claimed, At, Mem, PlaceFits,
           Resume, FilesTyped, RestorePlace, BackendPlace, InstallPlace, Outside, OnlyRun,
           files, ghosts
  <2> QED BY <1>1, <2>1, <2>2, WorkKeeps
<1>9. CASE EnableEnds(m)
  <2>1. OthersStay(m) /\ UNCHANGED <<sup, declared>>
    BY <1>9, <1>3, Goes, Recalls DEF EnableEnds, Write, ClearRestart, Outside, OnlyRun, files
  <2>2. FilesKept' /\ Fit(m)'
    <3>1. PICK l \in {"enabled", "remove"} : Goto(m, l)
      BY <1>9 DEF EnableEnds
    <3>2. At(m, "enabling") /\ UNCHANGED <<resume, artifact, declared>>
      BY <1>9 DEF EnableEnds, Outside
    <3>3. resume.manifest = Original /\ Mem(m) = resume /\ resume.has
      BY <1>2, <3>2 DEF Carried, At, RestorePlace
    <3>4. FilesKept'
      BY <1>2, <3>2, <3>3 DEF FilesKept
    <3>5. run'[m].at = l /\ Mem(m)' = resume'
      BY <1>3, <3>1, <3>2, <3>3, Goes DEF Mem
    <3> QED BY <3>2, <3>3, <3>4, <3>5 DEF Fit, InHand, Carried, Claimed, At, Mem
  <2> QED BY <1>1, <2>1, <2>2, WorkKeeps
<1>10. CASE EnableRecorded(m)
  <2>1. OthersStay(m) /\ UNCHANGED <<sup, declared>>
    BY <1>10, <1>3, Goes, Recalls DEF EnableRecorded, Write, ClearRestart, Outside,
           OnlyRun, files
  <2>2. FilesKept' /\ Fit(m)'
    BY <1>10, <1>2, <1>3, Goes, Recalls DEF EnableRecorded, Write, ClearRestart, Cleared,
           BackendDown, FilesKept, Fit, InHand, Carried, Claimed, At, Mem, PlaceFits,
           Resume, FilesTyped, RestorePlace, BackendPlace, InstallPlace, Outside, OnlyRun,
           files, ghosts
  <2> QED BY <1>1, <2>1, <2>2, WorkKeeps
<1>11. CASE StillDown(m)
  <2>1. OthersStay(m) /\ UNCHANGED <<sup, declared>>
    BY <1>11, <1>3, Goes, Recalls DEF StillDown, Write, ClearRestart, Outside, OnlyRun, files
  <2>2. FilesKept' /\ Fit(m)'
    BY <1>11, <1>2, <1>3, Goes, Recalls DEF StillDown, Write, ClearRestart, Cleared,
           BackendDown, FilesKept, Fit, InHand, Carried, Claimed, At, Mem, PlaceFits,
           Resume, FilesTyped, RestorePlace, BackendPlace, InstallPlace, Outside, OnlyRun,
           files, ghosts
  <2> QED BY <1>1, <2>1, <2>2, WorkKeeps
<1>12. CASE Choose(m)
  <2>1. OthersStay(m) /\ UNCHANGED <<sup, declared>>
    BY <1>12, <1>3, Goes, Recalls DEF Choose, Write, ClearRestart, Outside, OnlyRun, files
  <2>2. FilesKept' /\ Fit(m)'
    BY <1>12, <1>2, <1>3, Goes, Recalls DEF Choose, Write, ClearRestart, Cleared,
           BackendDown, FilesKept, Fit, InHand, Carried, Claimed, At, Mem, PlaceFits,
           Resume, FilesTyped, RestorePlace, BackendPlace, InstallPlace, Outside, OnlyRun,
           files, ghosts
  <2> QED BY <1>1, <2>1, <2>2, WorkKeeps
<1>13. CASE InlineRestart(m)
  <2>1. OthersStay(m) /\ UNCHANGED <<sup, declared>>
    BY <1>13, <1>3, Goes, Recalls DEF InlineRestart, Write, ClearRestart, Outside,
           OnlyRun, files
  <2>2. FilesKept' /\ Fit(m)'
    BY <1>13, <1>2, <1>3, Goes, Recalls DEF InlineRestart, Restarted, Write, ClearRestart,
           Cleared, BackendDown, FilesKept, Fit, InHand, Carried, Claimed, At, Mem,
           PlaceFits, Resume, FilesTyped, RestorePlace, BackendPlace, InstallPlace, Outside,
           OnlyRun, files, ghosts
  <2> QED BY <1>1, <2>1, <2>2, WorkKeeps
<1>14. CASE Handoff(m)
  <2>1. OthersStay(m) /\ UNCHANGED <<sup, declared>>
    BY <1>14, <1>3, Goes, Recalls DEF Handoff, Write, ClearRestart, Outside, OnlyRun, files
  <2>2. FilesKept' /\ Fit(m)'
    BY <1>14, <1>2, <1>3, Goes, Recalls DEF Handoff, Write, ClearRestart, Cleared,
           BackendDown, FilesKept, Fit, InHand, Carried, Claimed, At, Mem, PlaceFits,
           Resume, FilesTyped, RestorePlace, BackendPlace, InstallPlace, Outside, OnlyRun,
           files, ghosts
  <2> QED BY <1>1, <2>1, <2>2, WorkKeeps
<1>15. CASE Removes(m)
  <2>1. OthersStay(m) /\ UNCHANGED <<sup, declared>>
    BY <1>15, <1>3, Goes, Recalls DEF Removes, Write, ClearRestart, Outside, OnlyRun, files
  <2>2. FilesKept' /\ Fit(m)'
    BY <1>15, <1>2, <1>3, Goes, Recalls DEF Removes, RemoveConfig, Write, ClearRestart,
           Cleared, BackendDown, FilesKept, Fit, InHand, Carried, Claimed, At, Mem,
           PlaceFits, Resume, FilesTyped, RestorePlace, BackendPlace, InstallPlace, Outside,
           OnlyRun, files, ghosts
  <2> QED BY <1>1, <2>1, <2>2, WorkKeeps
<1>16. CASE Copies(m)
  <2>1. OthersStay(m) /\ UNCHANGED <<sup, declared>>
    BY <1>16, <1>3, Goes, Recalls DEF Copies, Write, ClearRestart, Outside, OnlyRun, files
  <2>2. FilesKept' /\ Fit(m)'
    BY <1>16, <1>2, <1>3, Goes, Recalls DEF Copies, CopyBack, Declares, Write,
           ClearRestart, Cleared,
           BackendDown, FilesKept, Fit, InHand, Carried, Claimed, At, Mem, PlaceFits,
           Resume, FilesTyped, RestorePlace, BackendPlace, InstallPlace, Outside, OnlyRun,
           files, ghosts
  <2> QED BY <1>1, <2>1, <2>2, WorkKeeps
<1>17. CASE ClearsAfter(m)
  <2>1. OthersStay(m) /\ UNCHANGED <<sup, declared>>
    BY <1>17, <1>3, Goes, Recalls DEF ClearsAfter, Write, ClearRestart, Outside,
           OnlyRun, files
  <2>2. FilesKept' /\ Fit(m)'
    BY <1>17, <1>2, <1>3, Goes, Recalls DEF ClearsAfter, Write, ClearRestart, Cleared,
           BackendDown, FilesKept, Fit, InHand, Carried, Claimed, At, Mem, PlaceFits,
           Resume, FilesTyped, RestorePlace, BackendPlace, InstallPlace, Outside, OnlyRun,
           files, ghosts
  <2> QED BY <1>1, <2>1, <2>2, WorkKeeps
<1>18. CASE Adopt(m)
  <2>1. OthersStay(m) /\ UNCHANGED <<sup, declared>>
    BY <1>18, <1>3, Goes, Recalls DEF Adopt, Write, ClearRestart, Outside, OnlyRun, files
  <2>2. FilesKept' /\ Fit(m)'
    BY <1>18, <1>2, <1>3, Goes, Recalls DEF Adopt, Write, ClearRestart, Cleared,
           BackendDown, FilesKept, Fit, InHand, Carried, Claimed, At, Mem, PlaceFits,
           Resume, FilesTyped, RestorePlace, BackendPlace, InstallPlace, Outside, OnlyRun,
           files, ghosts
  <2> QED BY <1>1, <2>1, <2>2, WorkKeeps
<1>19. CASE PersistDigest(m)
  <2>1. OthersStay(m) /\ UNCHANGED <<sup, declared>>
    BY <1>19, <1>3, Goes, Recalls DEF PersistDigest, Write, ClearRestart, Outside,
           OnlyRun, files
  <2>2. FilesKept' /\ Fit(m)'
    BY <1>19, <1>2, <1>3, Goes, Recalls DEF PersistDigest, ProofFirst, Write, ClearRestart,
           Cleared, BackendDown, FilesKept, Fit, InHand, Carried, Claimed, At, Mem,
           PlaceFits, Resume, FilesTyped, RestorePlace, BackendPlace, InstallPlace, Outside,
           OnlyRun, files, ghosts
  <2> QED BY <1>1, <2>1, <2>2, WorkKeeps
<1>20. CASE Render(m)
  <2>1. OthersStay(m) /\ UNCHANGED <<sup, declared>>
    BY <1>20, <1>3, Goes, Recalls DEF Render, Write, ClearRestart, Outside, OnlyRun, files
  <2>2. FilesKept' /\ Fit(m)'
    BY <1>20, <1>2, <1>3, Goes, Recalls DEF Render, Write, ClearRestart, Cleared,
           BackendDown, FilesKept, Fit, InHand, Carried, Claimed, At, Mem, PlaceFits,
           Resume, FilesTyped, RestorePlace, BackendPlace, InstallPlace, Outside, OnlyRun,
           files, ghosts
  <2> QED BY <1>1, <2>1, <2>2, WorkKeeps
<1>21. CASE Own(m)
  <2>1. OthersStay(m) /\ UNCHANGED <<sup, declared>>
    BY <1>21, <1>3, Goes, Recalls DEF Own, Write, ClearRestart, Outside, OnlyRun, files
  <2>2. FilesKept' /\ Fit(m)'
    BY <1>21, <1>2, <1>3, Goes, Recalls DEF Own, Write, ClearRestart, Cleared, BackendDown,
           FilesKept, Fit, InHand, Carried, Claimed, At, Mem, PlaceFits, Resume, FilesTyped,
           RestorePlace, BackendPlace, InstallPlace, Outside, OnlyRun, files, ghosts
  <2> QED BY <1>1, <2>1, <2>2, WorkKeeps
<1>22. CASE Finish(m)
  <2>1. OthersStay(m) /\ UNCHANGED <<sup, declared>>
    BY <1>22, <1>3, Goes, Recalls DEF Finish, Write, ClearRestart, Outside, OnlyRun, files
  <2>2. FilesKept' /\ Fit(m)'
    BY <1>22, <1>2, <1>3, Goes, Recalls DEF Finish, Write, ClearRestart, Cleared,
           BackendDown, FilesKept, Fit, InHand, Carried, Claimed, At, Mem, PlaceFits,
           Resume, FilesTyped, RestorePlace, BackendPlace, InstallPlace, Outside, OnlyRun,
           files, ghosts
  <2> QED BY <1>1, <2>1, <2>2, WorkKeeps
<1>23. CASE Mark(m)
  <2>1. OthersStay(m) /\ UNCHANGED <<sup, declared>>
    BY <1>23, <1>3, Goes, Recalls DEF Mark, Write, ClearRestart, Outside, OnlyRun, files
  <2>2. FilesKept' /\ Fit(m)'
    <3> DEFINE mem == [Mem(m) EXCEPT !.phase = @ + 1]
    <3>1. At(m, "mark") /\ Remember(m, PhaseOf(mem), mem) /\ resume' = mem
          /\ UNCHANGED <<config, reachable, artifact, declared>>
      BY <1>23 DEF Mark, Write, Outside
    <3>2. /\ Mem(m).phase \in {0, 1, 2} /\ Mem(m) = resume /\ resume.has
          /\ resume.manifest = "none" /\ reachable
          /\ Mem(m).phase \in {1, 2} => artifact = "written"
      BY <1>2, <1>3, <3>1 DEF Carried, PlaceFits, At, Resume
    <3>3. /\ mem.phase = Mem(m).phase + 1 /\ mem.has /\ mem.manifest = "none"
          /\ mem.own = Mem(m).own
      BY <1>3, <3>2 DEF Resume
    <3>4. mem \in Resume
      <4>1. Mem(m).phase \in 0 .. 2
        BY <3>2
      <4> QED BY <1>3, <4>1, RecordsTyped
    <3>5. PhaseOf(mem) \in {"backend", "install", "finish", "unlink"}
      BY <3>4, Phases
    <3> HIDE DEF mem
    <3>6. FilesKept'
      BY <1>2, <3>1, <3>2, <3>3 DEF FilesKept
    <3>7. run'[m].at = PhaseOf(mem) /\ Mem(m)' = mem
      BY <1>3, <3>1, Recalls DEF Mem
    <3> QED BY <3>1, <3>3, <3>5, <3>6, <3>7
            DEF Fit, InHand, Carried, Claimed, At, Mem, RestorePlace
  <2> QED BY <1>1, <2>1, <2>2, WorkKeeps
<1>24. CASE Unlink(m)
  <2>1. OthersStay(m) /\ UNCHANGED <<sup, declared>>
    BY <1>24, <1>3, Goes, Recalls DEF Unlink, Write, ClearRestart, Outside, OnlyRun, files
  <2>2. FilesKept' /\ Fit(m)'
    BY <1>24, <1>2, <1>3, Goes, Recalls DEF Unlink, NoResume, Write, ClearRestart, Cleared,
           BackendDown, FilesKept, Fit, InHand, Carried, Claimed, At, Mem, PlaceFits,
           Resume, FilesTyped, RestorePlace, BackendPlace, InstallPlace, Outside, OnlyRun,
           files, ghosts
  <2> QED BY <1>1, <2>1, <2>2, WorkKeeps
<1>25. CASE m = "child" /\ ResumedButDown
  <2>1. OthersStay(m) /\ UNCHANGED <<sup, declared>>
    BY <1>25, <1>3, Goes, Recalls DEF ResumedButDown, Write, ClearRestart, Outside,
           OnlyRun, files
  <2>2. FilesKept' /\ Fit(m)'
    BY <1>25, <1>2, <1>3, Goes, Recalls DEF ResumedButDown, Write, ClearRestart, Cleared,
           BackendDown, FilesKept, Fit, InHand, Carried, Claimed, At, Mem, PlaceFits,
           Resume, FilesTyped, RestorePlace, BackendPlace, InstallPlace, Outside, OnlyRun,
           files, ghosts
  <2> QED BY <1>1, <2>1, <2>2, WorkKeeps
<1> QED BY <1>4, <1>5, <1>6, <1>7, <1>8, <1>9, <1>10, <1>11, <1>12, <1>13, <1>14, <1>15,
    <1>16, <1>17, <1>18, <1>19, <1>20, <1>21, <1>22, <1>23, <1>24, <1>25 DEF FileWork

\* Whoever begins, follows or ends touches none of the files.
IdleWork(m) ==
    \/ m \in Terminal /\ Begin(m)
    \/ ReadState(m) \/ FollowEnds(m) \/ FollowTimesOut(m) \/ HandedOver(m) \/ Succeed(m)
    \/ RecordTerminal(m) \/ RestoreFails(m) \/ Interrupt(m) \/ Kill(m) \/ BackUpFails(m)
    \/ m = "child" /\ (ClaimResumed \/ ShowQr)

LEMMA IdleWorks ==
    ASSUME Typed, Sane, NEW m \in Orchestrator, IdleWork(m)
    PROVE  Sane'
<1> USE Distinct
<1>1. FilesStay /\ UNCHANGED sup
  BY DEF IdleWork, Begin, ReadState, FollowEnds, FollowTimesOut, HandedOver, Succeed,
         RecordTerminal, RestoreFails, BackUpFails, Interrupt, Kill, ClaimResumed,
         ShowQr, Leave,
         Stamp, Outside, OnlyRun, files, FilesStay
<1>2. CASE m = "child" /\ ShowQr
  <2>1. OthersStay(m) /\ Fit(m)'
    BY <1>1, <1>2
       DEF ShowQr, OthersStay, Sane, Fit, InHand, Carried, Claimed, At, Mem, FilesStay
  <2> QED BY <1>1, <2>1, StayKeeps
<1>4. CASE RestoreFails(m) /\ Goto(m, "remove")
  <2>1. OthersStay(m) /\ At(m, "remove")' /\ Mem(m)' = Mem(m)
    BY <1>4, Goes DEF Typed, At, Mem
  <2>2. Fit(m)'
    BY <1>1, <1>4, <2>1 DEF RestoreFails, Sane, Fit, InHand, Carried, Claimed, At,
                            RestorePlace, FilesStay
  <2> QED BY <1>1, <2>1, <2>2, StayKeeps
<1>3. CASE ~(m = "child" /\ ShowQr) /\ ~(RestoreFails(m) /\ Goto(m, "remove"))
  <2> DEFINE Aside == {"off", "follow", "read", "confirm", "failing", "stopping"}
  <2>1. ASSUME NEW l \in Aside, Goto(m, l) PROVE OthersStay(m) /\ run'[m].at \in Aside
    BY <2>1, Goes DEF Typed
  <2>2. ASSUME NEW l \in Aside, NEW mem, Remember(m, l, mem)
        PROVE  OthersStay(m) /\ run'[m].at \in Aside
    BY <2>2, Recalls DEF Typed
  <2>3. ASSUME NEW c, Exit(m, c) PROVE OthersStay(m) /\ run'[m].at \in Aside
    BY <2>3, ExitLeaves DEF At
  <2>4. OthersStay(m) /\ run'[m].at \in Aside
    <3>1. \/ \E l \in Aside : Goto(m, l) \/ \E mem : Remember(m, l, mem)
          \/ \E c : Exit(m, c)
      BY <1>3
         DEF IdleWork, Begin, ReadState, FollowEnds, FollowTimesOut, HandedOver, Succeed,
             RecordTerminal, RestoreFails, BackUpFails, Interrupt, Kill, ClaimResumed, Leave
    <3> QED BY <2>1, <2>2, <2>3, <3>1
  <2>5. Fit(m)'
    BY <2>4 DEF Fit, InHand, Claimed, At
  <2> QED BY <1>1, <2>4, <2>5, StayKeeps
<1> QED BY <1>2, <1>3, <1>4

\* A fresh resume state is written only where there is none and nothing is
\* installed; otherwise the resume state goes on.
LEMMA ConfirmFits ==
    ASSUME Typed, Sane, NEW m \in Orchestrator, Confirm(m), ~lost'
    PROVE  Sane'
<1> USE Distinct
<1>1. /\ At(m, "confirm") /\ RunTyped /\ Mem(m) \in Resume
      /\ UNCHANGED <<config, reachable, artifact, declared, sup>>
  BY MemTyped DEF Confirm, Outside, Typed
<1>2. FreshResume \in Resume /\ FreshResume.has
  BY RecordsTyped DEF FreshResume, NoResume
<1>3. PICK mem \in Resume :
          /\ mem.has /\ mem = IF Mem(m).has THEN Mem(m) ELSE FreshResume
          /\ IF m = "child" THEN Remember(m, PhaseOf(mem), mem)
                            ELSE Remember(m, "claim", mem)
  BY <1>1, <1>2 DEF Confirm
<1>4. OthersStay(m) /\ Mem(m)' = mem
      /\ run'[m].at = IF m = "child" THEN PhaseOf(mem) ELSE "claim"
  BY <1>1, <1>3, Recalls DEF Mem
<1>5. PhaseOf(mem) \in {"backend", "install", "finish", "unlink"}
  BY Phases
<1>6. m = "child" => mem = resume'
  BY <1>3 DEF Confirm
<1>7. Fit(m)'
  BY <1>3, <1>4, <1>5, <1>6 DEF Fit, InHand, Carried, Claimed, At, RestorePlace
<1>8. CASE Mem(m).has
  BY <1>1, <1>4, <1>7, <1>8, StayKeeps DEF Confirm, FilesStay
<1>9. CASE ~Mem(m).has
  <2>1. resume' = FreshResume /\ ~resume.has /\ artifact = "none"
    BY <1>9 DEF Confirm
  <2>2. FreshResume.manifest = "none" /\ FreshResume.phase = 0
    BY DEF FreshResume, NoResume
  <2>3. resume.manifest = "none"
    BY <2>1 DEF Sane, FilesKept, NoResume
  <2>4. FilesKept'
    BY <1>1, <1>2, <2>1, <2>2, <2>3 DEF Sane, FilesKept
  <2>5. SupKept'
    BY <1>1, <2>3 DEF Sane, SupKept, SupAt
  <2>6. ASSUME NEW n \in Orchestrator, n # m PROVE Fit(n)'
    <3>1. ~InHand(n)
      BY <2>1 DEF Sane, Fit, Carried
    <3> QED BY <1>4, <2>6, <3>1 DEF Sane, Fit, InHand, Claimed, At, Mem, OthersStay
  <2> QED BY <1>7, <2>4, <2>5, <2>6 DEF Sane
<1> QED BY <1>8, <1>9

LEMMA ClaimFits ==
    ASSUME Typed, Sane, NEW m \in Orchestrator, Claim(m), ~lost'
    PROVE  Sane'
<1>1. FilesStay /\ UNCHANGED sup /\ At(m, "claim") /\ m # "child" /\ RunTyped
  BY Distinct DEF Claim, Outside, FilesStay, Typed
<1>2. CASE MayClaim(m)
  <2>1. Goto(m, PhaseOf(Mem(m))) /\ Mem(m) = resume /\ Mem(m).has
    BY <1>1, <1>2 DEF Claim, Sane, Fit
  <2>2. PhaseOf(Mem(m)) \in {"backend", "install", "finish", "unlink"}
    BY MemTyped, Phases
  <2>3. OthersStay(m) /\ Mem(m)' = Mem(m) /\ run'[m].at = PhaseOf(Mem(m))
    BY <1>1, <2>1, Goes DEF Mem
  <2>4. Fit(m)'
    BY <1>1, <2>1, <2>2, <2>3
       DEF Fit, InHand, Carried, Claimed, At, RestorePlace, FilesStay
  <2> QED BY <1>1, <2>3, <2>4, StayKeeps
<1>3. CASE ~MayClaim(m)
  <2>1. OthersStay(m) /\ run'[m].at = "follow"
    BY <1>1, <1>3, Goes DEF Claim
  <2>2. Fit(m)'
    BY <2>1 DEF Fit, InHand, Claimed, At
  <2> QED BY <1>1, <2>1, <2>2, StayKeeps
<1> QED BY <1>2, <1>3

LEMMA SpawnFits ==
    ASSUME Typed, Alone, Sane, NEW m \in Orchestrator, Spawn(m)
    PROVE  Sane'
<1> USE Distinct
<1>1. At(m, "spawn") /\ Claimed(m) /\ FilesStay /\ RunTyped
  BY DEF Spawn, files, FilesStay, Claimed, At, Typed
<1>2. Mem(m).manifest = Original /\ Mem(m) = resume /\ resume.has
  BY <1>1 DEF Sane, Fit, InHand, Carried, RestorePlace, At
<1>3. PICK l \in {"handed", "remove"} : Goto(m, l)
  BY DEF Spawn
<1>4. OthersStay(m) /\ Mem(m)' = Mem(m) /\ run'[m].at = l
  BY <1>1, <1>3, Goes DEF Mem
<1>5. Fit(m)'
  BY <1>1, <1>2, <1>4 DEF Fit, InHand, Carried, Claimed, At, RestorePlace, FilesStay
<1>6. CASE UNCHANGED sup
  BY <1>1, <1>4, <1>5, <1>6, StayKeeps
<1>7. CASE sup' = [Off EXCEPT !.at = "starting", !.manifest = Mem(m).manifest]
  <2>1. sup'.manifest = Original
    BY <1>2, <1>7 DEF Off
  <2>2. SupKept'
    BY <1>1, <1>2, <2>1 DEF SupKept, FilesStay
  <2>3. FilesKept'
    BY <1>1 DEF Sane, FilesKept, FilesStay
  <2>4. ASSUME NEW n \in Orchestrator, n # m PROVE Fit(n)'
    BY <1>1, <1>4, <2>4
       DEF Sane, Fit, InHand, Carried, Claimed, At, Mem, OthersStay, FilesStay
  <2> QED BY <1>5, <2>2, <2>3, <2>4 DEF Sane
<1> QED BY <1>6, <1>7 DEF Spawn

\* A step of the supervisor: whoever is not ended by it keeps what it has.
LEMMA SupStepKeeps ==
    ASSUME Sane, FilesKept', SupKept', UNCHANGED <<resume, artifact, declared>>,
           \A n \in Orchestrator :
              \/ run'[n] = run[n] /\ (InHand(n) => UNCHANGED <<config, reachable>>
                                                    \/ At(n, "handed"))
              \/ At(n, "off")'
              \/ At(n, "handed") /\ At(n, "remove")' /\ Mem(n)' = Mem(n)
    PROVE  Sane'
<1> SUFFICES ASSUME NEW n \in Orchestrator PROVE Fit(n)'
  BY DEF Sane
<1>1. Fit(n)
  BY DEF Sane
<1>2. CASE At(n, "off")'
  BY <1>2 DEF Fit, InHand, Claimed, At
<1>3. CASE At(n, "handed") /\ At(n, "remove")' /\ Mem(n)' = Mem(n)
  BY <1>1, <1>3 DEF Fit, InHand, Carried, Claimed, At, RestorePlace
<1>4. CASE run'[n] = run[n] /\ ~InHand(n)
  BY <1>1, <1>4 DEF Fit, InHand, Claimed, At, Mem
<1>5. CASE run'[n] = run[n] /\ InHand(n) /\ UNCHANGED <<config, reachable>>
  BY <1>1, <1>5 DEF Fit, InHand, Carried, Claimed, At, Mem
<1>6. CASE run'[n] = run[n] /\ At(n, "handed")
  BY <1>1, <1>6 DEF Fit, InHand, Carried, Claimed, At, Mem
<1> QED BY <1>2, <1>3, <1>4, <1>5, <1>6

\* Nobody else is at work while the supervisor is, but for a parent that waits.
LEMMA OnlyParentsWait ==
    ASSUME Typed, Alone, sup.at \notin {"off", "watching"}, NEW n \in Orchestrator, InHand(n)
    PROVE  At(n, "handed")
BY Distinct DEF Alone, InHand, Resumed, SupAt, Orchestrator

LEMMA HandoffTimesOutFits ==
    ASSUME Typed, Sane, NEW m \in Orchestrator, HandoffTimesOut(m)
    PROVE  Sane'
<1> USE Distinct
<1>1. At(m, "handed") /\ m # "child" /\ FilesStay /\ RunTyped
  BY DEF HandoffTimesOut, FilesStay, At, Typed, Placed, BackendPlace
<1>2. CASE SupAt("off")
  <2>1. Goto(m, "remove") /\ UNCHANGED sup
    BY <1>2 DEF HandoffTimesOut
  <2>2. OthersStay(m) /\ At(m, "remove")' /\ Mem(m)' = Mem(m)
    BY <1>1, <2>1, Goes DEF At, Mem
  <2>3. Fit(m)'
    BY <1>1, <2>2 DEF Sane, Fit, InHand, Carried, Claimed, At, RestorePlace, FilesStay
  <2> QED BY <1>1, <2>1, <2>2, <2>3, StayKeeps
<1>3. CASE ~SupAt("off")
  <2>1. Conclude("interrupted")
        /\ run' = [run EXCEPT !["child"] = NotRunning, ![m].at = "remove"]
    BY <1>3 DEF HandoffTimesOut, StopsSupervisor
  <2>2. At("child", "off")' /\ At(m, "remove")' /\ Mem(m)' = Mem(m)
        /\ \A n \in Orchestrator \ {m, "child"} : run'[n] = run[n]
    BY <1>1, <2>1 DEF RunTyped, At, Mem, NotRunning
  <2>3. FilesKept' /\ SupKept'
    BY <1>1, <2>1 DEF Sane, FilesKept, SupKept, FilesStay, Conclude, SupAt, Off
  <2> QED BY <1>1, <2>2, <2>3, SupStepKeeps DEF FilesStay
<1> QED BY <1>2, <1>3

\* The supervisor changes the configuration or restarts the backend only while
\* the rollback point is recorded.
SupFileWork == \/ SupRemoves \/ SupCopies \/ SupRestarts \/ SupRestartsOld

LEMMA SupFileWorks ==
    ASSUME Typed, Alone, Sane, SupFileWork PROVE Sane'
<1> USE Distinct
<1>1. /\ sup.at \notin {"off", "watching"} /\ UNCHANGED <<resume, artifact, declared>>
      /\ run' = run \/ \E t \in Orchestrator : run' = [run EXCEPT ![t] = NotRunning]
      /\ sup' = Off \/ \E l : SupGoto(l)
  <2>1. CASE SupRemoves \/ SupCopies
    BY <2>1 DEF SupRemoves, SupCopies, SupAt, Unchanged4
  <2>2. CASE SupRestarts
    <3>1. SupAt("ready") /\ SupGoto("waiting") /\ Unchanged4
      BY <2>2 DEF SupRestarts, Gone, Typed, StatusTyped
    <3>2. run' = run \/ \E t \in Orchestrator : run' = [run EXCEPT ![t] = NotRunning]
      BY <2>2 DEF SupRestarts, Gone, Typed, StatusTyped
    <3>3. UNCHANGED <<resume, artifact, declared>>
      BY <3>1 DEF Unchanged4
    <3>4. sup.at \notin {"off", "watching"}
      BY <3>1 DEF SupAt
    <3> QED BY <3>1, <3>2, <3>3, <3>4
  <2>3. CASE SupRestartsOld
    BY <2>3 DEF SupRestartsOld, SupAt, Unchanged4, Conclude
  <2> QED BY <2>1, <2>2, <2>3 DEF SupFileWork
<1>2. resume.manifest = Original /\ resume.phase = 0 /\ sup.manifest = Original
  BY <1>1 DEF Sane, SupKept, FilesKept, SupAt
<1>3. FilesKept'
  BY <1>1, <1>2 DEF Sane, FilesKept
<1>4. SupKept'
  <2>1. CASE sup' = Off
    BY <1>1, <1>2, <2>1 DEF SupKept, SupAt, Off
  <2>2. CASE \E l : SupGoto(l)
    BY <1>1, <1>2, <2>2 DEF SupKept, SupGoto, Typed, SupTyped
  <2> QED BY <1>1, <2>1, <2>2
<1> QED BY <1>1, <1>3, <1>4, OneEnds, OnlyParentsWait, SupStepKeeps DEF Typed, At

\* Everything else the supervisor does leaves the files alone; a rollback is
\* begun only where the rollback point is recorded.
SupIdleWork == \/ SupRegisters \/ SupReady \/ SupRefuses \/ SupHealthy \/ SupSucceeds
               \/ SupKeepsEnable \/ SupRollsBack \/ SupAborted \/ SupGivesUp
               \/ SupRestoreFails \/ SupInterrupted \/ SupKilled

LEMMA SupIdleWorks ==
    ASSUME Typed, Sane, SupIdleWork, ~lost' PROVE Sane'
<1> USE Distinct
<1>1. FilesStay
  BY DEF SupIdleWork, SupRegisters, SupReady, SupRefuses, SupHealthy, SupSucceeds,
         SupKeepsEnable, SupRollsBack, SupAborted, SupGivesUp, SupRestoreFails,
         SupInterrupted, SupKilled, StatusOnly, Unchanged4, files, FilesStay
<1>2. FilesKept'
  BY <1>1 DEF Sane, FilesKept, FilesStay
<1>3. SupKept'
  <2>1. CASE sup' = Off
    BY <1>1, <2>1 DEF Sane, FilesKept, SupKept, SupAt, Off, FilesStay
  <2>2. CASE sup'.manifest = sup.manifest /\ sup.at \notin {"off", "watching"}
    BY <1>1, <2>2 DEF Sane, SupKept, SupAt, FilesStay
  <2>3. CASE sup'.manifest = sup.manifest /\ ~SupAt("off") /\ Parted
    BY <1>1, <2>3 DEF Sane, SupKept, FilesKept, SupAt, FilesStay, Parted
  <2>4. SupIdleWork => \/ sup' = Off
                       \/ sup'.manifest = sup.manifest
                          /\ (sup.at \notin {"off", "watching"} \/ (~SupAt("off") /\ Parted))
    BY DEF SupIdleWork, SupRegisters, SupReady, SupRefuses, SupHealthy, SupSucceeds,
           SupKeepsEnable, SupRollsBack, SupAborted, SupGivesUp, SupRestoreFails,
           SupInterrupted, SupKilled, Conclude, SupGoto, SupAt, Roll, ChildFailed,
           Typed, SupTyped
  <2> QED BY <2>1, <2>2, <2>3, <2>4
<1>4. run' = run \/ \E t \in Orchestrator : run' = [run EXCEPT ![t] = NotRunning]
  BY DEF SupIdleWork, SupRegisters, SupReady, SupRefuses, SupHealthy, SupSucceeds,
         SupKeepsEnable, SupRollsBack, SupAborted, SupGivesUp, SupRestoreFails,
         SupInterrupted, SupKilled, StatusOnly
<1> QED BY <1>1, <1>2, <1>3, <1>4, OneEnds, SupStepKeeps DEF Typed, At, FilesStay

LEMMA SupResumesFits ==
    ASSUME Typed, Sane, SupResumes PROVE Sane'
<1> USE Distinct
<1>1. FilesStay /\ SupAt("resuming") /\ OthersStay("child") /\ At("child", "claim")'
      /\ sup'.manifest = sup.manifest /\ SupAt("watching")'
  BY DEF SupResumes, files, FilesStay, SupGoto, SupAt, OthersStay, At, NotRunning,
         Typed, RunTyped, SupTyped
<1>2. FilesKept' /\ SupKept'
  BY <1>1 DEF Sane, FilesKept, SupKept, SupAt, FilesStay
<1>3. ASSUME NEW n \in Orchestrator PROVE Fit(n)'
  BY <1>1 DEF Sane, Fit, InHand, Carried, Claimed, At, Mem, OthersStay, FilesStay
<1> QED BY <1>2, <1>3 DEF Sane

\* The actions by what they do to the files.
LEMMA ByFiles ==
    ASSUME [Next]_vars
    PROVE  \/ UNCHANGED vars
           \/ \E m \in Orchestrator : \/ FileWork(m) \/ IdleWork(m) \/ Confirm(m)
                                     \/ Claim(m) \/ Spawn(m) \/ HandoffTimesOut(m)
           \/ SupResumes \/ SupKilled \/ SupMoves \/ SupPublishes \/ SupConcludes
<1>1. ASSUME NEW m \in Orchestrator,
             \/ QuietAction(m) \/ Claim(m) \/ FollowEnds(m) \/ HandedOver(m)
             \/ HandoffTimesOut(m) \/ Spawn(m) \/ Succeed(m)
             \/ RecordTerminal(m) \/ Kill(m)
      PROVE  \/ FileWork(m) \/ IdleWork(m) \/ Confirm(m)
             \/ Claim(m) \/ Spawn(m) \/ HandoffTimesOut(m)
  BY <1>1 DEF QuietAction, FileWork, IdleWork
<1>2. ClaimResumed => IdleWork("child") /\ "child" \in Orchestrator
  BY Distinct DEF IdleWork
<1> QED BY <1>1, <1>2, ByEffect

\* What was overlooked stays overlooked.
LEMMA HistoryStays ==
    ASSUME Typed, [Next]_vars
    PROVE  (lost => lost') /\ (gap = "used" => gap' = "used")
<1>1. CASE UNCHANGED vars \/ SupResumes \/ SupKilled \/ SupMoves
  BY <1>1 DEF vars, ghosts, SupResumes, SupKilled, SupMoves, SupRefuses, SupRemoves,
         SupCopies
<1>2. ASSUME NEW m \in Orchestrator, FileWork(m)
      PROVE  (lost => lost') /\ UNCHANGED gap
  <2>1. CASE BackendUp(m) \/ ClearsAfter(m)
    BY <2>1 DEF BackendUp, ClearsAfter, ClearRestart
  <2>2. CASE \/ Recover(m) \/ Reuse(m) \/ BackUp(m) \/ StillDown(m) \/ Choose(m)
             \/ Finish(m) \/ ResumedButDown
    BY <2>2 DEF Recover, Reuse, BackUp, StillDown, Choose, Finish, ResumedButDown,
                OnlyRun, ghosts
  <2>5. CASE EnableEnds(m)
    BY <2>5 DEF EnableEnds, ghosts
  <2>3. CASE \/ EnableStarts(m) \/ EnableRecorded(m)
             \/ Handoff(m) \/ Removes(m) \/ Copies(m)
    BY <2>3 DEF EnableStarts, EnableRecorded, Handoff, Removes, Copies, ghosts
  <2>6. CASE InlineRestart(m)
    BY <2>6 DEF InlineRestart, ghosts
  <2>4. CASE \/ Adopt(m) \/ PersistDigest(m) \/ Render(m) \/ Own(m) \/ Mark(m)
             \/ Unlink(m)
    BY <2>4 DEF Adopt, PersistDigest, Render, Own, Mark, Unlink, ghosts
  <2> QED BY <1>2, <2>1, <2>2, <2>3, <2>4, <2>5, <2>6 DEF FileWork
<1>3. ASSUME NEW m \in Orchestrator, IdleWork(m)
      PROVE  UNCHANGED lost /\ (gap = "used" => gap' = "used")
  BY <1>3 DEF IdleWork, Begin, ReadState, FollowEnds, FollowTimesOut, HandedOver, Succeed,
         RecordTerminal, RestoreFails, BackUpFails, Interrupt, Kill, ClaimResumed,
         ShowQr, Leave,
         Stamp, OnlyRun, ghosts
<1>4. ASSUME NEW m \in Orchestrator, Confirm(m) \/ Claim(m) \/ Spawn(m) \/ HandoffTimesOut(m)
      PROVE  (lost => lost') /\ (gap = "used" => gap' = "used")
  <2>1. CASE Confirm(m) \/ Claim(m)
    BY <2>1 DEF Confirm, Claim, ghosts
  <2>2. CASE Spawn(m) \/ HandoffTimesOut(m)
    BY <2>2 DEF Spawn, HandoffTimesOut, Conclude, ghosts
  <2> QED BY <1>4, <2>1, <2>2
<1>5. CASE SupPublishes
  <2>1. CASE SupRegisters \/ SupReady \/ SupHealthy
    BY <2>1 DEF SupRegisters, SupReady, SupHealthy, Publish, StatusOnly
  <2>3. CASE SupRollsBack \/ SupGivesUp
    BY <2>3 DEF SupRollsBack, SupGivesUp, Roll, Parted, Publish
  <2>2. CASE SupRestarts
    <3>1. UNCHANGED lost
      BY <2>2 DEF SupRestarts, Gone, Typed, StatusTyped
    <3>2. Publish("waiting-backend") \/ UNCHANGED gap
      BY <2>2 DEF SupRestarts, Gone, Typed, StatusTyped
    <3> QED BY <3>1, <3>2 DEF Publish
  <2> QED BY <1>5, <2>1, <2>2, <2>3 DEF SupPublishes
<1>6. CASE SupConcludes
  <2>1. CASE SupSucceeds \/ SupKeepsEnable \/ SupAborted
    BY <2>1 DEF SupSucceeds, SupKeepsEnable, SupAborted, Conclude, StatusOnly
  <2>2. CASE SupRestartsOld
    BY <2>2 DEF SupRestartsOld, Conclude
  <2>3. CASE SupRestoreFails \/ SupInterrupted
    BY <2>3 DEF SupRestoreFails, SupInterrupted, Conclude
  <2> QED BY <1>6, <2>1, <2>2, <2>3 DEF SupConcludes
<1> QED BY <1>1, <1>2, <1>3, <1>4, <1>5, <1>6, ByFiles

LEMMA KeptStep == Typed /\ Flight /\ Kept /\ [Next]_vars => Kept'
<1> SUFFICES ASSUME Typed, Flight, Kept, [Next]_vars, ~lost', gap' # "used" PROVE Sane'
  BY DEF Kept
<1>1. Sane /\ Alone
  BY HistoryStays DEF Kept, Flight
<1>2. CASE UNCHANGED vars
  BY <1>1, <1>2 DEF vars, files, Sane, FilesKept, SupKept, SupAt, Fit, InHand, Carried,
                    Claimed, At, Mem
<1>3. ASSUME NEW m \in Orchestrator,
             \/ FileWork(m) \/ IdleWork(m) \/ Confirm(m) \/ Claim(m) \/ Spawn(m)
             \/ HandoffTimesOut(m)
      PROVE  Sane'
  BY <1>1, <1>3, FileWorks, IdleWorks, ConfirmFits, ClaimFits, SpawnFits,
     HandoffTimesOutFits
<1>4. CASE SupFileWork \/ SupIdleWork \/ SupResumes
  BY <1>1, <1>4, SupFileWorks, SupIdleWorks, SupResumesFits
<1>5. SupMoves \/ SupPublishes \/ SupConcludes \/ SupKilled => SupFileWork \/ SupIdleWork
  BY DEF SupMoves, SupPublishes, SupConcludes, SupFileWork, SupIdleWork
<1> QED BY <1>2, <1>3, <1>4, <1>5, ByFiles

LEMMA InitKept == Init => Kept
<1> SUFFICES ASSUME Init PROVE Sane
  BY DEF Kept
<1>1. \A m \in Orchestrator : At(m, "off")
  BY DEF Init, NotRunning, At
<1>2. \A m \in Orchestrator : Fit(m)
  BY <1>1 DEF Fit, InHand, Claimed, At
<1> QED BY <1>2 DEF Init, InitFiles, Sane, FilesKept, SupKept, SupAt, Off, NoResume

LEMMA KeptAlways == Spec => []Kept
BY InitKept, KeptStep, TypedAlways, FlightAlways, PTL DEF Spec

\* However setup was killed, interrupted or timed out, the next one can take
\* the member from there.
THEOREM AlwaysRecoverable == Spec => []Recoverable
<1>1. Typed /\ Kept => Recoverable
  <2> SUFFICES ASSUME Typed, Kept PROVE Recoverable
    OBVIOUS
  <2>1. RollbackKnown
    BY DEF Kept, Sane, FilesKept, RollbackKnown, Settled
  <2>2. PristineRollback
    BY DEF Kept, Sane, FilesKept, SupKept, PristineRollback
  <2>3. InstalledIsOwned
    BY DEF Kept, Sane, FilesKept, InstalledIsOwned, Settled
  <2> QED BY <2>1, <2>2, <2>3 DEF Recoverable
<1> QED BY <1>1, TypedAlways, KeptAlways, PTL

-----------------------------------------------------------------------------
(* What is recorded as a success.                                            *)

LEMMA SameStateKeeps ==
    ASSUME Complete, gap' = "no" => gap = "no", status'.state = status.state,
           UNCHANGED <<resume, reachable, artifact>>, lost => lost',
           sup' = sup \/ sup'.at \notin {"resuming", "watching"},
           run'["child"] = run["child"]
    PROVE  Complete'
BY DEF Complete, SupAt, At

\* While nobody is hidden, a success on record means nobody is at work, and a
\* supervisor that resumes is on record.
LEMMA SuccessIsQuiet ==
    ASSUME Typed, Flight, gap = "no", NEW m \in Orchestrator, Working(m)
    PROVE  Active(status)
BY Distinct DEF Flight, Listed, Working, Engaged, Registered, Orchestrator

LEMMA ResumingIsListed ==
    ASSUME Typed, Flight, gap = "no", sup.at \in {"resuming", "watching"}
    PROVE  /\ Active(status) /\ status.sup = "sup" /\ Busy(status)
           /\ \A t \in Terminal : ~Claimed(t)
           /\ SupAt("resuming") => ~Working("child")
BY DEF Flight, Alone, Listed, SupAt, Busy, Live, Working

\* A working process writes its states; anybody else only what it had none of.
LEMMA QuietSays ==
    ASSUME Typed, NEW m \in Orchestrator, QuietAction(m)
    PROVE  /\ UNCHANGED status \/ (Working(m) /\ status'.state # "succeeded")
           /\ \/ UNCHANGED <<resume, reachable, artifact>>
              \/ Working(m)
              \/ Confirm(m)
<1> USE Distinct
<1>1. CASE FileWork(m)
  <2>1. Working(m)
    BY <1>1 DEF FileWork, Recover, BackendUp, Reuse, BackUp, EnableStarts, EnableEnds,
           EnableRecorded, StillDown, Choose, InlineRestart, Handoff, Removes, Copies,
           ClearsAfter, Adopt, PersistDigest, Render, Own, Finish, Mark, Unlink,
           ResumedButDown, BackendDown, Working, Resumed, Claimed, At
  <2>2. CASE Handoff(m) \/ Mark(m)
    BY <2>1, <2>2 DEF Handoff, Mark, Running, Typed, StatusTyped
  <2>3. CASE \/ Recover(m) \/ Reuse(m) \/ StillDown(m) \/ Choose(m) \/ Finish(m)
             \/ m = "child" /\ ResumedButDown
    BY <2>1, <2>3 DEF Recover, Reuse, StillDown, Choose, Finish, ResumedButDown, OnlyRun,
                files
  <2>4. CASE \/ BackendUp(m) \/ BackUp(m) \/ EnableStarts(m) \/ EnableRecorded(m)
             \/ Removes(m) \/ Copies(m) \/ ClearsAfter(m)
    BY <2>1, <2>4 DEF BackendUp, BackUp, EnableStarts, EnableRecorded, Removes, Copies,
                      ClearsAfter, ClearRestart
  <2>5. CASE Adopt(m) \/ PersistDigest(m) \/ Render(m) \/ Own(m) \/ Unlink(m)
    BY <2>1, <2>5 DEF Adopt, PersistDigest, Render, Own, Unlink
  <2>6. CASE EnableEnds(m) \/ InlineRestart(m)
    <3>1. UNCHANGED status
      BY <2>6 DEF EnableEnds, InlineRestart
    <3> QED BY <2>1, <3>1
  <2> QED BY <1>1, <2>2, <2>3, <2>4, <2>5, <2>6 DEF FileWork
<1>2. CASE \/ m \in Terminal /\ Begin(m)
           \/ ReadState(m) \/ FollowTimesOut(m) \/ RestoreFails(m) \/ BackUpFails(m)
           \/ Interrupt(m)
  BY <1>2 DEF Begin, ReadState, FollowTimesOut, RestoreFails, BackUpFails, Interrupt,
              OnlyRun, files
<1>3. CASE m = "child" /\ ShowQr
  <2>1. Working(m)
    BY <1>3 DEF ShowQr, Working, Resumed, Claimed, At
  <2> QED BY <1>3, <2>1 DEF ShowQr, Outside, Typed, StatusTyped
<1>4. CASE Confirm(m)
  <2>1. m = "child" => Working(m) /\ status' = Running(status)
    BY <1>4 DEF Confirm, Working, Resumed, At
  <2>2. m # "child" => UNCHANGED status
    BY <1>4 DEF Confirm
  <2> QED BY <1>4, <2>1, <2>2 DEF Running, Typed, StatusTyped
<1> QED BY <1>1, <1>2, <1>3, <1>4 DEF QuietAction, FileWork

\* The resumed child, at its work, neither ends nor goes to follow another.
LEMMA QuietChild ==
    ASSUME Typed, QuietAction("child")
    PROVE  run'["child"].at \notin {"off", "claim", "follow"}
<1> USE Distinct
<1> DEFINE Ahead == Place \ {"off", "claim", "follow"}
<1>1. CASE ShowQr
  BY <1>1 DEF ShowQr, At
<1>2. CASE Confirm("child") \/ Mark("child")
  <2>1. PICK mem \in Resume : Remember("child", PhaseOf(mem), mem)
    <3>1. CASE Confirm("child")
      BY <3>1, MemTyped, RecordsTyped DEF Confirm
    <3>2. CASE Mark("child")
      <4>1. Mem("child") \in Resume /\ Mem("child").phase \in 0 .. 2
        BY <3>2, MemTyped DEF Mark, Typed, Placed, PlaceFits
      <4> QED BY <3>2, <4>1, RecordsTyped DEF Mark, Write
    <3> QED BY <1>2, <3>1, <3>2
  <2> QED BY <2>1, Phases, Recalls DEF Typed
<1>3. CASE ~ShowQr /\ ~Confirm("child") /\ ~Mark("child")
  <2>1. \E l \in Ahead : Goto("child", l) \/ \E mem : Remember("child", l, mem)
    BY <1>3 DEF QuietAction, ReadState, FollowTimesOut, Recover, BackendUp, Reuse, BackUp,
            EnableStarts, EnableEnds, EnableRecorded, StillDown, Choose, InlineRestart,
            Handoff, Removes, Copies, ClearsAfter, Adopt, PersistDigest, Render, Own,
            Finish, Unlink, RestoreFails, BackUpFails, Interrupt, ResumedButDown,
            ClearRestart, Write,
            Place, IdlePlace, BackendPlace, InstallPlace
  <2> QED BY <2>1, Goes, Recalls DEF Typed
<1> QED BY <1>1, <1>2, <1>3

LEMMA QuietCompletes ==
    ASSUME Typed, Flight, Complete, NEW m \in Orchestrator, QuietAction(m), lost => lost'
    PROVE  Complete'
<1> USE Distinct
<1> SUFFICES ASSUME gap' = "no" PROVE Complete'
  BY DEF Complete
<1>1. UNCHANGED <<sup, gap>> /\ OthersStay(m)
  BY QuietActions DEF Quiet
<1>2. sup.at \in {"resuming", "watching"} /\ ~Working(m) => UNCHANGED status
  BY QuietSays
<1>3. m # "child" => run'["child"] = run["child"]
  BY <1>1 DEF OthersStay
<1>4. SupAt("resuming")' => status'.state = "resuming"
  BY <1>1, ResumingIsListed, QuietSays DEF Complete, SupAt, Working, Orchestrator
<1>5. SupAt("watching")' =>
         /\ ~(At("child", "off")' /\ run'["child"].code = "ok")
         /\ run'["child"].at \in {"claim", "follow"} => status'.state # "waiting-qr"
  <2>1. CASE m = "child"
    BY <2>1, QuietChild DEF At
  <2>2. CASE m # "child"
    BY <1>1, <1>3, <2>2, ResumingIsListed, QuietSays
       DEF Complete, SupAt, Working, Orchestrator, At
  <2> QED BY <2>1, <2>2
<1>6. status'.state = "succeeded" /\ ~lost' => artifact' = "written" /\ reachable' /\ ~resume'.has
  <2> SUFFICES ASSUME status'.state = "succeeded", ~lost'
               PROVE  artifact' = "written" /\ reachable' /\ ~resume'.has
    OBVIOUS
  <2>1. status' = status
    BY QuietSays
  <2>2. ~Working(m)
    BY <1>1, <2>1, SuccessIsQuiet DEF Active, TERMINAL_STATES
  <2>3. artifact = "written" /\ reachable /\ ~resume.has
    BY <1>1, <2>1 DEF Complete
  <2>4. CASE Confirm(m)
    BY <2>3, <2>4 DEF Confirm, Outside
  <2>5. CASE UNCHANGED <<resume, reachable, artifact>>
    BY <2>3, <2>5
  <2> QED BY <2>2, <2>4, <2>5, QuietSays
<1> QED BY <1>4, <1>5, <1>6 DEF Complete

LEMMA ClaimCompletes ==
    ASSUME Typed, Flight, Complete, NEW m \in Orchestrator, Claim(m)
    PROVE  Complete'
<1> USE Distinct
<1>1. /\ m # "child" /\ run'["child"] = run["child"] /\ UNCHANGED <<sup, artifact>>
      /\ UNCHANGED <<resume, reachable>>
  BY DEF Claim, Outside, Goto, Typed, RunTyped
<1>2. CASE ~MayClaim(m)
  <2>1. UNCHANGED <<status, gap, lost>>
    BY <1>2 DEF Claim, ghosts
  <2> QED BY <1>1, <2>1, SameStateKeeps
<1>3. CASE MayClaim(m)
  <2> SUFFICES ASSUME gap' = "no" PROVE Complete'
    BY DEF Complete
  <2>1. gap = "no" /\ status'.state = "running"
    BY <1>3 DEF Claim, Typed, StatusTyped
  <2>2. sup'.at \notin {"resuming", "watching"}
    BY <1>1, <1>3, <2>1, ResumingIsListed DEF MayClaim
  <2> QED BY <2>1, <2>2 DEF Complete, SupAt
<1> QED BY <1>2, <1>3

\* Who ends without a record changes only who the status file names.
LEMMA EndsUnrecorded ==
    ASSUME Typed, Complete, NEW m \in Orchestrator, NEW c \in {"ok", "err"}, Exit(m, c),
           m = "child" /\ c = "ok" => ~(gap = "no" /\ SupAt("watching")),
           gap' = "no" => gap = "no", status'.state = status.state,
           UNCHANGED <<resume, reachable, artifact, lost, sup>>
    PROVE  Complete'
<1> USE Distinct
<1>1. CASE m # "child"
  <2>1. run'["child"] = run["child"]
    BY <1>1, ExitLeaves DEF OthersStay
  <2> QED BY <2>1, SameStateKeeps
<1>2. CASE m = "child"
  <2>1. At("child", "off")' /\ run'["child"].code = c
    BY <1>2 DEF Exit, Typed, RunTyped, At, NotRunning
  <2> QED BY <1>2, <2>1 DEF Complete, SupAt, At
<1> QED BY <1>1, <1>2

LEMMA FollowEndsCompletes ==
    ASSUME Typed, Flight, Complete, NEW m \in Orchestrator, FollowEnds(m) \/ HandedOver(m)
    PROVE  Complete'
<1> USE Distinct
<1>1. PICK c \in {"ok", "err"} :
          /\ Leave(m, c)
          /\ c = "ok" /\ m = "child" => /\ At(m, "follow")
                                        /\ status.state \in TERMINAL_STATES \cup {"waiting-qr"}
  <2>1. CASE FollowEnds(m)
    BY <2>1 DEF FollowEnds
  <2>2. CASE HandedOver(m)
    <3>1. m # "child"
      BY <2>2 DEF HandedOver, At, Typed, Placed, BackendPlace
    <3> QED BY <2>2, <3>1 DEF HandedOver
  <2> QED BY <2>1, <2>2
<1>2. /\ Exit(m, c) /\ status'.state = status.state
      /\ UNCHANGED <<resume, reachable, artifact, lost, sup, gap>>
  BY <1>1 DEF Leave, Outside, ghosts, Typed, StatusTyped
<1>3. m = "child" /\ c = "ok" => ~(gap = "no" /\ SupAt("watching"))
  BY <1>1, ResumingIsListed DEF Complete, Active, At, SupAt
<1> QED BY <1>2, <1>3, EndsUnrecorded

LEMMA KillCompletes ==
    ASSUME Typed, Complete, NEW m \in Orchestrator, Kill(m)
    PROVE  Complete'
<1>1. /\ Exit(m, "err") /\ status'.state = status.state
      /\ UNCHANGED <<resume, reachable, artifact, lost, sup>>
      /\ gap' = "no" => gap = "no"
  BY DEF Kill, Gone, Typed, StatusTyped
<1> QED BY <1>1, EndsUnrecorded

\* A terminal record of a success is that of a setup that completed.
LEMMA StampCompletes ==
    ASSUME Complete, NEW m \in Orchestrator, NEW state, Stamp(m, state),
           state = "succeeded" /\ ~lost /\ gap # "used" =>
               artifact = "written" /\ reachable /\ ~resume.has
    PROVE  Complete'
<1> SUFFICES ASSUME gap' = "no" PROVE Complete'
  BY DEF Complete
<1>1. SupAt("off") /\ gap # "used" /\ status'.state = state
      /\ UNCHANGED <<resume, reachable, artifact, lost, sup>>
  BY DEF Stamp, Outside, Ended, NoStatus
<1> QED BY <1>1 DEF Complete, SupAt

LEMMA RecordCompletes ==
    ASSUME Typed, Kept, Complete, NEW m \in Orchestrator, RecordTerminal(m) \/ Succeed(m)
    PROVE  Complete'
<1>1. CASE Succeed(m)
  <2>1. ~lost /\ gap # "used" => artifact = "written" /\ reachable /\ ~resume.has
    BY <1>1 DEF Succeed, Kept, Sane, Fit, InHand, Claimed, Carried, At
  <2> QED BY <1>1, <2>1, StampCompletes DEF Succeed
<1>2. CASE RecordTerminal(m) /\ MayStamp(m)
  <2>1. PICK state \in {"failed", "interrupted"} : Stamp(m, state)
    BY <1>2 DEF RecordTerminal
  <2> QED BY <2>1, StampCompletes
<1>3. CASE RecordTerminal(m) /\ ~MayStamp(m)
  <2>1. Exit(m, "err")
        /\ UNCHANGED <<status, resume, reachable, artifact, lost, sup, gap>>
    BY <1>3 DEF RecordTerminal, files, ghosts
  <2> QED BY <2>1, EndsUnrecorded
<1> QED BY <1>1, <1>2, <1>3

LEMMA HandoffTimesOutCompletes ==
    ASSUME Typed, Complete, NEW m \in Orchestrator, HandoffTimesOut(m)
    PROVE  Complete'
<1> USE Distinct
<1>1. UNCHANGED <<resume, reachable, artifact, lost>> /\ SupAt("off")'
  BY DEF HandoffTimesOut, StopsSupervisor, Conclude, SupAt, Off
<1>2. CASE SupAt("off")
  <2>1. UNCHANGED <<status, gap>>
    BY <1>2 DEF HandoffTimesOut
  <2> QED BY <1>1, <2>1 DEF Complete, SupAt
<1>3. CASE ~SupAt("off")
  <2>1. status'.state = "interrupted"
    BY <1>3 DEF HandoffTimesOut, StopsSupervisor, Conclude, Ended, NoStatus
  <2> QED BY <1>1, <2>1 DEF Complete, SupAt
<1> QED BY <1>2, <1>3

LEMMA SpawnCompletes ==
    ASSUME Typed, Complete, NEW m \in Orchestrator, Spawn(m)
    PROVE  Complete'
<1> USE Distinct
<1>1. m # "child" /\ UNCHANGED <<status, resume, reachable, artifact, gap, lost>>
  BY DEF Spawn, files, ghosts, At, Typed, Placed, BackendPlace
<1>2. run'["child"] = run["child"]
  BY <1>1 DEF Spawn, Goto, Typed, RunTyped
<1>3. UNCHANGED sup \/ sup'.at = "starting"
  BY DEF Spawn, Off
<1> QED BY <1>1, <1>2, <1>3, SameStateKeeps

LEMMA ClaimResumedCompletes ==
    ASSUME Typed, Flight, Complete, ClaimResumed
    PROVE  Complete'
<1> SUFFICES ASSUME gap' = "no" PROVE Complete'
  BY DEF Complete
<1>1. /\ At("child", "claim") /\ run'["child"].at \in {"read", "follow"}
      /\ status'.state = status.state
      /\ UNCHANGED <<resume, reachable, artifact, lost, sup>>
  BY Distinct DEF ClaimResumed, Outside, Goto, Typed, RunTyped, StatusTyped, Orchestrator
<1>2. gap = "no"
  BY DEF ClaimResumed
<1> QED BY <1>1, <1>2 DEF Complete, SupAt, At

LEMMA SupResumesCompletes ==
    ASSUME Typed, Complete, SupResumes PROVE Complete'
<1>1. /\ UNCHANGED <<status, resume, reachable, artifact, gap, lost>>
      /\ SupAt("resuming") /\ SupAt("watching")' /\ At("child", "claim")'
  BY Distinct
     DEF SupResumes, files, ghosts, SupGoto, SupAt, At, NotRunning, Typed, RunTyped,
         SupTyped
<1> QED BY <1>1 DEF Complete, SupAt, At

LEMMA SupPublishesCompletes ==
    ASSUME Typed, SupPublishes PROVE Complete'
<1>1. \/ SupAt("resuming")' /\ status'.state = "resuming"
      \/ sup'.at \notin {"resuming", "watching"} /\ status'.state # "succeeded"
  <2>1. CASE SupRegisters \/ SupReady \/ SupHealthy
    BY <2>1 DEF SupRegisters, SupReady, SupHealthy, Publish, SupGoto, SupAt, Typed,
                StatusTyped, SupTyped
  <2>2. CASE SupRestarts
    BY <2>2 DEF SupRestarts, Publish, SupGoto, Gone, Typed, StatusTyped, SupTyped
  <2>3. CASE SupRollsBack \/ SupGivesUp
    BY <2>3 DEF SupRollsBack, SupGivesUp, Roll, RollbackState, Publish, Gone, Typed,
                StatusTyped, SupTyped
  <2> QED BY <2>1, <2>2, <2>3 DEF SupPublishes
<1> QED BY <1>1 DEF Complete, SupAt

LEMMA SupConcludesCompletes ==
    ASSUME Typed, Complete, SupConcludes PROVE Complete'
<1> SUFFICES ASSUME gap' = "no" PROVE Complete'
  BY DEF Complete
<1>1. SupAt("off")' /\ gap = "no" /\ status'.state # "succeeded"
  <2>1. CASE SupSucceeds
    BY <2>1 DEF SupSucceeds, Conclude, Complete, At, SupAt, Ended, NoStatus
  <2>2. CASE SupKeepsEnable
    BY <2>2 DEF SupKeepsEnable, Conclude, SupAt, Off, Ended, NoStatus
  <2>3. CASE SupAborted \/ SupRestoreFails \/ SupInterrupted
    BY <2>3 DEF SupAborted, RollbackEnd, SupRestoreFails, SupInterrupted, Conclude, SupAt,
                Off, Ended, NoStatus
  <2>4. CASE SupRestartsOld
    <3>1. PICK state \in {"rolled-back", "failed", "double-failure"} : Conclude(state)
      BY <2>4 DEF SupRestartsOld, RollbackEnd
    <3> QED BY <3>1 DEF Conclude, SupAt, Off, Ended, NoStatus
  <2> QED BY <2>1, <2>2, <2>3, <2>4 DEF SupConcludes
<1> QED BY <1>1 DEF Complete, SupAt

LEMMA SupKilledCompletes ==
    ASSUME Typed, Complete, SupKilled \/ SupMoves PROVE Complete'
<1>1. CASE SupKilled
  <2>1. /\ status'.state = status.state /\ sup' = Off
        /\ UNCHANGED <<resume, reachable, artifact, gap, lost, run>>
    BY <1>1 DEF SupKilled, Gone, Unchanged4, ghosts, Typed, StatusTyped
  <2> QED BY <2>1, SameStateKeeps DEF Off
<1>2. CASE SupMoves
  <2>1. UNCHANGED <<status, resume, reachable, artifact, gap, lost, run>>
    BY <1>2 DEF SupMoves, SupRefuses, SupRemoves, SupCopies, Unchanged4, files, ghosts
  <2>2. sup'.at \in {"remove", "copy", "restored"}
    BY <1>2 DEF SupMoves, SupRefuses, SupRemoves, SupCopies, SupGoto, Typed, SupTyped
  <2> QED BY <2>1, <2>2, SameStateKeeps
<1> QED BY <1>1, <1>2

LEMMA CompleteStep == Typed /\ Flight /\ Kept /\ Complete /\ [Next]_vars => Complete'
<1> SUFFICES ASSUME Typed, Flight, Kept, Complete, [Next]_vars PROVE Complete'
  OBVIOUS
<1>1. CASE UNCHANGED vars
  BY <1>1 DEF vars, files, ghosts, Complete, SupAt, At
<1>2. ASSUME NEW m \in Orchestrator, QuietAction(m) PROVE Complete'
  BY <1>2, QuietCompletes, HistoryStays
<1>3. ASSUME NEW m \in Orchestrator,
             \/ Claim(m) \/ FollowEnds(m) \/ HandedOver(m) \/ HandoffTimesOut(m)
             \/ Spawn(m) \/ Succeed(m) \/ RecordTerminal(m) \/ Kill(m)
      PROVE  Complete'
  BY <1>3, ClaimCompletes, FollowEndsCompletes, HandoffTimesOutCompletes, SpawnCompletes,
     RecordCompletes, KillCompletes
<1>4. CASE ClaimResumed \/ SupResumes \/ SupKilled
  BY <1>4, ClaimResumedCompletes, SupResumesCompletes, SupKilledCompletes
<1>5. CASE SupMoves \/ SupPublishes \/ SupConcludes
  BY <1>5, SupKilledCompletes, SupPublishesCompletes, SupConcludesCompletes
<1> QED BY <1>1, <1>2, <1>3, <1>4, <1>5, ByEffect

LEMMA InitComplete == Init => Complete
BY DEF Init, InitFiles, Complete, SupAt, Off, NoStatus

\* "succeeded" is on record only when every phase was completed, whichever
\* process wrote it: the service is installed, the backend answers and the
\* resume state is gone.
THEOREM SuccessAlwaysComplete == Spec => []SuccessIsComplete
<1>1. Complete => SuccessIsComplete
  BY DEF Complete, SuccessIsComplete
<1>2. Spec => []Complete
  BY InitComplete, CompleteStep, TypedAlways, FlightAlways, KeptAlways, PTL DEF Spec
<1> QED BY <1>1, <1>2, PTL

=============================================================================
