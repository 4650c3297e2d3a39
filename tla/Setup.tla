------------------------------- MODULE Setup -------------------------------
(***************************************************************************)
(* Setup commands typed at several terminals, the restart supervisor and   *)
(* the child it resumes, sharing one member's files.                       *)
(***************************************************************************)
EXTENDS SetupOrchestrator

Init == InitFiles /\ run = [m \in Orchestrator |-> NotRunning] /\ sup = Off

\* Nobody runs, and no more commands are typed.
AllOff == sup.at = "off" /\ \A m \in Orchestrator : run[m].at = "off"
Rest == AllOff /\ bounds.runs = MaxRuns /\ UNCHANGED vars

Next ==
    \/ SupWorks \/ SupStops \/ ResumedWorks \/ ShowQr \/ Rest
    \/ \E m \in Orchestrator : Begin(m) \/ Works(m) \/ Stops(m)

\* A process that runs takes its next step; every wait ends or times out.
Fairness == /\ WF_vars(SupWorks)
            /\ \A m \in Orchestrator : WF_vars(Works(m) \/ (m = "child" /\ ResumedWorks))
Spec == Init /\ [][Next]_vars /\ Fairness

-----------------------------------------------------------------------------
Resume == [has : BOOLEAN, manifest : {"none", "empty", "old", "partial", "new", "gone"},
           done : BOOLEAN, own : {"no", "digest", "owned"}, phase : 0 .. 3]

\* Every variable holds a value of its type.
TypeOK ==
    /\ status \in [state : TERMINAL_STATES \cup
                           {"none", "running", "handoff", "validating", "ready",
                            "waiting-backend", "resuming", "waiting-qr",
                            "rolling-back", "recovering"},
                   orch : Orchestrator \cup {"none", "dead"},
                   sup : {"none", "sup", "dead"}]
    /\ resume \in Resume
    /\ config \in {"old", "partial", "new", "gone"} /\ reachable \in BOOLEAN
    /\ artifact \in {"none", "written"}
    /\ kind \in {"local", "inline", "supervised"} /\ declared \in BOOLEAN
    /\ \A m \in Orchestrator : run[m].mem \in Resume /\ run[m].code \in {"ok", "err"}
    /\ sup.manifest \in {"none", "empty", "old", "partial", "new", "gone"}
    /\ gap \in {"no", "hidden", "used"} /\ lost \in BOOLEAN

-----------------------------------------------------------------------------
Claimed(m) == run[m].at \notin {"off", "follow", "read", "confirm", "claim", "handed",
                                "failing", "stopping"}
Flights == {m \in Terminal : Claimed(m)} \cup
           (IF sup.at # "off" \/ Claimed("child") THEN {"sup"} ELSE {})

\* Two setups never change this member at once: a command typed while another
\* setup or its supervisor works follows it (setup_orchestrator.py:1895-1910),
\* unless a live supervisor had dropped out of the status file when the claim
\* was made (a terminal record written over it, or its parent killed first).
OneSetup == gap = "used" \/ Cardinality(Flights) <= 1

\* Nothing runs any more and the run that stopped worked from current state.
Settled == AllOff /\ ~lost /\ gap # "used"

\* Wherever setup is killed, a declared brain configuration that is neither
\* the original nor one verified to work is one the resume state can take back
\* (without declared paths the code restores nothing, and says so).
RollbackKnown ==
    Settled /\ declared =>
               \/ config = "old"
               \/ config = "new" /\ reachable
               \/ resume.manifest = "old"

\* The rollback point is what the declared configuration was before setup
\* touched it, however many attempts were cut short and rerun.
Original == IF declared THEN "old" ELSE "empty"
PristineRollback ==
    ~lost /\ gap # "used" => {resume.manifest, sup.manifest} \subseteq {"none", Original}

\* A service configuration left by a killed setup can be proved ours by the
\* next one, so it is adopted and never taken for another member's.
InstalledIsOwned ==
    Settled /\ artifact = "written" /\ resume.has => resume.own # "no"

\* However a setup was cut short, the next one can take it from there: back to
\* the original configuration, or on with what was installed.
Recoverable == RollbackKnown /\ PristineRollback /\ InstalledIsOwned

\* "succeeded" is only recorded when every phase was completed.
SuccessIsComplete ==
    status.state = "succeeded" /\ ~lost /\ gap = "no"
        => artifact = "written" /\ reachable /\ ~resume.has

\* Every setup process ends, whoever it waits for: a follower for its owner,
\* a supervisor for its child, a parent for its supervisor.
EveryRunEnds == <>[]AllOff

-----------------------------------------------------------------------------
(* What the code says and does not keep.                                    *)

\* "rerun the same setup command to restart the flow from the backend phase":
\* whoever restarts the backend to reach the enabled service has enabled it.
RestartsWhatItEnabled ==
    /\ sup.at = "ready" => config = "new"
    /\ \A m \in Terminal : run[m].at = "restart" => config = "new"
=============================================================================
