------------------------------- MODULE Avatar -------------------------------
(***************************************************************************)
(* avatar_engine.AvatarEngine and the gateway's avatar routes: a photo is  *)
(* stylized into a base, the approved base into a set of pictures, the     *)
(* approved set published as the member's assets.  HTTP handlers run       *)
(* concurrently with each other and with the job's worker thread.          *)
(***************************************************************************)
EXTENDS AvatarProvider

CONSTANTS Handler,    \* HTTP handler threads
          Cred,       \* credentials a request may bring
          MaxPasses,  \* bound: passes that generate a set
          MaxCandidates   \* candidates drawn for one picture

ASSUME AvatarConstants == MaxPasses \in Nat /\ MaxCandidates \in Nat \ {0}

\* The icon is drawn from the base; the rest come from the provider.
GATEWAY_SLOTS == {"icon", "idle"}
Pass == 1 .. MaxPasses
NoFiles == [s \in GATEWAY_SLOTS |-> 0]

VARIABLES job,      \* per job: stage, bound credential, the set to approve
          engine,   \* [current: AvatarEngine._job, active: _active_job, jobs]
          worker,   \* per job: its thread
          handler,  \* per handler: its request
          disk,     \* per output directory: which pass drew each picture
          passes,   \* passes begun
          assets    \* the member's live pictures

vars == <<call, job, engine, worker, handler, disk, passes, assets>>

NoJob == [stage |-> "idle", cred |-> "none", asked |-> "none", set |-> 0]
NoWorker == [at |-> "off", kind |-> "stylize", cred |-> "none", pass |-> 0, dir |-> 0,
             left |-> 0, best |-> FALSE]
NoRequest == [at |-> "idle", stage |-> "idle", job |-> 0, cred |-> "none",
              set |-> 0, data |-> NoFiles]

Init ==
    /\ InitCalls
    /\ job = [j \in Job |-> NoJob] /\ worker = [j \in Job |-> NoWorker]
    /\ handler = [h \in Handler |-> NoRequest]
    /\ engine = [current |-> 0, active |-> 0, jobs |-> 0]
    /\ disk = [d \in Pass |-> NoFiles] /\ passes = 0 /\ assets = NoFiles

At(h, l) == handler[h].at = l
Answer(h) == handler' = [handler EXCEPT ![h] = NoRequest]
Staged(j, stage) == job' = [job EXCEPT ![j].stage = stage]
\* _clear_pass_unlocked (asked: who started the pass under way).
Unbound(j) == [job[j] EXCEPT !.cred = "none", !.asked = "none"]
Ready(st) == st \in {"awaiting_base_approval", "awaiting_set_approval"}

-----------------------------------------------------------------------------
(* Requests.                                                                *)

\* _claim_job: refused while another job is not done or failed.
Busy == engine.active # 0 /\ job[engine.active].stage \notin {"done", "failed"}

Stylize(h) ==
    /\ At(h, "idle") /\ engine.jobs < MaxJobs /\ ~Busy
    /\ LET n == engine.jobs + 1
       IN /\ engine' = [current |-> n, active |-> n, jobs |-> n]
          /\ \E c \in Cred :
                job' = [job EXCEPT ![n] = [NoJob EXCEPT !.stage = "stylizing",
                                                        !.cred = c, !.asked = c]]
          /\ handler' = [handler EXCEPT ![h].at = "start", ![h].job = n]
    /\ UNCHANGED <<call, worker, disk, passes, assets>>

\* start_thread.
StartThread(h) ==
    /\ At(h, "start")
    /\ LET j == handler[h].job
       IN worker' = [worker EXCEPT ![j] = [NoWorker EXCEPT !.at = "start",
            !.kind = IF job[j].stage = "stylizing" THEN "stylize" ELSE "set"]]
    /\ Answer(h)
    /\ UNCHANGED <<call, job, engine, disk, passes, assets>>

\* The route reads the stage first, and acts on the job it finds later.
Regenerate(h) ==
    /\ At(h, "idle") /\ engine.current # 0 /\ Ready(job[engine.current].stage)
    /\ \E c \in Cred :
          handler' = [handler EXCEPT ![h].at = "require", ![h].cred = c,
                                     ![h].stage = job[engine.current].stage]
    /\ UNCHANGED <<call, job, engine, worker, disk, passes, assets>>

\* The description is read or asked for before the job is looked up.
ApproveBase(h) ==
    /\ At(h, "idle") /\ engine.current # 0
    /\ \E c \in Cred :
          handler' = [handler EXCEPT ![h].at = "require", ![h].cred = c,
                                     ![h].stage = "approve_base"]
    /\ UNCHANGED <<call, job, engine, worker, disk, passes, assets>>

\* assert_pass_credentials and _require_job.
Swaps(h) ==
    /\ handler[h].stage # "approve_base"
    /\ job[engine.current].cred \notin {"none", handler[h].cred}
RequireJob(h) ==
    /\ At(h, "require")
    /\ IF engine.current = 0 \/ Swaps(h)
       THEN Answer(h)
       ELSE handler' = [handler EXCEPT ![h].at = "commit", ![h].job = engine.current]
    /\ UNCHANGED <<call, job, engine, worker, disk, passes, assets>>

\* regenerate_base, approve_base and regenerate_set, under the job's lock.
Needs(stage) == IF stage = "approve_base" THEN "awaiting_base_approval" ELSE stage
Becomes(stage) == IF stage = "awaiting_base_approval" THEN "stylizing" ELSE "generating"
NeverGone(j) == TRUE
StillCurrent(j) == engine.current = j
BindAnyway(j, c, goes) == [job EXCEPT ![j].cred = c, ![j].asked = IF goes THEN c ELSE @]
Bind(j, c, goes) == IF goes THEN [job EXCEPT ![j].cred = c, ![j].asked = c] ELSE job
Commit(h) ==
    /\ At(h, "commit")
    /\ LET r == handler[h]
           goes == /\ StillCurrent(r.job) /\ job[r.job].stage = Needs(r.stage)
                   /\ Becomes(r.stage) = "generating" => passes < MaxPasses
       IN /\ job' = [Bind(r.job, r.cred, goes) EXCEPT
                        ![r.job].stage = IF goes THEN Becomes(r.stage) ELSE @]
          /\ IF goes THEN handler' = [handler EXCEPT ![h] = [NoRequest EXCEPT
                                        !.at = "start", !.job = r.job]]
                     ELSE Answer(h)
          /\ passes' = IF goes /\ Becomes(r.stage) = "generating"
                       THEN passes + 1 ELSE passes
    /\ UNCHANGED <<call, engine, worker, disk, assets>>

CancelsAlways(stage) == TRUE
Cancellable(stage) == Ready(stage) \/ stage \in {"failed", "done"}
Cancel(h) ==
    /\ At(h, "idle") /\ engine.current # 0
    /\ LET j == engine.current
       IN /\ Cancellable(job[j].stage)
          /\ job' = [job EXCEPT ![j] = Unbound(j)]
          /\ engine' = [engine EXCEPT !.current = 0,
                                      !.active = IF @ = j THEN 0 ELSE @]
    /\ UNCHANGED <<call, worker, handler, disk, passes, assets>>

-----------------------------------------------------------------------------
(* Approving the set: the pictures are read, the job committed, and what    *)
(* was read is published.                                                   *)

ApproveSet(h) ==
    /\ At(h, "idle") /\ engine.current # 0
    /\ job[engine.current].stage = "awaiting_set_approval"
    /\ handler' = [handler EXCEPT ![h].at = "read", ![h].set = job[engine.current].set]
    /\ UNCHANGED <<call, job, engine, worker, disk, passes, assets>>

ReadPicture(h) ==
    /\ At(h, "read")
    /\ LET r == handler[h]
           left == {s \in GATEWAY_SLOTS : r.data[s] = 0}
       IN IF left = {}
          THEN handler' = [handler EXCEPT ![h].at = "approve"]
          ELSE LET s == IF "icon" \in left THEN "icon" ELSE "idle"
               IN handler' = [handler EXCEPT ![h].data[s] = disk[r.set][s]]
    /\ UNCHANGED <<call, job, engine, worker, disk, passes, assets>>

\* AvatarEngine.approve_set.
RequireSet(h) ==
    /\ At(h, "approve")
    /\ IF engine.current = 0 THEN Answer(h)
       ELSE handler' = [handler EXCEPT ![h].at = "done", ![h].job = engine.current]
    /\ UNCHANGED <<call, job, engine, worker, disk, passes, assets>>
Approved(h) ==
    /\ At(h, "done")
    /\ LET j == handler[h].job
       IN IF StillCurrent(j) /\ job[j].stage = "awaiting_set_approval"
          THEN Staged(j, "done") /\ handler' = [handler EXCEPT ![h].at = "release"]
          ELSE Answer(h) /\ UNCHANGED job
    /\ UNCHANGED <<call, engine, worker, disk, passes, assets>>

\* _release_job, only of the job's own claim.
Released(j) == [engine EXCEPT !.active = IF @ = j THEN 0 ELSE @]
Release(h) ==
    /\ At(h, "release") /\ engine' = Released(handler[h].job)
    /\ handler' = [handler EXCEPT ![h].at = "publish"]
    /\ UNCHANGED <<call, job, worker, disk, passes, assets>>
Publish(h) ==
    /\ At(h, "publish") /\ Answer(h)
    /\ assets' \in {handler[h].data, assets}    \* the directories may not be swapped
    /\ UNCHANGED <<call, job, engine, worker, disk, passes>>

-----------------------------------------------------------------------------
(* The worker thread: _run_stylize and _run_generate_set.  It takes over    *)
(* the bound clients, or raises when there are none.                        *)

\* A new directory for every pass.
OneDir(j) == j
FreshDir(j) == passes
WorkerStarts(j) ==
    /\ worker[j].at = "start" /\ job[j].cred # "none" /\ Generate(j)
    /\ IF worker[j].kind = "stylize"
       THEN /\ worker' = [worker EXCEPT ![j].at = "wait", ![j].cred = job[j].cred]
            /\ UNCHANGED disk
       ELSE /\ worker' = [worker EXCEPT ![j].at = "wait", ![j].cred = job[j].cred,
                                        ![j].pass = passes, ![j].dir = FreshDir(j),
                                        ![j].left = MaxCandidates - 1]
            /\ disk' = [disk EXCEPT ![FreshDir(j)].icon = passes]
    /\ UNCHANGED <<job, engine, handler, passes, assets>>

\* The picture has come, or the best of several; of a set the last one is written and the set offered.
Drawn(j) ==
    /\ worker[j].at = "wait"
    /\ call[j].at = "got" \/ (call[j].at = "lost" /\ worker[j].best)
    /\ IF worker[j].kind = "stylize"
       THEN /\ job' = [job EXCEPT ![j] = [Unbound(j) EXCEPT !.stage = "awaiting_base_approval"]]
            /\ worker' = [worker EXCEPT ![j] = NoWorker]
            /\ UNCHANGED disk
       ELSE /\ disk' = [disk EXCEPT ![worker[j].dir].idle = worker[j].pass]
            /\ worker' = [worker EXCEPT ![j].at = "offer"]
            /\ UNCHANGED job
    /\ call' = [call EXCEPT ![j] = NoCall]
    /\ UNCHANGED <<engine, handler, passes, assets>>
Offer(j) ==
    /\ worker[j].at = "offer"
    /\ job' = [job EXCEPT ![j] = [Unbound(j) EXCEPT !.stage = "awaiting_set_approval",
                                                     !.set = worker[j].dir]]
    /\ worker' = [worker EXCEPT ![j] = NoWorker]
    /\ UNCHANGED <<call, engine, handler, disk, passes, assets>>

\* generate_frame_with_retries: a candidate that drifted from the base, or was
\* lost on the way, is replaced by another one while the budget lasts; then the
\* best that came is taken.
Another(j) ==
    /\ worker[j].at = "wait" /\ worker[j].kind = "set" /\ worker[j].left > 0
    /\ call[j].at \in {"got", "lost"} /\ Generate(j)
    /\ worker' = [worker EXCEPT ![j].left = @ - 1, ![j].best = @ \/ call[j].at = "got"]
    /\ UNCHANGED <<job, engine, handler, disk, passes, assets>>

\* Any exception: _fail_job, then the claim is released.
ForgetsError(j) == UNCHANGED job
RecordError(j) == job' = [job EXCEPT ![j] = [Unbound(j) EXCEPT !.stage = "failed"]]
Fails(j) ==
    /\ \/ worker[j].at = "wait" /\ call[j].at = "raised"
       \/ /\ worker[j].at = "wait" /\ call[j].at = "lost"
          /\ worker[j].kind = "stylize" \/ (worker[j].left = 0 /\ ~worker[j].best)
       \/ worker[j].at \in {"start", "offer"}
    /\ RecordError(j) /\ worker' = [worker EXCEPT ![j].at = "release"]
    /\ call' = [call EXCEPT ![j] = NoCall]
    /\ UNCHANGED <<engine, handler, disk, passes, assets>>
WorkerReleases(j) ==
    /\ worker[j].at = "release" /\ engine' = Released(j)
    /\ worker' = [worker EXCEPT ![j] = NoWorker]
    /\ UNCHANGED <<call, job, handler, disk, passes, assets>>

Draws(j) == Provides(j) /\ UNCHANGED <<job, engine, worker, handler, disk, passes, assets>>
Works(j) == Draws(j) \/ Another(j) \/ WorkerStarts(j) \/ Drawn(j) \/ Offer(j) \/ Fails(j) \/ WorkerReleases(j)
Serves(h) == StartThread(h) \/ RequireJob(h) \/ Commit(h) \/ ReadPicture(h) \/ RequireSet(h)
             \/ Approved(h) \/ Release(h) \/ Publish(h)
Requests(h) == Stylize(h) \/ Regenerate(h) \/ ApproveBase(h) \/ Cancel(h) \/ ApproveSet(h)

\* Nobody asks for anything.
Rest == /\ \A h \in Handler : At(h, "idle")
        /\ \A j \in Job : worker[j].at = "off"
        /\ UNCHANGED vars

Next == Rest \/ (\E h \in Handler : Requests(h) \/ Serves(h)) \/ (\E j \in Job : Works(j))

Fairness == /\ \A h \in Handler : WF_vars(Serves(h))
            /\ \A j \in Job : WF_vars(Works(j))
Spec == Init /\ [][Next]_vars /\ Fairness

-----------------------------------------------------------------------------
Stage == {"idle", "stylizing", "awaiting_base_approval", "generating",
          "awaiting_set_approval", "done", "failed"}
Drawing(f) == \A s \in GATEWAY_SLOTS : f[s] \in 0 .. MaxPasses

\* Every variable holds a value of its type.
TypeOK ==
    /\ \A j \in Job : /\ job[j].stage \in Stage
                      /\ {job[j].cred, job[j].asked, worker[j].cred} \subseteq Cred \cup {"none"}
                      /\ job[j].set \in 0 .. MaxPasses
                      /\ worker[j].pass \in 0 .. MaxPasses
                      /\ worker[j].left \in 0 .. MaxCandidates - 1
                      /\ call[j].attempt \in 0 .. RETRY_ATTEMPTS - 1
    /\ engine.current \in 0 .. engine.jobs /\ engine.active \in 0 .. engine.jobs
    /\ \A h \in Handler : Drawing(handler[h].data)
    /\ \A d \in Pass : Drawing(disk[d])
    /\ passes \in 0 .. MaxPasses /\ Drawing(assets)

\* Only one avatar pass draws (and is billed) at a time in this process, and
\* it is the current job's (avatar_engine.py:819-828), however jobs fail, are
\* cancelled, approved and started over by concurrent requests.
Generating == {j \in Job : worker[j].at \in {"start", "wait", "offer"}}
OneGeneration == Cardinality(Generating) <= 1 /\ Generating \subseteq {engine.current}

\* A pass spends the credentials of the request that started it, never those
\* a later request brought while it was under way (avatar_engine.py:885-889).
PaysForItself ==
    \A j \in Job : worker[j].at \in {"wait", "offer"} => worker[j].cred = job[j].asked

\* What is published is one whole set, all of it drawn by the same pass, while
\* the set is being regenerated (avatar_engine.py:702-704).
PublishedWhole ==
    /\ \E p \in 0 .. MaxPasses : \A s \in GATEWAY_SLOTS : assets[s] = p
    /\ \A h \in Handler : handler[h].at \in {"release", "publish"} =>
          \E p \in Pass : \A s \in GATEWAY_SLOTS : handler[h].data[s] = p

\* A job that was cancelled, or replaced by a new one, is over: no request
\* that had looked it up before generates or approves it any more.
OverIsOver ==
    [][\A j \in 1 .. engine.jobs : engine.current # j => job'[j].stage = job[j].stage]_vars

\* A pass under way ends, in a result to approve or a failure the phone sees:
\* whatever the provider answers, the member is not left busy for ever.
GenerationEnds ==
    \A j \in Job : job[j].stage \in {"stylizing", "generating"} ~>
                  job[j].stage \notin {"stylizing", "generating"}
=============================================================================
