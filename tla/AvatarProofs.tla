---------------------------- MODULE AvatarProofs ----------------------------
(* Proofs about Avatar, for every number of handlers, jobs, passes,          *)
(* credentials, candidates and attempts.                                     *)
EXTENDS Avatar, FiniteSetTheorems, TLAPS

Under == {"stylizing", "generating"}
Asked == {"approve_base", "awaiting_base_approval", "awaiting_set_approval"}
Running == {"start", "wait", "offer"}
Owed == Cred \cup {"none"}
Drawings == [GATEWAY_SLOTS -> 0 .. MaxPasses]

JobType == [stage : Stage, cred : Owed, asked : Owed, set : 0 .. MaxPasses]
WorkerType == [at : Running \cup {"off", "release"}, kind : {"stylize", "set"}, cred : Owed,
               pass : 0 .. MaxPasses, dir : 0 .. MaxPasses, left : 0 .. MaxCandidates - 1,
               best : BOOLEAN]
CallType == [at : {"none", "submit", "poll", "download", "got", "raised", "lost"},
             attempt : 0 .. RETRY_ATTEMPTS - 1]
Reading == {"read", "approve", "done", "release", "publish"}
Request == [at : Reading \cup {"idle", "start", "require", "commit"},
            stage : Stage \cup {"approve_base"}, job : 0 .. MaxJobs, cred : Owed,
            set : 0 .. MaxPasses, data : Drawings]

Typed ==
    /\ job \in [Job -> JobType]
    /\ worker \in [Job -> WorkerType]
    /\ call \in [Job -> CallType]
    /\ handler \in [Handler -> Request]
    /\ engine \in [current : 0 .. MaxJobs, active : 0 .. MaxJobs, jobs : 0 .. MaxJobs]
    /\ disk \in [Pass -> Drawings]
    /\ passes \in 0 .. MaxPasses
    /\ assets \in Drawings

\* The claim is the current job's, and it is given up only when that job is over.
Claimed ==
    /\ engine.current <= engine.jobs
    /\ engine.active \in {0, engine.current}
    /\ engine.current # 0 /\ engine.active = 0 =>
          job[engine.current].stage \in {"done", "failed"}
    /\ \A j \in Job : j > engine.jobs => job[j].stage = "idle" /\ worker[j].at = "off"
    /\ \A h \in Handler : handler[h].at \in {"start", "commit", "done", "release"} =>
          handler[h].job \in 1 .. engine.jobs
    /\ \A h \in Handler : handler[h].at \in {"require", "commit"} =>
          handler[h].stage \in Asked

\* A pass is under way in the current job only, and one thread is about to run it, or runs it.
OneThread ==
    /\ \A j \in Job : job[j].stage \in Under => engine.current = j
    /\ \A j \in Job : worker[j].at \in Running => job[j].stage \in Under
    /\ \A j \in Job : worker[j].at = "release" => job[j].stage = "failed"
    /\ \A h \in Handler : At(h, "start") =>
          job[handler[h].job].stage \in Under /\ worker[handler[h].job].at = "off"
    /\ \A g, h \in Handler : At(g, "start") /\ At(h, "start") => g = h
    /\ \A h \in Handler : At(h, "release") => job[handler[h].job].stage = "done"

\* Its client is the one that was asked for.
Paid ==
    /\ \A j \in Job : job[j].stage \in Under => job[j].cred = job[j].asked
    /\ PaysForItself

Whole(f, d) == \A s \in GATEWAY_SLOTS : f[s] = d
\* A directory holds the pictures of its own pass, and a set is offered when it has them all.
Numbered ==
    /\ \A d \in Pass, s \in GATEWAY_SLOTS : disk[d][s] \in {0, d}
    /\ \A j \in Job : job[j].stage = "generating" => passes \in Pass
    /\ \A j \in Job : worker[j].at \in Running /\ worker[j].kind = "set" =>
          job[j].stage = "generating"
    /\ \A j \in Job : worker[j].at \in {"wait", "offer"} /\ worker[j].kind = "set" =>
          /\ worker[j].dir \in Pass /\ worker[j].pass = worker[j].dir
          /\ disk[worker[j].dir]["icon"] = worker[j].dir
    /\ \A j \in Job : worker[j].at = "offer" =>
          worker[j].kind = "set" /\ Whole(disk[worker[j].dir], worker[j].dir)
    /\ \A j \in Job : job[j].stage = "awaiting_set_approval" =>
          job[j].set \in Pass /\ Whole(disk[job[j].set], job[j].set)
\* So what was read of an offered set is of one pass.
Copied ==
    /\ \A h \in Handler : handler[h].at = "idle" => Whole(handler[h].data, 0)
    /\ \A h \in Handler : handler[h].at \in Reading =>
          /\ handler[h].set \in Pass /\ Whole(disk[handler[h].set], handler[h].set)
          /\ \A s \in GATEWAY_SLOTS : handler[h].data[s] \in {0, handler[h].set}
    /\ \A h \in Handler : handler[h].at \in Reading \ {"read"} =>
          Whole(handler[h].data, handler[h].set)
    /\ \E p \in 0 .. MaxPasses : Whole(assets, p)

IInv == Typed /\ Claimed /\ OneThread /\ Paid /\ Numbered /\ Copied

-----------------------------------------------------------------------------
(* Types.                                                                   *)

LEMMA Constants ==
    /\ MaxPasses \in Nat /\ MaxCandidates \in Nat \ {0} /\ MaxJobs \in Nat
    /\ RETRY_ATTEMPTS \in Nat \ {0} /\ Pass \subseteq Nat \ {0} /\ Job \subseteq Nat \ {0}
BY AvatarConstants, ProviderConstants DEF Pass, Job

LEMMA Nothing ==
    /\ NoJob \in JobType /\ NoWorker \in WorkerType /\ NoCall \in CallType
    /\ NoFiles \in Drawings /\ NoRequest \in Request
<1>1. NoFiles \in Drawings
  BY Constants DEF NoFiles, Drawings
<1>2. NoJob \in JobType
  BY Constants DEF NoJob, JobType, Stage, Owed
<1>3. NoWorker \in WorkerType
  BY Constants DEF NoWorker, WorkerType, Running, Owed
<1>4. NoCall \in CallType
  BY Constants DEF NoCall, CallType
<1>5. NoRequest \in Request
  BY <1>1, Constants DEF NoRequest, Request, Stage, Owed, Reading
<1> QED BY <1>1, <1>2, <1>3, <1>4, <1>5

LEMMA InitIInv == Init => IInv
<1> SUFFICES ASSUME Init PROVE IInv
  OBVIOUS
<1>1. Typed
  BY Constants, Nothing DEF Init, InitCalls, Typed
<1>2. /\ \A j \in Job : job[j].stage = "idle" /\ worker[j].at = "off"
      /\ \A h \in Handler : handler[h].at = "idle"
      /\ engine.current = 0 /\ engine.active = 0 /\ engine.jobs = 0
  BY DEF Init, NoJob, NoWorker, NoRequest
<1>3. Claimed
  BY <1>2 DEF Claimed
<1>4. OneThread /\ Paid
  BY <1>2 DEF OneThread, Paid, PaysForItself, Under, Running, At
<1>5. Numbered
  BY <1>2 DEF Init, NoFiles, Numbered, Running
<1>6. Copied
  <2>1. \E p \in 0 .. MaxPasses : Whole(assets, p)
    BY Constants DEF Init, NoFiles, Whole
  <2>2. \A h \in Handler : Whole(handler[h].data, 0)
    BY DEF Init, NoRequest, NoFiles, Whole
  <2> QED BY <1>2, <2>1, <2>2 DEF Copied, Reading
<1> QED BY <1>1, <1>3, <1>4, <1>5, <1>6 DEF IInv

\* A picture is drawn, or a part of it fails.
LEMMA CallsTyped ==
    ASSUME Typed, NEW j \in Job, Provides(j) \/ Generate(j) \/ call' = [call EXCEPT ![j] = NoCall]
    PROVE  call' \in [Job -> CallType]
<1> DEFINE c == call[j]
<1>1. call \in [Job -> CallType] /\ c \in CallType /\ c.attempt \in Nat
  BY Constants DEF Typed, CallType
<1>2. \A l \in {"none", "submit", "poll", "download", "got", "raised", "lost"} :
         [NoCall EXCEPT !.at = l] \in CallType
  BY Constants DEF NoCall, CallType
<1>3. c.attempt + 1 < RETRY_ATTEMPTS => [c EXCEPT !.attempt = @ + 1] \in CallType
  BY <1>1, Constants DEF CallType
<1>4. \E q \in CallType : call' = [call EXCEPT ![j] = q]
  <2>1. CASE Provides(j)
    BY <1>1, <1>2, <1>3, <2>1
       DEF Provides, SubmitAnswered, SubmitRefused, SubmitLost, Poll, Download, Called, TryAgain,
           Raise, Break, MoreTries
  <2>2. CASE ~Provides(j)
    BY <1>2, <2>2, Nothing DEF Generate
  <2> QED BY <2>1, <2>2
<1> QED BY <1>1, <1>4

-----------------------------------------------------------------------------
(* Steps of a request that leave the job alone.                             *)

\* What a request may hold.
Fits(q) ==
    /\ q.at = "idle" => Whole(q.data, 0)
    /\ q.at \notin {"start", "release"}
    /\ q.at \in {"commit", "done"} => q.job \in 1 .. engine.jobs
    /\ q.at \in {"require", "commit"} => q.stage \in Asked
    /\ q.at \in Reading =>
          /\ q.set \in Pass /\ Whole(disk[q.set], q.set)
          /\ \A s \in GATEWAY_SLOTS : q.data[s] \in {0, q.set}
    /\ q.at \in Reading \ {"read"} => Whole(q.data, q.set)

LEMMA RequestMoves ==
    ASSUME IInv, NEW h \in Handler, NEW q \in Request, Fits(q),
           handler' = [handler EXCEPT ![h] = q],
           UNCHANGED <<call, job, engine, worker, disk, passes>>,
           assets' \in {assets, handler[h].data},
           assets' = assets \/ handler[h].at = "publish"
    PROVE  IInv'
<1>1. /\ handler'[h] = q
      /\ \A g \in Handler : g # h => handler'[g] = handler[g]
      /\ handler \in [Handler -> Request] /\ handler[h] \in Request
  BY DEF IInv, Typed
<1>2. assets' \in Drawings /\ \E p \in 0 .. MaxPasses : Whole(assets', p)
  <2>1. CASE assets' = assets
    BY <2>1 DEF IInv, Typed, Copied
  <2>2. CASE handler[h].at = "publish" /\ assets' = handler[h].data
    <3>1. Whole(handler[h].data, handler[h].set)
      BY <2>2 DEF IInv, Copied, Reading
    <3> QED BY <1>1, <2>2, <3>1 DEF Request
  <2> QED BY <2>1, <2>2
<1>3. Typed'
  BY <1>1, <1>2 DEF IInv, Typed
<1>4. Claimed' /\ OneThread' /\ Paid'
  BY <1>1 DEF IInv, Claimed, OneThread, Paid, PaysForItself, At, Fits
<1>5. Numbered'
  BY DEF IInv, Numbered, Whole
<1>6. Copied'
  BY <1>1, <1>2 DEF IInv, Copied, Fits, Whole
<1> QED BY <1>3, <1>4, <1>5, <1>6 DEF IInv

LEMMA IdleFits == Fits(NoRequest)
BY DEF Fits, NoRequest, NoFiles, Whole, Reading

\* Asking, and what the route looks up before it acts.
LEMMA AskKeeps ==
    ASSUME IInv, NEW h \in Handler, Regenerate(h) \/ ApproveBase(h) \/ RequireJob(h) \/ RequireSet(h)
    PROVE  IInv'
<1> DEFINE r == handler[h]
           asks(c, l) == [r EXCEPT !.at = "require", !.cred = c, !.stage = l]
           finds(l) == [r EXCEPT !.at = l, !.job = engine.current]
<1>1. /\ r \in Request /\ handler \in [Handler -> Request]
      /\ engine.current \in 0 .. MaxJobs /\ engine.jobs \in 0 .. MaxJobs
      /\ engine.current <= engine.jobs
  BY DEF IInv, Typed, Claimed
<1>2. \A c \in Cred, l \in Asked : asks(c, l) \in Request /\ Fits(asks(c, l))
  <2>1. Asked \subseteq Stage \cup {"approve_base"} /\ "require" \notin Reading
    BY DEF Asked, Stage, Reading
  <2>2. \A c \in Cred, l \in Asked : asks(c, l) \in Request /\ asks(c, l).stage = l /\ asks(c, l).at = "require"
    BY <1>1, <2>1 DEF Request, Owed
  <2> HIDE DEF asks
  <2> QED BY <2>1, <2>2 DEF Fits
<1>3. ASSUME engine.current # 0, r.at \in {"require", "approve"}
      PROVE  /\ r.at = "require" => finds("commit") \in Request /\ Fits(finds("commit"))
             /\ r.at = "approve" => finds("done") \in Request /\ Fits(finds("done"))
  <2>1. engine.current \in 1 .. engine.jobs
    BY <1>1, <1>3, Constants
  <2>2. r.at = "approve" => /\ r.set \in Pass /\ Whole(disk[r.set], r.set)
                            /\ \A s \in GATEWAY_SLOTS : r.data[s] \in {0, r.set}
                            /\ Whole(r.data, r.set)
    BY DEF IInv, Copied, Reading
  <2>3. finds("commit") \in Request /\ finds("done") \in Request
    BY <1>1 DEF Request, Reading
  <2>4. r.at = "require" => r.stage \in Asked
    BY DEF IInv, Claimed
  <2> QED BY <1>1, <2>1, <2>2, <2>3, <2>4 DEF Request, Fits, Reading
<1>4. engine.current # 0 => job[engine.current].stage \in Stage
  BY <1>1, Constants DEF IInv, Typed, JobType, Job
<1>5. \E q \in Request : Fits(q) /\ handler' = [handler EXCEPT ![h] = q]
  <2>1. CASE Regenerate(h) \/ ApproveBase(h)
    BY <1>1, <1>2, <1>4, <2>1 DEF Regenerate, ApproveBase, Ready, Asked
  <2>2. CASE RequireJob(h) \/ RequireSet(h)
    BY <1>1, <1>3, <2>2, IdleFits, Nothing DEF RequireJob, RequireSet, Answer, At
  <2> QED BY <2>1, <2>2
<1> QED BY <1>5, RequestMoves DEF Regenerate, ApproveBase, RequireJob, RequireSet

\* The pictures of an offered set are read, and published at last.
LEMMA ReadKeeps ==
    ASSUME IInv, NEW h \in Handler, ApproveSet(h) \/ ReadPicture(h) \/ Publish(h)
    PROVE  IInv'
<1> DEFINE r == handler[h]
<1>1. r \in Request /\ handler \in [Handler -> Request]
  BY DEF IInv, Typed
<1>2. CASE ApproveSet(h)
  <2> DEFINE q == [r EXCEPT !.at = "read", !.set = job[engine.current].set]
  <2>1. engine.current \in Job /\ job[engine.current] \in JobType
    BY <1>2, Constants DEF ApproveSet, IInv, Typed, Job
  <2>2. job[engine.current].set \in Pass
        /\ Whole(disk[job[engine.current].set], job[engine.current].set)
    BY <1>2, <2>1 DEF ApproveSet, IInv, Numbered
  <2>3. q \in Request /\ q.at = "read" /\ q.set = job[engine.current].set /\ q.data = r.data
    BY <1>1, <2>1 DEF Request, Reading, JobType
  <2>4. handler' = [handler EXCEPT ![h] = q]
    BY <1>1, <1>2 DEF ApproveSet
  <2>5. Fits(q)
    <3>1. Whole(r.data, 0)
      BY <1>2 DEF ApproveSet, At, IInv, Copied
    <3> HIDE DEF q
    <3> QED BY <2>2, <2>3, <3>1 DEF Fits, Whole
  <2> HIDE DEF q
  <2> QED BY <1>2, <2>3, <2>4, <2>5, RequestMoves DEF ApproveSet
<1>3. CASE ReadPicture(h)
  <2>1. /\ r.at = "read" /\ r.set \in Pass /\ r.data \in Drawings
        /\ Whole(disk[r.set], r.set) /\ \A s \in GATEWAY_SLOTS : r.data[s] \in {0, r.set}
    BY <1>1, <1>3 DEF ReadPicture, At, IInv, Copied, Reading, Request
  <2>2. CASE \A s \in GATEWAY_SLOTS : r.data[s] # 0
    <3> DEFINE q == [r EXCEPT !.at = "approve"]
    <3>1. q \in Request /\ q.at = "approve" /\ q.set = r.set /\ q.data = r.data
      BY <1>1 DEF Request, Reading
    <3>2. handler' = [handler EXCEPT ![h] = q]
      BY <1>1, <1>3, <2>2 DEF ReadPicture
    <3> HIDE DEF q
    <3>3. Fits(q)
      BY <2>1, <2>2, <3>1 DEF Fits, Whole
    <3> QED BY <1>3, <3>1, <3>2, <3>3, RequestMoves DEF ReadPicture
  <2>3. CASE \E s \in GATEWAY_SLOTS : r.data[s] = 0
    <3>1. PICK s \in GATEWAY_SLOTS : handler' = [handler EXCEPT ![h].data[s] = disk[r.set][s]]
      BY <1>3, <2>3 DEF ReadPicture, GATEWAY_SLOTS
    <3> DEFINE q == [r EXCEPT !.data[s] = disk[r.set][s]]
    <3>2. disk[r.set][s] = r.set /\ r.set \in 0 .. MaxPasses
      BY <2>1, Constants DEF Whole, Pass
    <3>3. /\ q \in Request /\ q.at = "read" /\ q.set = r.set
          /\ \A t \in GATEWAY_SLOTS : q.data[t] \in {0, r.set}
      BY <1>1, <2>1, <3>2 DEF Request, Drawings
    <3>4. handler' = [handler EXCEPT ![h] = q]
      BY <1>1, <3>1
    <3> HIDE DEF q
    <3>5. Fits(q)
      BY <2>1, <3>3 DEF Fits
    <3> QED BY <1>3, <3>3, <3>4, <3>5, RequestMoves DEF ReadPicture
  <2> QED BY <2>2, <2>3
<1>4. CASE Publish(h)
  BY <1>1, <1>4, IdleFits, Nothing, RequestMoves DEF Publish, Answer, At
<1> QED BY <1>2, <1>3, <1>4

-----------------------------------------------------------------------------
(* Steps of a request that change the job.                                  *)

LEMMA StylizeKeeps == ASSUME IInv, NEW h \in Handler, Stylize(h) PROVE IInv'
<1> DEFINE n == engine.jobs + 1
           q == [handler[h] EXCEPT !.at = "start", !.job = n]
<1>1. /\ n \in Job /\ engine.jobs \in Nat /\ n > engine.jobs /\ n # 0
      /\ job \in [Job -> JobType] /\ handler \in [Handler -> Request]
      /\ engine.current \in 0 .. engine.jobs /\ engine.active \in {0, engine.current}
  BY Constants DEF Stylize, IInv, Typed, Claimed, Job
<1>2. PICK c \in Cred :
         job' = [job EXCEPT ![n] = [NoJob EXCEPT !.stage = "stylizing", !.cred = c, !.asked = c]]
  BY DEF Stylize
<1> DEFINE k == [NoJob EXCEPT !.stage = "stylizing", !.cred = c, !.asked = c]
<1>3. k \in JobType /\ k.stage = "stylizing" /\ k.cred = k.asked
  BY Nothing DEF JobType, Stage, Owed
<1>4. handler' = [handler EXCEPT ![h] = q] /\ engine' = [current |-> n, active |-> n, jobs |-> n]
  BY <1>1 DEF Stylize
<1> HIDE DEF n
<1>5. q \in Request /\ q.at = "start" /\ q.job = n
  <2>1. handler[h] \in Request /\ n \in 0 .. MaxJobs
    BY <1>1, Constants DEF Job
  <2> QED BY <2>1 DEF Request
<1>6. \A j \in Job : job[j].stage \notin Under
  <2>1. engine.active # 0 => job[engine.active].stage \in {"done", "failed"}
    BY DEF Stylize, Busy
  <2>2. ASSUME NEW j \in Job, job[j].stage \in Under PROVE FALSE
    <3>1. engine.current = j /\ j # 0
      BY <2>2, Constants DEF IInv, OneThread
    <3>2. job[j].stage \in {"done", "failed"}
      BY <1>1, <2>1, <3>1 DEF IInv, Claimed
    <3> QED BY <2>2, <3>2 DEF Under
  <2> QED BY <2>2
<1>7. worker[n].at = "off" /\ \A j \in Job : worker[j].at \notin Running
  BY <1>1, <1>6 DEF IInv, Claimed, OneThread
<1>8. UNCHANGED <<call, worker, disk, passes, assets>>
  BY DEF Stylize
<1>9. \A g \in Handler : handler[g].at \in {"start", "commit", "done", "release"} =>
         handler[g].job \in 1 .. engine.jobs /\ handler[g].job # n
  BY <1>1 DEF IInv, Claimed
<1> HIDE DEF q, k
<1>10. /\ handler'[h] = q /\ \A g \in Handler : g # h => handler'[g] = handler[g]
       /\ job'[n] = k /\ \A j \in Job : j # n => job'[j] = job[j]
       /\ handler' \in [Handler -> Request] /\ job' \in [Job -> JobType]
  BY <1>1, <1>2, <1>3, <1>4, <1>5 DEF k
<1>11. \A g \in Handler : ~At(g, "start")
  <2>1. 1 .. engine.jobs \subseteq Job
    BY <1>1, Constants DEF Job, n
  <2> QED BY <1>6, <1>9, <2>1 DEF IInv, OneThread, At
<1>12. Typed'
  <2>1. n \in 0 .. MaxJobs
    BY <1>1, Constants DEF Job
  <2> QED BY <1>4, <1>8, <1>10, <2>1 DEF IInv, Typed
<1>13. Claimed'
  <2>1. /\ engine'.current = n /\ engine'.active = n /\ engine'.jobs = n /\ n = engine.jobs + 1
        /\ \A j \in Job : j > n => j > engine.jobs /\ j # n
        /\ 1 .. engine.jobs \subseteq 1 .. n /\ n \in 1 .. n /\ n <= n
    BY <1>1, <1>4, Constants DEF n
  <2>2. \A j \in Job : j > n => job'[j].stage = "idle" /\ worker'[j].at = "off"
    BY <1>8, <1>10, <2>1 DEF IInv, Claimed
  <2>3. \A g \in Handler : handler'[g].at \in {"start", "commit", "done", "release"} =>
           handler'[g].job \in 1 .. n
    BY <1>5, <1>9, <1>10, <2>1
  <2>4. \A g \in Handler : handler'[g].at \in {"require", "commit"} => handler'[g].stage \in Asked
    BY <1>5, <1>10 DEF IInv, Claimed
  <2> QED BY <1>1, <2>1, <2>2, <2>3, <2>4 DEF Claimed
<1>14. OneThread'
  <2>1. /\ \A j \in Job : job'[j].stage \in Under => engine'.current = j
        /\ \A j \in Job : worker'[j].at \in Running => job'[j].stage \in Under
        /\ \A j \in Job : worker'[j].at = "release" => job'[j].stage = "failed"
    BY <1>4, <1>6, <1>7, <1>8, <1>10 DEF IInv, OneThread
  <2>2. \A g \in Handler : At(g, "start")' => g = h
    BY <1>10, <1>11 DEF At
  <2>3. job'[n].stage \in Under /\ worker'[n].at = "off" /\ handler'[h].job = n
    BY <1>3, <1>5, <1>7, <1>8, <1>10 DEF Under
  <2>4. \A g \in Handler : At(g, "release")' => job'[handler'[g].job].stage = "done"
    <3>1. 1 .. engine.jobs \subseteq Job
      BY <1>1, Constants DEF Job, n
    <3> QED BY <1>5, <1>9, <1>10, <3>1 DEF At, IInv, OneThread
  <2> QED BY <2>1, <2>2, <2>3, <2>4 DEF OneThread
<1>15. Paid'
  BY <1>3, <1>6, <1>7, <1>8, <1>10 DEF IInv, Paid, PaysForItself, Running
<1>16. Numbered'
  BY <1>3, <1>7, <1>8, <1>10 DEF IInv, Numbered, Running, Whole
<1>17. Copied'
  BY <1>5, <1>8, <1>10 DEF IInv, Copied, Reading, Whole
<1> QED BY <1>12, <1>13, <1>14, <1>15, <1>16, <1>17 DEF IInv

LEMMA StartThreadKeeps == ASSUME IInv, NEW h \in Handler, StartThread(h) PROVE IInv'
<1> DEFINE j == handler[h].job
           kind == IF job[j].stage = "stylizing" THEN "stylize" ELSE "set"
           w == [NoWorker EXCEPT !.at = "start", !.kind = kind]
<1>1. /\ j \in Job /\ job[j].stage \in Under /\ worker[j].at = "off"
      /\ worker \in [Job -> WorkerType] /\ handler \in [Handler -> Request]
      /\ j <= engine.jobs
  BY Constants DEF StartThread, IInv, Typed, Claimed, OneThread, At, Job, Request
<1>2. w \in WorkerType /\ w.at = "start" /\ w.kind = kind
  BY Nothing DEF WorkerType, Running
<1>3. /\ handler' = [handler EXCEPT ![h] = NoRequest] /\ worker' = [worker EXCEPT ![j] = w]
      /\ UNCHANGED <<call, job, engine, disk, passes, assets>>
  BY DEF StartThread, Answer
<1>4. kind = "set" => job[j].stage = "generating"
  BY <1>1 DEF Under
<1> HIDE DEF w, kind
<1>5. /\ handler'[h] = NoRequest /\ \A g \in Handler : g # h => handler'[g] = handler[g]
      /\ worker'[j] = w /\ \A i \in Job : i # j => worker'[i] = worker[i]
      /\ handler' \in [Handler -> Request] /\ worker' \in [Job -> WorkerType]
  BY <1>1, <1>2, <1>3, Nothing
<1>6. NoRequest.at = "idle" /\ Whole(NoRequest.data, 0)
  BY DEF NoRequest, NoFiles, Whole
<1>7. \A g \in Handler : At(g, "start") => g = h
  BY DEF StartThread, IInv, OneThread
<1> HIDE DEF j
<1>8. Typed'
  BY <1>3, <1>5 DEF IInv, Typed
<1>9. Claimed'
  BY <1>1, <1>3, <1>5, <1>6, Constants DEF IInv, Claimed, Typed
<1>10. OneThread'
  BY <1>1, <1>2, <1>3, <1>5, <1>6, <1>7 DEF IInv, OneThread, At, Running
<1>11. Paid'
  BY <1>2, <1>3, <1>5 DEF IInv, Paid, PaysForItself
<1>12. Numbered'
  BY <1>2, <1>3, <1>4, <1>5 DEF IInv, Numbered, Whole
<1>13. Copied'
  BY <1>3, <1>5, <1>6 DEF IInv, Copied, Reading, Whole
<1> QED BY <1>8, <1>9, <1>10, <1>11, <1>12, <1>13 DEF IInv

\* A request that commits has found its job waiting for an answer.
LEMMA CommitKeeps == ASSUME IInv, NEW h \in Handler, Commit(h) PROVE IInv'
<1> DEFINE r == handler[h]
           j == r.job
           q == [NoRequest EXCEPT !.at = "start", !.job = j]
           k == [job[j] EXCEPT !.cred = r.cred, !.asked = r.cred, !.stage = Becomes(r.stage)]
           goes == /\ StillCurrent(j) /\ job[j].stage = Needs(r.stage)
                   /\ Becomes(r.stage) = "generating" => passes < MaxPasses
<1>1. /\ j \in Job /\ j \in 1 .. engine.jobs /\ r \in Request /\ job[j] \in JobType
      /\ job \in [Job -> JobType] /\ handler \in [Handler -> Request] /\ passes \in 0 .. MaxPasses
  BY Constants DEF Commit, IInv, Typed, Claimed, At, Job, Request
<1>2. CASE ~goes
  <2>1. [job EXCEPT ![j].stage = job[j].stage] = job
    BY <1>1 DEF JobType
  <2>2. handler' = [handler EXCEPT ![h] = NoRequest] /\ UNCHANGED <<call, job, engine, worker, disk, passes, assets>>
    BY <1>2, <2>1 DEF Commit, Answer, Bind
  <2> QED BY <2>2, IdleFits, Nothing, RequestMoves
<1>3. CASE goes
  <2>1. /\ handler' = [handler EXCEPT ![h] = q] /\ job' = [job EXCEPT ![j] = k]
        /\ passes' = IF Becomes(r.stage) = "generating" THEN passes + 1 ELSE passes
        /\ UNCHANGED <<call, engine, worker, disk, assets>>
    BY <1>1, <1>3 DEF Commit, Bind, JobType
  <2>2. passes' \in 0 .. MaxPasses /\ (Becomes(r.stage) = "generating" => passes' \in Pass)
        /\ (passes \in Pass => passes' \in Pass)
    BY <1>1, <1>3, <2>1, Constants DEF Pass
  <2>3. r.stage \in Asked
    BY DEF Commit, At, IInv, Claimed
  <2>4. /\ engine.current = j /\ job[j].stage \in {"awaiting_base_approval", "awaiting_set_approval"}
        /\ Becomes(r.stage) \in Under
    BY <1>3, <2>3 DEF StillCurrent, Needs, Becomes, Asked, Under
  <2>5. k \in JobType /\ k.stage = Becomes(r.stage) /\ k.cred = k.asked
    <3>1. Becomes(r.stage) \in Stage /\ r.cred \in Owed
      BY <1>1, <2>4 DEF Under, Stage, Request
    <3> QED BY <1>1, <3>1 DEF JobType
  <2>6. q \in Request /\ q.at = "start" /\ q.job = j
    <3>1. j \in 0 .. MaxJobs
      BY <1>1 DEF Request
    <3> QED BY <3>1, Nothing DEF Request
  <2>7. worker[j].at = "off"
    <3>1. job[j].stage \notin Under /\ job[j].stage # "failed" /\ worker[j] \in WorkerType
      BY <1>1, <2>4 DEF Under, IInv, Typed
    <3> QED BY <1>1, <3>1 DEF IInv, OneThread, WorkerType
  <2>8. \A g \in Handler : ~At(g, "start")
    <3>1. \A i \in Job : job[i].stage \notin Under
      BY <2>4 DEF IInv, OneThread, Under
    <3>2. \A g \in Handler : At(g, "start") => handler[g].job \in Job
      BY Constants DEF At, IInv, Claimed, Typed, Job
    <3> QED BY <3>1, <3>2 DEF IInv, OneThread
  <2>9. \A g \in Handler : At(g, "release") => handler[g].job # j
    BY <2>4 DEF IInv, OneThread
  <2> HIDE DEF q, k, goes
  <2>10. /\ handler'[h] = q /\ \A g \in Handler : g # h => handler'[g] = handler[g]
         /\ job'[j] = k /\ \A i \in Job : i # j => job'[i] = job[i]
         /\ handler' \in [Handler -> Request] /\ job' \in [Job -> JobType]
    BY <1>1, <2>1, <2>5, <2>6
  <2> HIDE DEF j
  <2>11. Typed'
    BY <2>1, <2>2, <2>10 DEF IInv, Typed
  <2>12. Claimed'
    <3>1. \A i \in Job : i > engine.jobs => i # j
      BY <1>1, Constants DEF IInv, Typed
    <3>2. engine.active = j
      BY <1>1, <2>4, Constants DEF IInv, Claimed
    <3>3. j # 0
      BY <1>1, Constants
    <3> QED BY <1>1, <2>1, <2>6, <2>10, <3>1, <3>2, <3>3 DEF IInv, Claimed
  <2>13. OneThread'
    BY <2>1, <2>4, <2>5, <2>6, <2>7, <2>8, <2>9, <2>10 DEF IInv, OneThread, At, Running
  <2>14. Paid'
    BY <2>1, <2>5, <2>7, <2>10 DEF IInv, Paid, PaysForItself
  <2>15. Numbered'
    <3>1. \A i \in Job : job'[i].stage = "awaiting_set_approval" => i # j
      BY <2>4, <2>5, <2>10 DEF Under
    <3>2. \A i \in Job : worker[i].at \in Running => i # j
      BY <2>7 DEF Running
    <3>3. \A i \in Job : worker[i].at = "wait" \/ worker[i].at = "offer" => i # j
      BY <2>7
    <3> QED BY <2>1, <2>2, <2>5, <2>10, <3>1, <3>2, <3>3 DEF IInv, Numbered, Whole
  <2>16. Copied'
    BY <2>1, <2>6, <2>10 DEF IInv, Copied, Reading, Whole
  <2> QED BY <2>11, <2>12, <2>13, <2>14, <2>15, <2>16 DEF IInv
<1> QED BY <1>2, <1>3

\* Its release gives up the claim of a job that is done.
LEMMA ApprovalKeeps == ASSUME IInv, NEW h \in Handler, Approved(h) \/ Release(h) PROVE IInv'
<1> DEFINE r == handler[h]
           j == r.job
           k == [job[j] EXCEPT !.stage = "done"]
           to(l) == [r EXCEPT !.at = l]
<1>1. /\ j \in Job /\ j \in 1 .. engine.jobs /\ r \in Request /\ job[j] \in JobType
      /\ job \in [Job -> JobType] /\ handler \in [Handler -> Request]
      /\ engine \in [current : 0 .. MaxJobs, active : 0 .. MaxJobs, jobs : 0 .. MaxJobs]
  BY Constants DEF Approved, Release, IInv, Typed, Claimed, At, Job, Request
<1>2. \A l \in {"release", "publish"} : /\ to(l) \in Request /\ to(l).at = l /\ to(l).job = j
                                        /\ to(l).set = r.set /\ to(l).data = r.data
  BY <1>1 DEF Request, Reading
<1>3. r.at \in Reading \ {"read"}
  BY DEF Approved, Release, At, Reading
<1>4. /\ k \in JobType /\ k.stage = "done" /\ k.cred = job[j].cred
      /\ k.asked = job[j].asked /\ k.set = job[j].set
  BY <1>1 DEF JobType, Stage
<1> HIDE DEF to, k
<1>5. CASE Approved(h) /\ StillCurrent(j) /\ job[j].stage = "awaiting_set_approval"
  <2>1. /\ handler' = [handler EXCEPT ![h] = to("release")] /\ job' = [job EXCEPT ![j] = k]
        /\ UNCHANGED <<call, engine, worker, disk, passes, assets>>
    BY <1>1, <1>5 DEF Approved, Staged, to, k
  <2>2. worker[j].at = "off"
    <3>1. job[j].stage \notin Under /\ job[j].stage # "failed" /\ worker[j] \in WorkerType
      BY <1>1, <1>5 DEF Under, IInv, Typed
    <3> QED BY <1>1, <3>1 DEF IInv, OneThread, WorkerType
  <2>3. \A g \in Handler : At(g, "start") => handler[g].job # j
    BY <1>5 DEF IInv, OneThread, Under
  <2>4. /\ handler'[h] = to("release") /\ \A g \in Handler : g # h => handler'[g] = handler[g]
        /\ job'[j] = k /\ \A i \in Job : i # j => job'[i] = job[i]
        /\ handler' \in [Handler -> Request] /\ job' \in [Job -> JobType]
    BY <1>1, <1>2, <1>4, <2>1
  <2> HIDE DEF j
  <2>5. Typed'
    BY <2>1, <2>4 DEF IInv, Typed
  <2>6. Claimed'
    <3>1. \A i \in Job : i > engine.jobs => i # j
      BY <1>1, Constants
    <3> QED BY <1>1, <1>2, <1>4, <2>1, <2>4, <3>1 DEF IInv, Claimed
  <2>7. OneThread'
    BY <1>2, <1>4, <2>1, <2>2, <2>3, <2>4 DEF IInv, OneThread, At, Under, Running
  <2>8. Paid'
    BY <1>4, <2>1, <2>2, <2>4 DEF IInv, Paid, PaysForItself, Under
  <2>9. Numbered'
    <3>1. \A i \in Job : worker[i].at \in Running => i # j
      BY <2>2 DEF Running
    <3>2. \A i \in Job : worker[i].at = "wait" \/ worker[i].at = "offer" => i # j
      BY <2>2
    <3> QED BY <1>4, <2>1, <2>4, <3>1, <3>2 DEF IInv, Numbered, Whole
  <2>10. Copied'
    BY <1>2, <1>3, <2>1, <2>4 DEF IInv, Copied, Reading, Whole
  <2> QED BY <2>5, <2>6, <2>7, <2>8, <2>9, <2>10 DEF IInv
<1>6. CASE Approved(h) /\ ~(StillCurrent(j) /\ job[j].stage = "awaiting_set_approval")
  BY <1>6, IdleFits, Nothing, RequestMoves DEF Approved, Answer
<1>7. CASE Release(h)
  <2>1. /\ handler' = [handler EXCEPT ![h] = to("publish")]
        /\ engine' = [engine EXCEPT !.active = IF @ = j THEN 0 ELSE @]
        /\ UNCHANGED <<call, job, worker, disk, passes, assets>>
    BY <1>1, <1>7 DEF Release, Released, to
  <2>2. job[j].stage = "done"
    BY <1>7 DEF Release, At, IInv, OneThread
  <2>3. /\ handler'[h] = to("publish") /\ \A g \in Handler : g # h => handler'[g] = handler[g]
        /\ handler' \in [Handler -> Request]
        /\ engine'.current = engine.current /\ engine'.jobs = engine.jobs
        /\ engine'.active = IF engine.active = j THEN 0 ELSE engine.active
        /\ engine' \in [current : 0 .. MaxJobs, active : 0 .. MaxJobs, jobs : 0 .. MaxJobs]
    BY <1>1, <1>2, <2>1, Constants
  <2> HIDE DEF j
  <2>4. Typed'
    BY <2>1, <2>3 DEF IInv, Typed
  <2>5. Claimed'
    BY <1>1, <1>2, <2>1, <2>2, <2>3, Constants DEF IInv, Claimed
  <2>6. OneThread' /\ Paid' /\ Numbered'
    BY <1>2, <2>1, <2>3 DEF IInv, OneThread, Paid, PaysForItself, Numbered, Whole, At
  <2>7. Copied'
    BY <1>2, <1>3, <2>1, <2>3 DEF IInv, Copied, Reading, Whole
  <2> QED BY <2>4, <2>5, <2>6, <2>7 DEF IInv
<1> QED BY <1>5, <1>6, <1>7

LEMMA CancelKeeps == ASSUME IInv, NEW h \in Handler, Cancel(h) PROVE IInv'
<1> DEFINE j == engine.current
<1>1. /\ j \in Job /\ job \in [Job -> JobType] /\ job[j] \in JobType
      /\ engine \in [current : 0 .. MaxJobs, active : 0 .. MaxJobs, jobs : 0 .. MaxJobs]
      /\ engine.active \in {0, j}
  BY Constants DEF Cancel, IInv, Typed, Claimed, Job
<1>2. job[j].stage \notin Under
  BY DEF Cancel, Cancellable, Ready, Under
<1>3. /\ Unbound(j) \in JobType /\ Unbound(j).stage = job[j].stage /\ Unbound(j).set = job[j].set
      /\ job' = [job EXCEPT ![j] = Unbound(j)]
      /\ UNCHANGED <<call, worker, handler, disk, passes, assets>>
  BY <1>1 DEF Cancel, Unbound, JobType, Owed
<1>4. /\ engine'.current = 0 /\ engine'.active = 0 /\ engine'.jobs = engine.jobs
      /\ engine' \in [current : 0 .. MaxJobs, active : 0 .. MaxJobs, jobs : 0 .. MaxJobs]
  <2> DEFINE e == [current |-> 0, active |-> 0, jobs |-> engine.jobs]
  <2>1. e \in [current : 0 .. MaxJobs, active : 0 .. MaxJobs, jobs : 0 .. MaxJobs]
    BY <1>1, Constants
  <2>2. e.current = 0 /\ e.active = 0 /\ e.jobs = engine.jobs
    BY <1>1
  <2>3. engine' = e
    BY <1>1 DEF Cancel
  <2> HIDE DEF e
  <2> QED BY <2>1, <2>2, <2>3
<1>5. /\ \A i \in Job : i # j => job'[i] = job[i]
      /\ job'[j] = Unbound(j) /\ job' \in [Job -> JobType]
      /\ \A i \in Job : job'[i].stage = job[i].stage /\ job'[i].set = job[i].set
  BY <1>1, <1>3
<1>6. \A i \in Job : job[i].stage \notin Under
  BY <1>2 DEF IInv, OneThread
<1>7. \A g \in Handler : handler[g].at \in {"start", "commit", "done", "release"} => handler[g].job \in Job
  BY Constants DEF IInv, Typed, Claimed, Job
<1> HIDE DEF j
<1>8. Typed'
  BY <1>3, <1>4, <1>5 DEF IInv, Typed
<1>9. Claimed'
  BY <1>1, <1>3, <1>4, <1>5 DEF IInv, Claimed
<1>10. OneThread'
  BY <1>3, <1>5, <1>6, <1>7 DEF IInv, OneThread, At
<1>11. Paid'
  <2>1. \A i \in Job : worker[i].at \notin Running
    BY <1>6 DEF IInv, OneThread
  <2> QED BY <1>3, <1>5, <1>6, <2>1 DEF Paid, PaysForItself, Running
<1>12. Numbered' /\ Copied'
  BY <1>3, <1>5 DEF IInv, Numbered, Copied, Whole
<1> QED BY <1>8, <1>9, <1>10, <1>11, <1>12 DEF IInv

-----------------------------------------------------------------------------
(* The worker thread.                                                       *)

\* It takes over the clients, and a pass that draws a set its directory.
LEMMA StartsKeeps == ASSUME IInv, NEW j \in Job, WorkerStarts(j) PROVE IInv'
<1> DEFINE w == worker[j]
           one == [w EXCEPT !.at = "wait", !.cred = job[j].cred]
           set == [w EXCEPT !.at = "wait", !.cred = job[j].cred, !.pass = passes,
                            !.dir = passes, !.left = MaxCandidates - 1]
           q == IF w.kind = "stylize" THEN one ELSE set
           newDisk == [disk EXCEPT ![passes]["icon"] = passes]
<1>1. /\ w \in WorkerType /\ job[j] \in JobType /\ worker \in [Job -> WorkerType]
      /\ passes \in 0 .. MaxPasses /\ disk \in [Pass -> Drawings]
  BY DEF IInv, Typed
<1>2. job[j].stage \in Under /\ (w.kind # "stylize" => job[j].stage = "generating" /\ passes \in Pass)
  BY <1>1 DEF WorkerStarts, IInv, OneThread, Numbered, Running, WorkerType
<1>3. /\ q \in WorkerType /\ q.at = "wait" /\ q.kind = w.kind /\ q.cred = job[j].cred
      /\ q.kind # "stylize" => q.pass = passes /\ q.dir = passes
  <2>1. job[j].cred \in Owed /\ MaxCandidates - 1 \in 0 .. MaxCandidates - 1
    BY <1>1, Constants DEF JobType
  <2> QED BY <1>1, <2>1 DEF WorkerType, Running
<1>4. /\ worker' = [worker EXCEPT ![j] = q]
      /\ disk' = IF w.kind = "stylize" THEN disk ELSE newDisk
      /\ UNCHANGED <<job, engine, handler, passes, assets>>
  BY DEF WorkerStarts, FreshDir
<1> HIDE DEF q
<1>5. /\ worker'[j] = q /\ \A i \in Job : i # j => worker'[i] = worker[i]
      /\ worker' \in [Job -> WorkerType]
  BY <1>1, <1>3, <1>4
<1>6. /\ disk' \in [Pass -> Drawings]
      /\ \A d \in Pass, s \in GATEWAY_SLOTS : disk'[d][s] \in {0, d} /\ (disk[d][s] = d => disk'[d][s] = d)
      /\ w.kind # "stylize" => disk'[passes]["icon"] = passes
  <2>1. CASE w.kind = "stylize"
    BY <1>1, <1>4, <2>1 DEF IInv, Numbered
  <2>2. CASE w.kind # "stylize"
    <3>1. newDisk \in [Pass -> Drawings]
      BY <1>1 DEF Drawings
    <3>2. \A d \in Pass, s \in GATEWAY_SLOTS :
             newDisk[d][s] = IF d = passes /\ s = "icon" THEN passes ELSE disk[d][s]
      BY <1>1 DEF Drawings
    <3>3. newDisk[passes]["icon"] = passes
      BY <1>2, <2>2, <3>2 DEF GATEWAY_SLOTS
    <3> HIDE DEF newDisk
    <3> QED BY <1>4, <2>2, <3>1, <3>2, <3>3 DEF IInv, Numbered
  <2> QED BY <2>1, <2>2
<1>7. call' \in [Job -> CallType]
  BY CallsTyped DEF WorkerStarts, IInv
<1> HIDE DEF w
<1>8. Typed'
  BY <1>4, <1>5, <1>6, <1>7 DEF IInv, Typed
<1>9. Claimed'
  BY <1>3, <1>4, <1>5 DEF IInv, Claimed, WorkerStarts
<1>10. OneThread'
  BY <1>2, <1>3, <1>4, <1>5 DEF IInv, OneThread, At, Running, WorkerStarts
<1>11. Paid'
  BY <1>2, <1>3, <1>4, <1>5 DEF IInv, Paid, PaysForItself
<1>12. Numbered'
  <2>1. \A i \in Job : worker'[i].at \in Running /\ worker'[i].kind = "set" => job[i].stage = "generating"
    BY <1>2, <1>3, <1>5 DEF IInv, Numbered, w
  <2>2. \A i \in Job : worker'[i].at \in {"wait", "offer"} /\ worker'[i].kind = "set" =>
           /\ worker'[i].dir \in Pass /\ worker'[i].pass = worker'[i].dir
           /\ disk'[worker'[i].dir]["icon"] = worker'[i].dir
    BY <1>2, <1>3, <1>5, <1>6 DEF IInv, Numbered, w, GATEWAY_SLOTS
  <2>3. \A i \in Job : worker'[i].at = "offer" =>
           worker'[i].kind = "set" /\ \A s \in GATEWAY_SLOTS : disk'[worker'[i].dir][s] = worker'[i].dir
    BY <1>3, <1>5, <1>6 DEF IInv, Numbered, Whole
  <2>4. \A i \in Job : job[i].stage = "awaiting_set_approval" =>
           job[i].set \in Pass /\ \A s \in GATEWAY_SLOTS : disk'[job[i].set][s] = job[i].set
    BY <1>6 DEF IInv, Numbered, Whole
  <2> QED BY <1>4, <1>6, <2>1, <2>2, <2>3, <2>4 DEF IInv, Numbered, Whole
<1>13. Copied'
  BY <1>4, <1>6 DEF IInv, Copied, Whole
<1> QED BY <1>8, <1>9, <1>10, <1>11, <1>12, <1>13 DEF IInv

\* A worker is through with its job: the job waits for an answer, or has failed.
LEMMA JobEnds ==
    ASSUME IInv, NEW j \in Job, worker[j].at \in Running, NEW w \in WorkerType, NEW l, NEW d,
           \/ (w = NoWorker /\ l = "awaiting_base_approval" /\ d = job[j].set)
           \/ (w = NoWorker /\ l = "awaiting_set_approval" /\ d \in Pass /\ Whole(disk[d], d))
           \/ (w.at = "release" /\ l = "failed" /\ d = job[j].set),
           job' = [job EXCEPT ![j] = [Unbound(j) EXCEPT !.stage = l, !.set = d]],
           worker' = [worker EXCEPT ![j] = w],
           call' \in [Job -> CallType],
           UNCHANGED <<engine, handler, disk, passes, assets>>
    PROVE  IInv'
<1> DEFINE k == [Unbound(j) EXCEPT !.stage = l, !.set = d]
<1>1. job[j].stage \in Under
  BY DEF IInv, OneThread
<1>2. worker \in [Job -> WorkerType] /\ job \in [Job -> JobType] /\ job[j] \in JobType
  BY DEF IInv, Typed
<1>3. /\ k \in JobType /\ k.stage = l /\ k.set = d
      /\ l \in {"awaiting_base_approval", "awaiting_set_approval", "failed"}
  <2>1. d \in 0 .. MaxPasses
    BY <1>2, Constants DEF JobType, Pass
  <2> QED BY <1>2, <2>1 DEF Unbound, JobType, Stage, Owed
<1>4. w.at \in {"off", "release"} /\ (w.at = "release" => l = "failed")
  BY DEF NoWorker
<1> HIDE DEF k
<1>5. /\ worker'[j] = w /\ \A i \in Job : i # j => worker'[i] = worker[i]
      /\ job'[j] = k /\ \A i \in Job : i # j => job'[i] = job[i]
      /\ worker' \in [Job -> WorkerType] /\ job' \in [Job -> JobType]
  BY <1>2, <1>3 DEF k
<1>6. /\ \A g \in Handler : ~At(g, "start")
      /\ \A g \in Handler : At(g, "release") => handler[g].job # j
  <2>1. \A g \in Handler : At(g, "start") => handler[g].job \in Job
    BY Constants DEF At, IInv, Claimed, Typed, Job
  <2>2. \A i \in Job : job[i].stage \in Under => i = j
    BY <1>1 DEF IInv, OneThread
  <2>3. worker[j].at # "off"
    BY DEF Running
  <2> QED BY <1>1, <2>1, <2>2, <2>3 DEF IInv, OneThread, Under
<1>7. Typed'
  BY <1>5 DEF IInv, Typed
<1>8. Claimed'
  <2>1. \A i \in Job : i > engine.jobs => i # j
    BY <1>1 DEF IInv, Claimed, Under
  <2>2. engine.current = j /\ engine.active = j /\ j # 0
    BY <1>1, Constants DEF IInv, Claimed, OneThread, Under
  <2> QED BY <1>3, <1>4, <1>5, <2>1, <2>2 DEF IInv, Claimed
<1>9. OneThread'
  BY <1>3, <1>4, <1>5, <1>6 DEF IInv, OneThread, At, Under, Running
<1>10. Paid'
  BY <1>3, <1>4, <1>5 DEF IInv, Paid, PaysForItself, Under
<1>11. Numbered'
  <2>1. worker'[j].at \notin Running /\ worker'[j].at # "wait" /\ worker'[j].at # "offer"
    BY <1>4, <1>5 DEF Running
  <2>2. job'[j].stage # "generating"
    BY <1>3, <1>5
  <2>3. l = "awaiting_set_approval" => d \in Pass /\ Whole(disk[d], d)
    OBVIOUS
  <2> QED BY <1>3, <1>5, <2>1, <2>2, <2>3 DEF IInv, Numbered, Whole
<1>12. Copied'
  BY DEF IInv, Copied, Whole
<1> QED BY <1>7, <1>8, <1>9, <1>10, <1>11, <1>12 DEF IInv

LEMMA EndsKeeps ==
    ASSUME IInv, NEW j \in Job, (Drawn(j) /\ worker[j].kind = "stylize") \/ Offer(j) \/ Fails(j)
    PROVE  IInv'
<1>1. /\ worker[j].at \in Running /\ worker[j] \in WorkerType /\ worker \in [Job -> WorkerType]
      /\ job[j] \in JobType /\ job \in [Job -> JobType] /\ call \in [Job -> CallType]
  BY DEF Drawn, Offer, Fails, Running, IInv, Typed
<1>2. CASE Drawn(j) /\ worker[j].kind = "stylize"
  <2>1. job' = [job EXCEPT ![j] = [Unbound(j) EXCEPT !.stage = "awaiting_base_approval", !.set = job[j].set]]
    BY <1>1, <1>2 DEF Drawn, Unbound, JobType
  <2>2. call' \in [Job -> CallType]
    BY <1>2, CallsTyped DEF Drawn, IInv
  <2>3. worker' = [worker EXCEPT ![j] = NoWorker] /\ UNCHANGED <<engine, handler, disk, passes, assets>>
    BY <1>2 DEF Drawn
  <2> QED BY <1>1, <2>1, <2>2, <2>3, Nothing, JobEnds
<1>3. CASE Offer(j)
  <2> DEFINE d == worker[j].dir
  <2>1. d \in Pass /\ Whole(disk[d], d)
    BY <1>3 DEF Offer, IInv, Numbered
  <2>2. /\ job' = [job EXCEPT ![j] = [Unbound(j) EXCEPT !.stage = "awaiting_set_approval", !.set = d]]
        /\ worker' = [worker EXCEPT ![j] = NoWorker]
        /\ UNCHANGED <<call, engine, handler, disk, passes, assets>>
    BY <1>3 DEF Offer
  <2> QED BY <1>1, <2>1, <2>2, Nothing, JobEnds
<1>4. CASE Fails(j)
  <2> DEFINE w == [worker[j] EXCEPT !.at = "release"]
  <2>1. w \in WorkerType /\ w.at = "release"
    BY <1>1 DEF WorkerType
  <2>2. job' = [job EXCEPT ![j] = [Unbound(j) EXCEPT !.stage = "failed", !.set = job[j].set]]
    BY <1>1, <1>4 DEF Fails, RecordError, Unbound, JobType
  <2>3. call' \in [Job -> CallType]
    BY <1>4, CallsTyped DEF Fails, IInv
  <2>4. worker' = [worker EXCEPT ![j] = w]
    BY <1>1, <1>4 DEF Fails
  <2> HIDE DEF w
  <2> QED BY <1>1, <1>4, <2>1, <2>2, <2>3, <2>4, JobEnds DEF Fails
<1> QED BY <1>2, <1>3, <1>4

\* The last picture of a set is written before the set is offered.
LEMMA DrawnKeeps == ASSUME IInv, NEW j \in Job, Drawn(j), worker[j].kind # "stylize" PROVE IInv'
<1> DEFINE w == worker[j]
           q == [w EXCEPT !.at = "offer"]
           newDisk == [disk EXCEPT ![w.dir]["idle"] = w.pass]
<1>1. /\ w \in WorkerType /\ w.kind = "set" /\ w.at = "wait" /\ worker \in [Job -> WorkerType]
      /\ disk \in [Pass -> Drawings]
  BY DEF Drawn, IInv, Typed, WorkerType
<1>2. w.dir \in Pass /\ w.pass = w.dir /\ disk[w.dir]["icon"] = w.dir
  BY <1>1 DEF IInv, Numbered
<1>3. /\ q \in WorkerType /\ q.at = "offer" /\ q.kind = w.kind /\ q.cred = w.cred
      /\ q.pass = w.pass /\ q.dir = w.dir
  BY <1>1 DEF WorkerType, Running
<1>4. /\ worker' = [worker EXCEPT ![j] = q] /\ disk' = newDisk
      /\ UNCHANGED <<job, engine, handler, passes, assets>>
  BY <1>1 DEF Drawn
<1>5. /\ disk' \in [Pass -> Drawings]
      /\ \A d \in Pass, s \in GATEWAY_SLOTS : disk'[d][s] \in {0, d} /\ (disk[d][s] = d => disk'[d][s] = d)
      /\ \A s \in GATEWAY_SLOTS : disk'[w.dir][s] = w.dir
  <2>1. newDisk \in [Pass -> Drawings]
    BY <1>1 DEF Drawings, WorkerType
  <2>2. \A d \in Pass, s \in GATEWAY_SLOTS :
           newDisk[d][s] = IF d = w.dir /\ s = "idle" THEN w.dir ELSE disk[d][s]
    BY <1>1, <1>2 DEF Drawings
  <2>3. \A s \in GATEWAY_SLOTS : newDisk[w.dir][s] = w.dir
    BY <1>2, <2>2 DEF GATEWAY_SLOTS
  <2> HIDE DEF newDisk
  <2> QED BY <1>2, <1>4, <2>1, <2>2, <2>3 DEF IInv, Numbered
<1> HIDE DEF q
<1>6. /\ worker'[j] = q /\ \A i \in Job : i # j => worker'[i] = worker[i]
      /\ worker' \in [Job -> WorkerType]
  BY <1>1, <1>3, <1>4
<1>7. call' \in [Job -> CallType]
  BY CallsTyped DEF Drawn, IInv
<1>8. Typed'
  BY <1>4, <1>5, <1>6, <1>7 DEF IInv, Typed
<1>9. Claimed'
  BY <1>1, <1>3, <1>4, <1>6 DEF IInv, Claimed
<1>10. OneThread'
  BY <1>1, <1>3, <1>4, <1>6 DEF IInv, OneThread, At, Running
<1>11. Paid'
  BY <1>1, <1>3, <1>4, <1>6 DEF IInv, Paid, PaysForItself
<1>12. Numbered'
  <2>1. \A i \in Job : worker'[i].at \in Running /\ worker'[i].kind = "set" => job[i].stage = "generating"
    BY <1>1, <1>3, <1>6 DEF IInv, Numbered, Running
  <2>2. \A i \in Job : worker'[i].at \in {"wait", "offer"} /\ worker'[i].kind = "set" =>
           /\ worker'[i].dir \in Pass /\ worker'[i].pass = worker'[i].dir
           /\ disk'[worker'[i].dir]["icon"] = worker'[i].dir
    BY <1>1, <1>2, <1>3, <1>5, <1>6 DEF IInv, Numbered, GATEWAY_SLOTS
  <2>3. \A i \in Job : worker'[i].at = "offer" =>
           worker'[i].kind = "set" /\ \A s \in GATEWAY_SLOTS : disk'[worker'[i].dir][s] = worker'[i].dir
    BY <1>1, <1>3, <1>5, <1>6 DEF IInv, Numbered, Whole
  <2>4. \A i \in Job : job[i].stage = "awaiting_set_approval" =>
           job[i].set \in Pass /\ \A s \in GATEWAY_SLOTS : disk'[job[i].set][s] = job[i].set
    BY <1>5 DEF IInv, Numbered, Whole
  <2> QED BY <1>4, <1>5, <2>1, <2>2, <2>3, <2>4 DEF IInv, Numbered, Whole
<1>13. Copied'
  BY <1>4, <1>5 DEF IInv, Copied, Whole
<1> QED BY <1>8, <1>9, <1>10, <1>11, <1>12, <1>13 DEF IInv

\* Another candidate, or the provider's answer, or the worker's end.
LEMMA WorkerKeeps == ASSUME IInv, NEW j \in Job, Another(j) \/ WorkerReleases(j) \/ Draws(j) PROVE IInv'
<1> DEFINE w == worker[j]
           q == [w EXCEPT !.left = @ - 1, !.best = @ \/ call[j].at = "got"]
<1>1. /\ w \in WorkerType /\ worker \in [Job -> WorkerType] /\ call \in [Job -> CallType]
      /\ engine \in [current : 0 .. MaxJobs, active : 0 .. MaxJobs, jobs : 0 .. MaxJobs]
  BY DEF IInv, Typed
<1>2. call' \in [Job -> CallType]
  BY CallsTyped DEF Another, WorkerReleases, Draws, IInv, Typed
<1>3. CASE Draws(j)
  BY <1>2, <1>3 DEF Draws, IInv, Typed, Claimed, OneThread, Paid, PaysForItself, Numbered, Copied, At, Whole
<1>4. CASE Another(j)
  <2>1. q \in WorkerType
    <3>1. w.left - 1 \in 0 .. MaxCandidates - 1
      BY <1>1, <1>4, Constants DEF Another, WorkerType
    <3>2. (w.best \/ call[j].at = "got") \in BOOLEAN
      OBVIOUS
    <3> QED BY <1>1, <3>1, <3>2 DEF WorkerType
  <2>2. /\ q.at = w.at /\ q.kind = w.kind /\ q.cred = w.cred /\ q.pass = w.pass /\ q.dir = w.dir
    BY <1>1 DEF WorkerType
  <2>3. /\ worker' = [worker EXCEPT ![j] = q] /\ UNCHANGED <<job, engine, handler, disk, passes, assets>>
    BY <1>1, <1>4 DEF Another
  <2> HIDE DEF q
  <2>4. /\ \A i \in Job : /\ worker'[i].at = worker[i].at /\ worker'[i].kind = worker[i].kind
                          /\ worker'[i].cred = worker[i].cred /\ worker'[i].pass = worker[i].pass
                          /\ worker'[i].dir = worker[i].dir
        /\ worker' \in [Job -> WorkerType]
    BY <1>1, <2>1, <2>2, <2>3
  <2>5. Typed' /\ Claimed' /\ OneThread' /\ Paid' /\ Copied'
    BY <1>2, <2>3, <2>4 DEF IInv, Typed, Claimed, OneThread, Paid, PaysForItself, Copied, At, Whole
  <2>6. Numbered'
    BY <2>3, <2>4 DEF IInv, Numbered, Whole
  <2> QED BY <2>5, <2>6 DEF IInv
<1>5. CASE WorkerReleases(j)
  <2>1. job[j].stage = "failed" /\ w.at = "release"
    BY <1>5 DEF WorkerReleases, IInv, OneThread
  <2>2. /\ worker' = [worker EXCEPT ![j] = NoWorker]
        /\ engine' = [engine EXCEPT !.active = IF @ = j THEN 0 ELSE @]
        /\ UNCHANGED <<job, handler, disk, passes, assets>>
    BY <1>5 DEF WorkerReleases, Released
  <2>3. /\ worker'[j] = NoWorker /\ NoWorker.at = "off" /\ \A i \in Job : i # j => worker'[i] = worker[i]
        /\ worker' \in [Job -> WorkerType]
    BY <1>1, <2>2, Nothing DEF NoWorker
  <2>4. /\ engine'.current = engine.current /\ engine'.jobs = engine.jobs
        /\ engine'.active = IF engine.active = j THEN 0 ELSE engine.active
        /\ engine' \in [current : 0 .. MaxJobs, active : 0 .. MaxJobs, jobs : 0 .. MaxJobs]
    BY <1>1, <2>2, Constants
  <2>5. Typed'
    BY <1>2, <2>2, <2>3, <2>4 DEF IInv, Typed
  <2>6. Claimed'
    BY <2>1, <2>2, <2>3, <2>4 DEF IInv, Claimed
  <2>7. OneThread'
    BY <2>1, <2>2, <2>3, <2>4 DEF IInv, OneThread, At, Running
  <2>8. Paid'
    BY <2>1, <2>2, <2>3 DEF IInv, Paid, PaysForItself
  <2>9. Numbered' /\ Copied'
    BY <2>2, <2>3 DEF IInv, Numbered, Copied, Running, Whole
  <2> QED BY <2>5, <2>6, <2>7, <2>8, <2>9 DEF IInv
<1> QED BY <1>3, <1>4, <1>5

-----------------------------------------------------------------------------
(* The theorems.                                                            *)

\* The disjuncts of the next-state relation, as the proofs split them.
LEMMA StepShape ==
    ASSUME [Next]_vars
    PROVE  \/ \E h \in Handler :
                 \/ Regenerate(h) \/ ApproveBase(h) \/ RequireJob(h) \/ RequireSet(h)
                 \/ ApproveSet(h) \/ ReadPicture(h) \/ Publish(h)
                 \/ Stylize(h) \/ StartThread(h) \/ Commit(h)
                 \/ Approved(h) \/ Release(h) \/ Cancel(h)
           \/ \E j \in Job : Draws(j) \/ Another(j) \/ WorkerStarts(j) \/ Drawn(j) \/ Offer(j)
                             \/ Fails(j) \/ WorkerReleases(j)
           \/ UNCHANGED vars
BY Zenon DEF Next, Rest, Requests, Serves, Works

LEMMA StepIInv == IInv /\ [Next]_vars => IInv'
<1> SUFFICES ASSUME IInv, [Next]_vars PROVE IInv'
  OBVIOUS
<1>1. CASE UNCHANGED vars
  BY <1>1 DEF vars, IInv, Typed, Claimed, OneThread, Paid, PaysForItself, Numbered, Copied, At, Whole
<1>2. CASE ~UNCHANGED vars
  BY <1>2, StepShape, AskKeeps, ReadKeeps, StylizeKeeps, StartThreadKeeps, CommitKeeps,
     ApprovalKeeps, CancelKeeps, StartsKeeps, EndsKeeps, DrawnKeeps, WorkerKeeps
<1> QED BY <1>1, <1>2

\* The inductive invariant.
THEOREM Invariance == Spec => []IInv
<1> QED BY InitIInv, StepIInv, PTL DEF Spec

\* Every variable holds a value of its type.
THEOREM TypeCorrect == Spec => []TypeOK
<1>1. IInv => TypeOK
  <2> SUFFICES ASSUME IInv PROVE TypeOK
    OBVIOUS
  <2>1. \A j \in Job : /\ job[j].stage \in Stage
                       /\ {job[j].cred, job[j].asked, worker[j].cred} \subseteq Cred \cup {"none"}
                       /\ job[j].set \in 0 .. MaxPasses
                       /\ worker[j].pass \in 0 .. MaxPasses
                       /\ worker[j].left \in 0 .. MaxCandidates - 1
                       /\ call[j].attempt \in 0 .. RETRY_ATTEMPTS - 1
    BY DEF IInv, Typed, JobType, WorkerType, CallType, Owed
  <2>2. engine.current \in 0 .. engine.jobs /\ engine.active \in 0 .. engine.jobs
    BY Constants DEF IInv, Typed, Claimed
  <2>3. \A h \in Handler : Drawing(handler[h].data)
    BY DEF IInv, Typed, Request, Drawings, Drawing
  <2>4. /\ \A d \in Pass : Drawing(disk[d])
        /\ passes \in 0 .. MaxPasses /\ Drawing(assets)
    BY DEF IInv, Typed, Drawings, Drawing
  <2> QED BY <2>1, <2>2, <2>3, <2>4 DEF TypeOK
<1> QED BY <1>1, Invariance, PTL

\* One pass draws at a time, and it is the current job's.
THEOREM OnePass == Spec => []OneGeneration
<1>1. IInv => OneGeneration
  <2> SUFFICES ASSUME IInv PROVE OneGeneration
    OBVIOUS
  <2>1. Generating \subseteq {engine.current}
    BY DEF IInv, OneThread, Generating, Running
  <2>2. IsFiniteSet({engine.current}) /\ Cardinality({engine.current}) = 1
    BY FS_Singleton
  <2> QED BY <2>1, <2>2, FS_Subset DEF OneGeneration
<1> QED BY <1>1, Invariance, PTL

\* A pass is paid for by who started it.
THEOREM PaidByWhoAsked == Spec => []PaysForItself
<1>1. IInv => PaysForItself
  BY DEF IInv, Paid
<1> QED BY <1>1, Invariance, PTL

\* What is published is one whole set of one pass.
THEOREM WholeSets == Spec => []PublishedWhole
<1>1. IInv => PublishedWhole
  BY DEF IInv, Copied, Whole, PublishedWhole, Reading
<1> QED BY <1>1, Invariance, PTL

\* No request acts on a job that is not the current one any more.
THEOREM NothingAfterTheEnd == Spec => OverIsOver
<1>1. IInv /\ [Next]_vars
         => [\A j \in 1 .. engine.jobs : engine.current # j => job'[j].stage = job[j].stage]_vars
  <2> SUFFICES ASSUME IInv, [Next]_vars, NEW i \in 1 .. engine.jobs, engine.current # i
               PROVE  job'[i].stage = job[i].stage
    OBVIOUS
  <2>1. i \in Job /\ job \in [Job -> JobType] /\ i # engine.jobs + 1
    BY Constants DEF IInv, Typed, Job
  <2>2. \A j \in Job : worker[j].at \in Running => j = engine.current
    BY DEF IInv, OneThread
  <2>3. CASE \E h \in Handler : Stylize(h)
    BY <2>1, <2>3 DEF Stylize
  <2>4. ASSUME NEW h \in Handler, Commit(h) PROVE job'[i].stage = job[i].stage
    BY <2>1, <2>4 DEF Commit, Bind, StillCurrent, JobType
  <2>5. ASSUME NEW h \in Handler, Approved(h) \/ Cancel(h) PROVE job'[i].stage = job[i].stage
    BY <2>1, <2>5 DEF Approved, Cancel, Staged, StillCurrent
  <2>6. ASSUME NEW j \in Job, Drawn(j) \/ Offer(j) \/ Fails(j) PROVE job'[i].stage = job[i].stage
    BY <2>1, <2>2, <2>6 DEF Drawn, Offer, Fails, RecordError, Running
  <2>7. CASE UNCHANGED job
    BY <2>7
  <2> QED BY <2>3, <2>4, <2>5, <2>6, <2>7, StepShape
        DEF Regenerate, ApproveBase, RequireJob, RequireSet, ApproveSet, ReadPicture, Publish,
            StartThread, Release, Draws, Another, WorkerStarts, WorkerReleases, vars
<1> QED BY <1>1, Invariance, PTL DEF Spec, OverIsOver
=============================================================================
