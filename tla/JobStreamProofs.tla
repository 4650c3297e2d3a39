-------------------------- MODULE JobStreamProofs --------------------------
(* Proofs about JobStream, for every number of jobs, readers, sentences,     *)
(* chunks and requests.                                                      *)
EXTENDS JobStream, TLAPS

\* A thread that has not yet asked the brain, and one that has finished the job.
Before == {"none", "accepted", "abandoned", "compose", "begin"}
Over   == {"cleanup", "persist", "persist_reply", "forget", "end"}
Place  == Before \cup Over
             \cup {"stream", "tts", "brain", "speak", "speak_line", "closing"}

EndingType == [then : {"none", "end", "forget"}, reply : Texts,
               todo : SUBSET {"claimed", "copy"}]
TurnType == [job : Job, role : {"user", "assistant"}, text : Texts]
ReadType == [at : {"off", "pull", "write", "answer"}, job : Job \cup {NoJob},
             sent : Nat, batch : Nat, done : BOOLEAN, error : BOOLEAN, text : Texts,
             outcome : {"none", "late", "complete", "cut", "failed", "thinking",
                        "answered"}]

Typed ==
    /\ pc \in [Job -> Place]
    /\ job \in [Job -> JobType]
    /\ parts \in [Job -> 0 .. MaxSentences]
    /\ ending \in [Job -> EndingType]
    /\ files \in [Job -> SUBSET {"claimed", "copy"}]
    /\ stuck \in [Job -> SUBSET {"claimed", "copy"}]
    /\ jobs \subseteq Job
    /\ brains \in [Job -> Nat]
    /\ history \in Seq(TurnType)
    /\ rd \in [Reader -> ReadType]
    /\ reads \in [Reader -> Nat]

\* What was pushed is in order, and nothing was heard before or after a whole
\* reply.
InOrder(c) ==
    \A m, n \in 1 .. Len(c) :
        m < n => /\ c[m] <= c[n]
                 /\ c[n] \in {Whole, Silence} => c[m] = c[n]

\* Where the worker is tells what was pushed: ...
Pushes(at, o, p) ==
    /\ InOrder(o.chunks)
    /\ at \in Before \cup {"brain"} => o.chunks = <<>>
    /\ at \in {"stream", "tts"} => \A i \in 1 .. Len(o.chunks) : o.chunks[i] <= p
    /\ at \in {"speak", "speak_line"} => \A i \in 1 .. Len(o.chunks) : o.chunks[i] = Whole
    /\ at = "closing" => /\ Len(o.chunks) = 1
                         /\ o.chunks[1] \in {Whole, Silence}

\* ... and what is shown: a text is staged only until its audio begins.
Shows(at, o, p) ==
    /\ at \in Before => o.reply = 0 
    /\ at \in (Place \ Over) \ {"tts"} => o.pending = 0
    /\ at = "tts" => /\ o.pending \in {0, p} /\ p > 0
                     /\ (\E i \in 1 .. Len(o.chunks) : o.chunks[i] = p) => o.pending = 0
    /\ at \in Before \cup {"brain", "speak", "speak_line", "closing"} => ~o.partial
    /\ o.partial => o.reply # Whole
    /\ o.reply \in Sentence => \E i \in 1 .. Len(o.chunks) : o.chunks[i] = o.reply
    /\ o.done => at \in Over

Asks(at, o, b) ==
    /\ at \in Before => b = 0
    /\ at \in {"stream", "tts"} => b = 1
    /\ b > 1 => \A i \in 1 .. Len(o.chunks) : o.chunks[i] \notin Sentence

Speech(j) ==
    /\ Pushes(pc[j], job[j], parts[j])
    /\ Shows(pc[j], job[j], parts[j])
    /\ Asks(pc[j], job[j], brains[j])

Attached(j) ==
    /\ pc[j] \in {"accepted", "compose", "begin", "stream", "tts", "brain"} =>
          job[j].plan \subseteq files[j]
    /\ pc[j] \in {"accepted", "compose"} /\ job[j].kind = "share" =>
          job[j].plan = {} /\ files[j] = job[j].cleanup /\ files[j] \subseteq {"claimed"}
    /\ pc[j] = "compose" => job[j].kind = "share"
    /\ pc[j] \notin {"none"} \cup Over => files[j] \subseteq job[j].cleanup \cup stuck[j]
    /\ pc[j] = "cleanup" => files[j] \subseteq ending[j].todo \cup stuck[j]
    /\ pc[j] \in Over \ {"cleanup"} => files[j] \subseteq stuck[j]

Ends(j) ==
    pc[j] \in {"cleanup", "persist", "persist_reply"} =>
        /\ ending[j].then \in {"end", "forget"}
        /\ ending[j].reply = job[j].reply

\* The history has nothing of a turn that is not over, and then the user's part.
Remembered(j) ==
    /\ pc[j] \notin Over \/ pc[j] \in {"cleanup", "persist"} =>
          \A m \in 1 .. Len(history) : history[m].job # j
    /\ pc[j] = "persist_reply" =>
          /\ \E m \in 1 .. Len(history) : history[m].job = j
          /\ \A m \in 1 .. Len(history) : history[m].job = j => history[m].role = "user"

\* What a reader's request has found stays true of the job it reads.
Seen(q) ==
    /\ q.at # "off" => q.outcome = "none"
    /\ q.at # "off" \/ q.outcome # "none" => q.job \in Job
    /\ q.job \in Job =>
         /\ pc[q.job] # "none"
         /\ q.sent + q.batch <= Len(job[q.job].chunks)
         /\ q.done => job[q.job].done
         /\ (q.at = "answer" \/ q.outcome = "thinking") /\ q.text # 0 =>
               \E i \in 1 .. q.batch : job[q.job].chunks[i] = q.text
         /\ q.at = "answer" /\ q.done => q.batch = Len(job[q.job].chunks)
         /\ q.outcome = "complete" => q.sent = Len(job[q.job].chunks) /\ job[q.job].done
         /\ q.outcome = "answered" => /\ q.batch = Len(job[q.job].chunks)
                                      /\ q.text = job[q.job].reply /\ job[q.job].done

Looking(r) == Seen(rd[r])

IInv ==
    /\ Typed
    /\ \A j \in Job : Speech(j) /\ Attached(j) /\ Ends(j) /\ Remembered(j)
    /\ \A j \in jobs : pc[j] # "none"
    /\ RemembersWhatWasSaid
    /\ \A r \in Reader : Looking(r)

-----------------------------------------------------------------------------
(* Types.                                                                    *)

LEMMA Numbers == /\ MaxSentences \in Nat \ {0} /\ Sentence = 1 .. MaxSentences
                 /\ Whole = MaxSentences + 1 /\ Silence = MaxSentences + 2
                 /\ Whole \in 1 .. Silence /\ Silence \in 1 .. Silence
                 /\ Whole \in Texts /\ 0 \in Texts /\ Whole \notin Sentence
                 /\ \A s \in Sentence : s \in Texts /\ s \in 1 .. Silence
                 /\ \A s \in 0 .. MaxSentences : s \in Texts
<1>1. MaxSentences \in Nat \ {0}
  BY JobConstants
<1> QED BY <1>1 DEF Sentence, Whole, Silence, Texts

LEMMA PushedType == ASSUME NEW o \in JobType, NEW c \in 1 .. Silence
                    PROVE Pushed(o, c) \in JobType
<1>1. o.chunks \in Seq(1 .. Silence)
  BY DEF JobType
<1>2. Append(o.chunks, c) \in Seq(1 .. Silence)
  BY <1>1
<1>3. (IF o.pending # 0 THEN o.pending ELSE o.reply) \in Texts /\ 0 \in Texts
  BY Numbers DEF JobType
<1>4. Pushed(o, c) = [o EXCEPT !.reply = IF o.pending # 0 THEN o.pending ELSE o.reply,
                               !.pending = 0, !.chunks = Append(o.chunks, c)]
  BY DEF Pushed, JobType
<1> QED BY <1>2, <1>3, <1>4 DEF JobType

LEMMA OtherTypes == ASSUME NEW o \in JobType
                    PROVE  /\ \A t \in Texts : Staged(o, t) \in JobType
                           /\ Updated(o, Whole) \in JobType
                           /\ \A on \in BOOLEAN : PartialReply(o, on) \in JobType
                           /\ Degraded(o) \in JobType
<1>1. \A t \in Texts : Staged(o, t) \in JobType
  BY DEF Staged, JobType
<1>2. Updated(o, Whole) \in JobType
  BY Numbers DEF Updated, JobType
<1>3. \A on \in BOOLEAN : PartialReply(o, on) \in JobType
  BY Numbers DEF PartialReply, JobType
<1>4. Pushed(o, Silence) \in JobType
  BY PushedType, Numbers
<1>5. Degraded(o) \in JobType
  BY <1>4 DEF Degraded, JobType
<1> QED BY <1>1, <1>2, <1>3, <1>5

LEMMA FinishTypes ==
    ASSUME Typed, NEW j \in Job, NEW error \in BOOLEAN, NEW then \in {"end", "forget"},
           Finish(j, job[j], error, then)
    PROVE  pc' \in [Job -> Place] /\ job' \in [Job -> JobType]
           /\ ending' \in [Job -> EndingType]
<1>1. job[j] \in JobType
  BY DEF Typed
<1>2. [job[j] EXCEPT !.done = TRUE, !.error = error, !.cleanup = {}] \in JobType
  BY <1>1 DEF JobType
<1>3. [then |-> then, reply |-> job[j].reply, todo |-> job[j].cleanup] \in EndingType
  BY <1>1 DEF JobType, EndingType
<1>4. pc' \in [Job -> Place]
  BY DEF Finish, Typed, Place, Over
<1>5. job' \in [Job -> JobType]
  BY <1>2 DEF Finish, Typed
<1>6. ending' \in [Job -> EndingType]
  BY <1>3 DEF Finish, Typed
<1> QED BY <1>4, <1>5, <1>6

LEMMA NewJobType == NewJob \in JobType
BY Numbers DEF NewJob, JobType, Kinds

LEMMA InitTyped == Init => Typed
<1> SUFFICES ASSUME Init PROVE Typed
  OBVIOUS
<1>1. NewJob \in JobType
  BY NewJobType
<1>2. NoEnding \in EndingType
  BY Numbers DEF NoEnding, EndingType
<1>3. NoRead \in ReadType
  BY Numbers DEF NoRead, ReadType
<1>4. "none" \in Place /\ 0 \in 0 .. MaxSentences
  BY Numbers DEF Place, Before
<1> QED BY <1>1, <1>2, <1>3, <1>4 DEF Init, Typed

LEMMA RetryTypes == ASSUME Typed, NEW j \in Job, Retry(j)
                    PROVE  pc' \in [Job -> Place] /\ job' \in [Job -> JobType]
                           /\ brains' \in [Job -> Nat] /\ ending' = ending
<1>1. PartialReply(job[j], FALSE) \in JobType
  BY OtherTypes DEF Typed
<1>2. job' \in [Job -> JobType]
  BY <1>1 DEF Retry, Typed
<1>3. brains' \in [Job -> Nat]
  BY DEF Retry, AskBrain, Typed
<1>4. pc' \in [Job -> Place]
  BY DEF Retry, Typed, Place
<1> QED BY <1>2, <1>3, <1>4 DEF Retry

LEMMA HandlerTypes == ASSUME Typed, NEW j \in Job, Handler(j)
                      PROVE  Typed'
<1>1. ASSUME NEW kind \in Kinds, NEW said \in BOOLEAN, NEW plan \in Plans,
             Accept(j, kind, said, plan)
      PROVE  Typed'
  <2>1. plan \in SUBSET {"claimed", "copy"} /\ Known(plan) \in SUBSET {"claimed", "copy"}
        /\ Brought(kind, plan) \subseteq SUBSET {"claimed", "copy"}
    BY DEF Plans, Known, Composed, Brought
  <2>2. PICK have \in SUBSET {"claimed", "copy"} :
          /\ files' = [files EXCEPT ![j] = have]
          /\ stuck' = [stuck EXCEPT ![j] = have \ Known(plan)]
          /\ job' = [job EXCEPT ![j] = [NewJob EXCEPT
                        !.kind = kind, !.said = said, !.cleanup = have \cap Known(plan),
                        !.plan = IF kind = "share" THEN {} ELSE plan]]
    BY <1>1, <2>1 DEF Accept
  <2>3. [NewJob EXCEPT !.kind = kind, !.said = said, !.cleanup = have \cap Known(plan),
                       !.plan = IF kind = "share" THEN {} ELSE plan] \in JobType
    <3>1. (IF kind = "share" THEN {} ELSE plan) \in SUBSET {"claimed", "copy"}
      BY <2>1
    <3> QED BY <3>1, NewJobType DEF JobType
  <2>4. job' \in [Job -> JobType] /\ files' \in [Job -> SUBSET {"claimed", "copy"}]
        /\ stuck' \in [Job -> SUBSET {"claimed", "copy"}]
    BY <2>2, <2>3 DEF Typed
  <2>5. pc' \in [Job -> Place] /\ jobs' \subseteq Job
    BY <1>1 DEF Accept, Typed, Place, Before
  <2> QED BY <1>1, <2>4, <2>5 DEF Accept, Typed
<1>2. CASE StartWorker(j)
  <2>1. pc' \in [Job -> Place]
    BY <1>2 DEF StartWorker, Typed, Place, Before
  <2> QED BY <1>2, <2>1 DEF StartWorker, Typed
<1>3. CASE StartFails(j)
  <2>1. CASE Finish(j, job[j], TRUE, "forget")
    BY <1>3, <2>1, FinishTypes DEF StartFails, Typed
  <2>2. CASE pc' = [pc EXCEPT ![j] = "abandoned"] /\ UNCHANGED <<job, ending>>
    <3>1. pc' \in [Job -> Place]
      BY <2>2 DEF Typed, Place, Before
    <3> QED BY <1>3, <2>2, <3>1 DEF StartFails, Typed
  <2> QED BY <1>3, <2>1, <2>2 DEF StartFails
<1> QED BY <1>1, <1>2, <1>3 DEF Handler

LEMMA PartsTypes == ASSUME Typed, NEW j \in Job,
                           \/ Compose(j) \/ Begin(j) \/ NextSentence(j) \/ SentenceChunk(j)
                           \/ SentenceDone(j) \/ StreamEnds(j) \/ StreamFails(j),
                           Shows(pc[j], job[j], parts[j])
                    PROVE  Typed'
<1> job[j] \in JobType /\ parts[j] \in 0 .. MaxSentences
  BY DEF Typed
<1>1. CASE Compose(j)
  <2>1. ASSUME NEW plan \in SUBSET {"claimed", "copy"},
               NEW left \in SUBSET {"claimed", "copy"},
               files' = [files EXCEPT ![j] = left],
               stuck' = [stuck EXCEPT ![j] = left \ Known(plan)],
               job' = [job EXCEPT ![j].plan = plan, ![j].cleanup = ToRemove(j, plan)],
               pc' = [pc EXCEPT ![j] = "begin"], UNCHANGED ending
        PROVE  Typed'
    <3>2. [job[j] EXCEPT !.plan = plan, !.cleanup = ToRemove(j, plan)] \in JobType
      BY DEF JobType, ToRemove
    <3>3. job' = [job EXCEPT ![j] = [job[j] EXCEPT !.plan = plan,
                                                   !.cleanup = ToRemove(j, plan)]]
      BY <2>1 DEF Typed
    <3>4. job' \in [Job -> JobType] /\ files' \in [Job -> SUBSET {"claimed", "copy"}]
          /\ stuck' \in [Job -> SUBSET {"claimed", "copy"}]
      BY <2>1, <3>2, <3>3 DEF Typed
    <3>5. pc' \in [Job -> Place]
      BY <2>1 DEF Typed, Place, Before
    <3> QED BY <1>1, <2>1, <3>4, <3>5 DEF Compose, Typed
  <2>2. CASE Finish(j, job[j], TRUE, "end") /\ UNCHANGED <<files, stuck>>
    BY <1>1, <2>2, FinishTypes DEF Compose, Typed
  <2>3. \A plan \in Plans \cup {{}} : plan \in SUBSET {"claimed", "copy"}
          /\ Composed(plan) \cup {{}} \subseteq SUBSET {"claimed", "copy"}
    BY DEF Plans, Composed, Known
  <2> QED BY <1>1, <2>1, <2>2, <2>3 DEF Compose
<1>2. CASE Begin(j)
  <2>1. PartialReply(job[j], TRUE) \in JobType
    BY OtherTypes
  <2>2. job' \in [Job -> JobType]
    <3>1. job' = [job EXCEPT ![j] = PartialReply(job[j], TRUE)] \/ job' = job
      BY <1>2 DEF Begin
    <3> QED BY <2>1, <3>1 DEF Typed
  <2>3. pc' \in [Job -> Place]
    BY <1>2 DEF Begin, Typed, Place
  <2>4. brains' \in [Job -> Nat]
    BY <1>2 DEF Begin, AskBrain, Typed
  <2> QED BY <1>2, <2>2, <2>3, <2>4 DEF Begin, Typed
<1>3. CASE NextSentence(j)
  <2>1. parts[j] + 1 \in 0 .. MaxSentences
    BY <1>3, Numbers DEF NextSentence
  <2>2. Staged(job[j], parts[j] + 1) \in JobType
    BY <2>1, OtherTypes, Numbers
  <2>3. job' \in [Job -> JobType] /\ parts' \in [Job -> 0 .. MaxSentences]
    BY <1>3, <2>1, <2>2 DEF NextSentence, Typed
  <2>4. pc' \in [Job -> Place]
    BY <1>3 DEF NextSentence, Typed, Place
  <2> QED BY <1>3, <2>3, <2>4 DEF NextSentence, Typed
<1>4. CASE SentenceChunk(j)
  <2>1. parts[j] \in 1 .. Silence
    BY <1>4, Numbers DEF SentenceChunk, Shows
  <2>2. Pushed(job[j], parts[j]) \in JobType
    BY <2>1, PushedType
  <2> QED BY <1>4, <2>2 DEF SentenceChunk, Typed
<1>5. CASE SentenceDone(j)
  <2>1. pc' \in [Job -> Place]
    BY <1>5 DEF SentenceDone, Typed, Place
  <2> QED BY <1>5, <2>1 DEF SentenceDone, Typed
<1>6. CASE StreamEnds(j)
  BY <1>6, FinishTypes DEF StreamEnds, Typed
<1>7. CASE StreamFails(j)
  <2>1. CASE Finish(j, job[j], FALSE, "end") /\ UNCHANGED brains
    BY <1>7, <2>1, FinishTypes DEF StreamFails, Typed
  <2>2. CASE Retry(j)
    BY <1>7, <2>2, RetryTypes DEF StreamFails, Typed
  <2> QED BY <1>7, <2>1, <2>2 DEF StreamFails, FallBack
<1> QED BY <1>1, <1>2, <1>3, <1>4, <1>5, <1>6, <1>7

LEMMA WholeTypes == ASSUME Typed, NEW j \in Job,
                           \/ Replied(j, "speak") \/ Replied(j, "speak_line")
                           \/ WholeChunk(j) \/ WholeDone(j) \/ WholeFails(j)
                           \/ PipelineFails(j)
                    PROVE  Typed'
<1> job[j] \in JobType
  BY DEF Typed
<1>1. ASSUME NEW next \in {"speak", "speak_line"}, Replied(j, next)
      PROVE  Typed'
  <2>1. Updated(job[j], Whole) \in JobType
    BY OtherTypes
  <2>2. job' \in [Job -> JobType] /\ pc' \in [Job -> Place]
    BY <1>1, <2>1 DEF Replied, Typed, Place
  <2> QED BY <1>1, <2>2 DEF Replied, Typed
<1>2. CASE WholeChunk(j)
  <2>1. Pushed(job[j], Whole) \in JobType
    BY PushedType, Numbers
  <2> QED BY <1>2, <2>1 DEF WholeChunk, Typed
<1>3. CASE WholeDone(j)
  BY <1>3, FinishTypes DEF WholeDone, Typed
<1>4. CASE PipelineFails(j)
  BY <1>4, FinishTypes DEF PipelineFails, Typed
<1>5. CASE WholeFails(j)
  <2>1. CASE Finish(j, job[j], FALSE, "end")
    BY <1>5, <2>1, FinishTypes DEF WholeFails, Typed
  <2>2. CASE LastResort(j) /\ UNCHANGED ending
    <3>1. Degraded(job[j]) \in JobType /\ Pushed(job[j], Whole) \in JobType
      BY PushedType, OtherTypes, Numbers
    <3>2. \/ job' = [job EXCEPT ![j] = Degraded(job[j])]
          \/ job' = [job EXCEPT ![j] = Pushed(job[j], Whole)]
      BY <2>2 DEF LastResort
    <3>3. job' \in [Job -> JobType]
      BY <3>1, <3>2 DEF Typed
    <3>4. pc' \in [Job -> Place]
      BY <2>2 DEF LastResort, Typed, Place
    <3> QED BY <1>5, <2>2, <3>3, <3>4 DEF WholeFails, Typed
  <2> QED BY <1>5, <2>1, <2>2 DEF WholeFails
<1> QED BY <1>1, <1>2, <1>3, <1>4, <1>5

LEMMA EndTypes == ASSUME Typed, NEW j \in Job, Ends(j),
                         \/ RunCleanup(j) \/ PersistUser(j) \/ PersistReply(j)
                         \/ PersistFails(j) \/ Forget(j)
                  PROVE  Typed'
<1> ending[j] \in EndingType
  BY DEF Typed
<1>1. CASE RunCleanup(j)
  <2>1. PICK kept \in SUBSET (files[j] \cap ending[j].todo) :
          /\ files' = [files EXCEPT ![j] = (@ \ ending[j].todo) \cup kept]
          /\ stuck' = [stuck EXCEPT ![j] = @ \cup kept]
    BY <1>1 DEF RunCleanup
  <2>2. kept \subseteq {"claimed", "copy"}
    BY DEF Typed
  <2>3. /\ files' \in [Job -> SUBSET {"claimed", "copy"}]
        /\ stuck' \in [Job -> SUBSET {"claimed", "copy"}]
    BY <2>1, <2>2 DEF Typed
  <2>4. pc' \in [Job -> Place]
    BY <1>1 DEF RunCleanup, Typed, Place, Over
  <2> QED BY <1>1, <2>3, <2>4 DEF RunCleanup, Typed
<1>2. CASE PersistUser(j) \/ PersistReply(j) \/ PersistFails(j)
  <2>1. ending[j].then \in {"end", "forget"}
    BY <1>2 DEF Ends, PersistUser, PersistReply, PersistFails
  <2>2. pc' \in [Job -> Place]
    BY <1>2, <2>1 DEF PersistUser, PersistReply, PersistFails, Typed, Place, Over
  <2>3. ending[j].reply \in Texts /\ 0 \in Texts
    BY Numbers DEF EndingType
  <2>4. Turn(j, "user", 0) \in TurnType /\ Turn(j, "assistant", ending[j].reply) \in TurnType
    BY <2>3 DEF Turn, TurnType
  <2>5. history' = history \/ \E t \in TurnType : history' = Append(history, t)
    BY <1>2, <2>4 DEF PersistUser, PersistReply, PersistFails
  <2>6. history' \in Seq(TurnType)
    <3>1. history \in Seq(TurnType)
      BY DEF Typed
    <3>2. \A t \in TurnType : Append(history, t) \in Seq(TurnType)
      BY <3>1
    <3> QED BY <2>5, <3>1, <3>2
  <2> QED BY <1>2, <2>2, <2>6 DEF PersistUser, PersistReply, PersistFails, Typed
<1>3. CASE Forget(j)
  <2>1. pc' \in [Job -> Place] /\ jobs' \subseteq Job
    BY <1>3 DEF Forget, Typed, Place, Over
  <2> QED BY <1>3, <2>1 DEF Forget, Typed
<1> QED BY <1>1, <1>2, <1>3

\* A reader's request keeps its types, and touches nothing but itself.
LEMMA ServeTypes == ASSUME Typed, NEW r \in Reader, NEW q \in ReadType, Serve(r, q)
                    PROVE  rd' \in [Reader -> ReadType]
BY DEF Serve, Typed

LEMMA ReaderTypes == ASSUME Typed, NEW r \in Reader, Looking(r),
                            \/ Reading(r) \/ GiveUp(r) \/ CutOff(r)
                            \/ \E j \in Job : OpenStream(r, j) \/ Poll(r, j)
                     PROVE  Typed'
<1>1. PICK q \in ReadType : q = rd[r]
  BY DEF Typed
<1>2. NoRead \in ReadType
  BY Numbers DEF NoRead, ReadType
<1>3. q.at # "off" => q.job \in Job
  BY <1>1 DEF Looking, Seen
<1>4. \A j \in Job : job[j] \in JobType /\ Len(job[j].chunks) \in Nat
  BY DEF Typed, JobType
<1>5. \E p \in ReadType : Serve(r, p)
  <2>1. CASE Pull(r)
    <3>1. job[q.job] \in JobType /\ Len(job[q.job].chunks) \in Nat
      BY <1>1, <1>3, <1>4, <2>1 DEF Pull
    <3>2. q.sent + q.batch <= Len(job[q.job].chunks)
      BY <1>1, <1>3, <2>1 DEF Pull, Looking, Seen
    <3>3. Len(job[q.job].chunks) - q.sent \in Nat
      BY <3>1, <3>2 DEF ReadType
    <3>4. [q EXCEPT !.at = "write", !.done = job[q.job].done,
                    !.batch = Len(job[q.job].chunks) - q.sent] \in ReadType
      BY <3>1, <3>3 DEF ReadType, JobType
    <3> QED BY <1>1, <2>1, <3>4 DEF Pull
  <2>2. CASE WriteOut(r)
    <3>1. PICK n \in Nat : n = q.sent + q.batch
      BY DEF ReadType
    <3>2. Written(q) = [q EXCEPT !.sent = n, !.batch = 0]
      BY <3>1 DEF Written, ReadType
    <3>3. Written(q) \in ReadType
      <4>1. \A m \in Nat : [q EXCEPT !.sent = m, !.batch = 0] \in ReadType
        BY DEF ReadType
      <4> QED BY <3>2, <4>1
    <3>4. [Written(q) EXCEPT !.at = "off", !.outcome = "complete"] \in ReadType
          /\ [Written(q) EXCEPT !.at = "pull"] \in ReadType
      BY <3>3 DEF ReadType
    <3> QED BY <1>1, <2>2, <3>4 DEF WriteOut
  <2>3. CASE Answer(r)
    <3>1. job[q.job].reply \in Texts /\ 0 \in Texts
      BY <1>1, <1>3, <1>4, <2>3, Numbers DEF Answer, JobType
    <3>2. PICK t \in Texts : t = (IF q.batch > 0 THEN q.text ELSE 0)
      BY <3>1 DEF ReadType
    <3>3. [q EXCEPT !.at = "off", !.outcome = "failed"] \in ReadType
      BY DEF ReadType
    <3>4. [q EXCEPT !.at = "off", !.outcome = "thinking", !.text = t] \in ReadType
      BY DEF ReadType
    <3>5. [q EXCEPT !.at = "off", !.outcome = "answered", !.text = job[q.job].reply]
             \in ReadType
      BY <3>1 DEF ReadType
    <3>6. [q EXCEPT !.at = "off", !.outcome = "thinking", !.text = t]
             = [q EXCEPT !.at = "off", !.outcome = "thinking",
                         !.text = IF q.batch > 0 THEN @ ELSE 0]
      BY <3>2 DEF ReadType
    <3> QED BY <1>1, <2>3, <3>3, <3>4, <3>5, <3>6 DEF Answer
  <2>4. CASE GiveUp(r) \/ CutOff(r)
    <3>1. [q EXCEPT !.at = "off", !.outcome = "late"] \in ReadType
          /\ [q EXCEPT !.at = "off", !.outcome = "cut"] \in ReadType
      BY DEF ReadType
    <3> QED BY <1>1, <2>4, <3>1 DEF GiveUp, CutOff
  <2>5. ASSUME NEW j \in Job, OpenStream(r, j)
        PROVE  \E p \in ReadType : Serve(r, p)
    <3>1. [NoRead EXCEPT !.at = "pull", !.job = j] \in ReadType
      BY <1>2 DEF ReadType
    <3> QED BY <2>5, <3>1 DEF OpenStream
  <2>6. ASSUME NEW j \in Job, Poll(r, j)
        PROVE  \E p \in ReadType : Serve(r, p)
    <3>1. PICK t \in Texts : t = (IF job[j].partial THEN job[j].reply ELSE 0)
      BY <1>4, Numbers DEF JobType
    <3>2. PICK p : p = [NoRead EXCEPT !.at = "answer", !.job = j, !.done = job[j].done,
                                      !.error = job[j].error,
                                      !.batch = Len(job[j].chunks), !.text = t]
      OBVIOUS
    <3>3. p \in ReadType
      BY <1>2, <1>4, <3>2 DEF ReadType, JobType
    <3>4. Serve(r, p)
      BY <2>6, <3>1, <3>2 DEF Poll
    <3> QED BY <3>3, <3>4
  <2> QED BY <2>1, <2>2, <2>3, <2>4, <2>5, <2>6 DEF Reading
<1>6. rd' \in [Reader -> ReadType]
  BY <1>5, ServeTypes
<1>7. reads' \in [Reader -> Nat]
  <2>1. reads' = reads \/ reads' = [reads EXCEPT ![r] = @ + 1]
    <3>1. CASE Reading(r) \/ GiveUp(r) \/ CutOff(r)
      BY <3>1 DEF Reading, Pull, WriteOut, Answer, GiveUp, CutOff
    <3>2. CASE \E j \in Job : OpenStream(r, j) \/ Poll(r, j)
      BY <3>2 DEF OpenStream, Poll
    <3> QED BY <3>1, <3>2
  <2>2. reads \in [Reader -> Nat]
    BY DEF Typed
  <2> QED BY <2>1, <2>2
<1>8. UNCHANGED work
  BY DEF Reading, Pull, WriteOut, Answer, GiveUp, CutOff, OpenStream, Poll
<1> QED BY <1>6, <1>7, <1>8 DEF work, Typed

-----------------------------------------------------------------------------
(* What is pushed, shown and asked of one job.                               *)

\* A step of one job's handler or worker leaves the other jobs as they are.
Alone(j) ==
    \A k \in Job : k # j =>
        /\ pc'[k] = pc[k] /\ job'[k] = job[k] /\ parts'[k] = parts[k]
        /\ brains'[k] = brains[k] /\ files'[k] = files[k] /\ ending'[k] = ending[k]
        /\ stuck'[k] = stuck[k]

LEMMA HandlersAlone == ASSUME Typed, NEW j \in Job, Handler(j) \/ Worker(j)
                       PROVE  Alone(j)
<1>1. CASE Handler(j)
  BY <1>1 DEF Handler, Accept, StartWorker, StartFails, Finish, Alone, Typed
<1>2. CASE Compose(j) \/ Begin(j) \/ NextSentence(j) \/ SentenceChunk(j) \/ SentenceDone(j)
  BY <1>2 DEF Compose, Begin, AskBrain, NextSentence, SentenceChunk, SentenceDone, Finish,
              Alone, Typed
<1>3. CASE StreamEnds(j) \/ StreamFails(j)
  BY <1>3 DEF StreamEnds, StreamFails, FallBack, Retry, AskBrain, Finish, Alone, Typed
<1>4. CASE \/ Replied(j, "speak") \/ Replied(j, "speak_line") \/ PipelineFails(j)
           \/ WholeChunk(j) \/ WholeDone(j)
  BY <1>4 DEF Replied, PipelineFails, WholeChunk, WholeDone, Finish, Alone, Typed
<1>5. CASE WholeFails(j)
  BY <1>5 DEF WholeFails, LastResort, Finish, Alone, Typed
<1>6. CASE RunCleanup(j) \/ PersistUser(j) \/ PersistReply(j) \/ PersistFails(j) \/ Forget(j)
  BY <1>6 DEF RunCleanup, PersistUser, PersistReply, PersistFails, Forget, Alone, Typed
<1> QED BY <1>1, <1>2, <1>3, <1>4, <1>5, <1>6 DEF Worker

LEMMA OrderExtends ==
    ASSUME NEW c \in Seq(1 .. Silence), NEW s \in 1 .. Silence, InOrder(c),
           \A i \in 1 .. Len(c) : c[i] <= s,
           s \in {Whole, Silence} => \A i \in 1 .. Len(c) : c[i] = s
    PROVE  InOrder(Append(c, s))
<1>1. Len(Append(c, s)) = Len(c) + 1 /\ Len(c) \in Nat
  OBVIOUS
<1>2. \A i \in 1 .. Len(c) : Append(c, s)[i] = c[i]
  OBVIOUS
<1>3. Append(c, s)[Len(c) + 1] = s
  OBVIOUS
<1>4. ASSUME NEW m \in 1 .. Len(c) + 1, NEW n \in 1 .. Len(c) + 1, m < n
      PROVE  /\ Append(c, s)[m] <= Append(c, s)[n]
             /\ Append(c, s)[n] \in {Whole, Silence} => Append(c, s)[m] = Append(c, s)[n]
  <2>1. m \in 1 .. Len(c)
    BY <1>1, <1>4
  <2>2. CASE n = Len(c) + 1
    BY <1>2, <1>3, <2>1, <2>2
  <2>3. CASE n \in 1 .. Len(c)
    BY <1>2, <1>4, <2>1, <2>3 DEF InOrder
  <2> QED BY <1>1, <2>2, <2>3
<1> QED BY <1>1, <1>4 DEF InOrder

\* The chunks after a push.
LEMMA PushedChunks ==
    ASSUME NEW o \in JobType, NEW s \in 1 .. Silence
    PROVE  LET c == Pushed(o, s).chunks
           IN /\ c = Append(o.chunks, s) /\ Len(c) = Len(o.chunks) + 1
              /\ Len(o.chunks) \in Nat /\ c[Len(c)] = s
              /\ \A i \in 1 .. Len(o.chunks) : c[i] = o.chunks[i]
<1>1. o.chunks \in Seq(1 .. Silence)
  BY DEF JobType
<1>2. Pushed(o, s).chunks = Append(o.chunks, s)
  BY DEF Pushed, JobType
<1> QED BY <1>1, <1>2


LEMMA ChunkTypes == ASSUME NEW c \in Seq(1 .. Silence)
                    PROVE  Len(c) \in Nat /\ \A i \in 1 .. Len(c) : c[i] \in 1 .. Silence
<1> DEFINE S == 1 .. Silence
<1> c \in Seq(S)
  OBVIOUS
<1> HIDE DEF S
<1>1. Len(c) \in Nat /\ \A i \in 1 .. Len(c) : c[i] \in S
  OBVIOUS
<1> QED BY <1>1 DEF S

\* A job that is over has been heard as before.
LEMMA FinishSpeech ==
    ASSUME Typed, NEW j \in Job, Speech(j), NEW error \in BOOLEAN, NEW then,
           Finish(j, job[j], error, then), brains'[j] = brains[j]
    PROVE  Speech(j)'
<1>1. PICK o : o = job[j]
  OBVIOUS
<1>2. o \in JobType /\ job \in [Job -> JobType] /\ pc \in [Job -> Place]
  BY <1>1 DEF Typed
<1>3. PICK n : n = job'[j]
  OBVIOUS
<1>4. n = [o EXCEPT !.done = TRUE, !.error = error, !.cleanup = {}]
  BY <1>1, <1>2, <1>3 DEF Finish
<1>5. n.chunks = o.chunks /\ n.reply = o.reply /\ n.partial = o.partial /\ n.done
  BY <1>2, <1>4 DEF JobType
<1>6. pc'[j] = "cleanup"
  BY <1>2 DEF Finish
<1>7. Pushes("cleanup", n, parts'[j])
  BY <1>1, <1>5 DEF Pushes, Speech, Before
<1>8. Shows("cleanup", n, parts'[j])
  BY <1>1, <1>5 DEF Shows, Speech, Before, Over, Place
<1>9. Asks("cleanup", n, brains'[j])
  BY <1>1, <1>5 DEF Asks, Speech, Before
<1> QED BY <1>3, <1>6, <1>7, <1>8, <1>9 DEF Speech

\* Only the place changed, to one of which as much is known.
LEMMA MoveSpeech ==
    ASSUME Typed, NEW j \in Job, Speech(j),
           pc[j] # pc'[j],
           \/ pc[j] \in Before /\ pc'[j] \in Before
           \/ pc[j] \in Over /\ pc'[j] \in Over,
           job'[j] = job[j] \/ job'[j].chunks = job[j].chunks,
           parts'[j] = parts[j], brains'[j] = brains[j],
           job'[j].reply = job[j].reply, job'[j].pending = job[j].pending,
           job'[j].partial = job[j].partial, job'[j].done = job[j].done
    PROVE  Speech(j)'
BY DEF Speech, Pushes, Shows, Asks, Before, Over, Place

LEMMA HandlerSpeech == ASSUME Typed, NEW j \in Job, Speech(j), Handler(j)
                       PROVE  Speech(j)'
<1>1. ASSUME NEW kind \in Kinds, NEW said \in BOOLEAN, NEW plan \in Plans,
             Accept(j, kind, said, plan)
      PROVE  Speech(j)'
  <2>1. PICK o : o = job'[j]
    OBVIOUS
  <2>2. /\ o.chunks = <<>> /\ o.reply = 0 /\ o.pending = 0
        /\ o.partial = FALSE /\ o.done = FALSE
    BY <1>1, <2>1 DEF Accept, Typed, NewJob
  <2>3. pc'[j] = "accepted" /\ pc[j] = "none" /\ brains'[j] = brains[j]
    BY <1>1 DEF Accept, Typed
  <2>4. brains'[j] = 0
    BY <2>3 DEF Speech, Asks, Before
  <2>5. Pushes("accepted", o, parts'[j])
    BY <2>2 DEF Pushes, InOrder, Before
  <2>6. Shows("accepted", o, parts'[j])
    BY <2>2, Numbers DEF Shows, Before, Over, Place
  <2>7. Asks("accepted", o, brains'[j])
    BY <2>4 DEF Asks, Before
  <2> QED BY <2>1, <2>3, <2>5, <2>6, <2>7 DEF Speech
<1>2. CASE StartWorker(j) \/ StartFails(j)
  <2>1. CASE Finish(j, job[j], TRUE, "forget")
    BY <1>2, <2>1, FinishSpeech DEF StartFails, StartWorker, Typed
  <2>2. CASE ~Finish(j, job[j], TRUE, "forget")
    <3>1. /\ job'[j] = job[j] /\ parts'[j] = parts[j] /\ brains'[j] = brains[j]
          /\ pc[j] = "accepted" /\ pc'[j] \in {"compose", "begin", "abandoned"}
      BY <1>2, <2>2 DEF StartWorker, StartFails, Typed
    <3> QED BY <3>1, MoveSpeech DEF Before
  <2> QED BY <2>1, <2>2
<1> QED BY <1>1, <1>2 DEF Handler

LEMMA EarlySpeech == ASSUME Typed, NEW j \in Job, Speech(j), Compose(j) \/ Begin(j)
                     PROVE  Speech(j)'
<1>1. PICK o : o = job[j]
  OBVIOUS
<1>2. o \in JobType /\ job \in [Job -> JobType] /\ pc \in [Job -> Place]
  BY <1>1 DEF Typed
<1>3. CASE Compose(j)
  <2>1. CASE Finish(j, job[j], TRUE, "end")
    BY <1>3, <2>1, FinishSpeech DEF Compose
  <2>2. CASE ~Finish(j, job[j], TRUE, "end")
    <3>1. PICK plan : /\ job' = [job EXCEPT ![j].plan = plan,
                                            ![j].cleanup = ToRemove(j, plan)]
                      /\ pc' = [pc EXCEPT ![j] = "begin"]
      BY <1>3, <2>2 DEF Compose
    <3>2. job'[j] = [o EXCEPT !.plan = plan, !.cleanup = ToRemove(j, plan)]
      BY <1>1, <1>2, <3>1
    <3>3. pc'[j] = "begin" /\ pc[j] = "compose"
      BY <1>2, <1>3, <3>1 DEF Compose
    <3>4. parts'[j] = parts[j] /\ brains'[j] = brains[j]
      BY <1>3 DEF Compose
    <3> QED BY <1>1, <1>2, <3>2, <3>3, <3>4, MoveSpeech DEF Before, JobType
  <2> QED BY <2>1, <2>2
<1>4. CASE Begin(j)
  <2>1. PICK n : n = job'[j]
    OBVIOUS
  <2>2. \/ pc'[j] = "stream" /\ n = PartialReply(o, TRUE)
        \/ pc'[j] = "brain" /\ n = o
    BY <1>1, <1>2, <1>4, <2>1 DEF Begin
  <2>3. /\ n.chunks = o.chunks /\ n.reply = o.reply /\ n.done = o.done
        /\ n.pending = o.pending
        /\ pc'[j] = "brain" => n.partial = o.partial
    BY <1>2, <2>2 DEF PartialReply, JobType
  <2>4. pc[j] = "begin" /\ brains'[j] = brains[j] + 1
    BY <1>4 DEF Begin, AskBrain, Typed
  <2>5. /\ o.chunks = <<>> /\ o.reply = 0 /\ o.pending = 0 /\ o.partial = FALSE
        /\ brains[j] = 0 /\ ~o.done
    BY <1>1, <1>2, <2>4 DEF Speech, Pushes, Shows, Asks, Before, Over, Place, JobType
  <2>6. PICK at : at = pc'[j]
    OBVIOUS
  <2>7. at \in {"stream", "brain"} /\ (at = "brain" => n.partial = FALSE)
    BY <2>2, <2>3, <2>5, <2>6
  <2>8. n.chunks = <<>> /\ n.reply = 0 /\ n.pending = 0 /\ ~n.done /\ brains'[j] = 1
    BY <2>3, <2>4, <2>5
  <2>9. Pushes(at, n, parts'[j])
    BY <2>7, <2>8 DEF Pushes, InOrder, Before
  <2>10. Shows(at, n, parts'[j])
    BY <2>7, <2>8, Numbers DEF Shows, Before, Over, Place
  <2>11. Asks(at, n, brains'[j])
    BY <2>7, <2>8 DEF Asks, Before
  <2> QED BY <2>1, <2>6, <2>9, <2>10, <2>11 DEF Speech
<1> QED BY <1>3, <1>4

LEMMA StreamSpeech == ASSUME Typed, NEW j \in Job, Speech(j),
                             NextSentence(j) \/ SentenceChunk(j) \/ SentenceDone(j)
                      PROVE  Speech(j)'
<1>1. PICK o : o = job[j]
  OBVIOUS
<1>2. /\ o \in JobType /\ o.chunks \in Seq(1 .. Silence) /\ parts[j] \in 0 .. MaxSentences
      /\ job \in [Job -> JobType] /\ pc \in [Job -> Place]
      /\ parts \in [Job -> 0 .. MaxSentences]
  BY <1>1 DEF Typed, JobType
<1>3. PICK n : n = job'[j]
  OBVIOUS
<1>4. pc[j] \in {"stream", "tts"}
  BY DEF NextSentence, SentenceChunk, SentenceDone
<1>5. /\ InOrder(o.chunks) /\ \A i \in 1 .. Len(o.chunks) : o.chunks[i] <= parts[j]
      /\ brains[j] = 1 /\ ~o.done
  BY <1>1, <1>4 DEF Speech, Pushes, Shows, Asks, Over
<1>6. /\ o.partial => o.reply # Whole
      /\ o.reply \in Sentence => \E i \in 1 .. Len(o.chunks) : o.chunks[i] = o.reply
  BY <1>1 DEF Speech, Shows
<1>7. brains'[j] = 1
  BY <1>5 DEF NextSentence, SentenceChunk, SentenceDone
<1>8. CASE NextSentence(j)
  <2>1. /\ pc[j] = "stream" /\ pc'[j] = "tts" /\ parts'[j] = parts[j] + 1
        /\ n = Staged(o, parts[j] + 1)
    BY <1>1, <1>2, <1>3, <1>8 DEF NextSentence
  <2>2. /\ n.chunks = o.chunks /\ n.reply = o.reply /\ n.partial = o.partial
        /\ n.pending = parts[j] + 1 /\ n.done = o.done
    BY <1>2, <2>1 DEF Staged, JobType
  <2>3. \A i \in 1 .. Len(o.chunks) : o.chunks[i] \in 1 .. Silence
    BY <1>2, ChunkTypes
  <2>4. \A i \in 1 .. Len(o.chunks) : o.chunks[i] <= parts[j] + 1
                                      /\ o.chunks[i] # parts[j] + 1
    BY <1>2, <1>5, <2>3, Numbers
  <2>5. Pushes("tts", n, parts'[j])
    BY <1>5, <2>1, <2>2, <2>4 DEF Pushes, Before
  <2>6. Shows("tts", n, parts'[j])
    <3>1. parts[j] + 1 > 0
      BY <1>2, Numbers
    <3>2. ~\E i \in 1 .. Len(n.chunks) : n.chunks[i] = parts[j] + 1
      BY <2>2, <2>4
    <3> QED BY <1>5, <1>6, <2>1, <2>2, <3>1, <3>2 DEF Shows, Before, Over, Place
  <2>7. Asks("tts", n, brains'[j])
    BY <1>7 DEF Asks, Before
  <2> QED BY <1>3, <2>1, <2>5, <2>6, <2>7 DEF Speech
<1>9. CASE SentenceChunk(j)
  <2>1. /\ pc[j] = "tts" /\ pc'[j] = "tts" /\ parts'[j] = parts[j]
        /\ n = Pushed(o, parts[j])
    BY <1>1, <1>2, <1>3, <1>9 DEF SentenceChunk
  <2>2. parts[j] > 0 /\ o.pending \in {0, parts[j]}
    BY <1>1, <2>1 DEF Speech, Shows
  <2>3. parts[j] \in 1 .. Silence /\ parts[j] \in Sentence /\ parts[j] \notin {Whole, Silence}
    BY <1>2, <2>2, Numbers
  <2>4. /\ n.chunks = Append(o.chunks, parts[j]) /\ Len(n.chunks) = Len(o.chunks) + 1
        /\ Len(o.chunks) \in Nat /\ n.chunks[Len(n.chunks)] = parts[j]
        /\ \A i \in 1 .. Len(o.chunks) : n.chunks[i] = o.chunks[i]
    BY <1>2, <2>1, <2>3, PushedChunks
  <2>5. /\ n.reply = (IF o.pending # 0 THEN o.pending ELSE o.reply) /\ n.pending = 0
        /\ n.partial = o.partial /\ n.done = o.done
    BY <1>2, <2>1 DEF Pushed, JobType
  <2>6. InOrder(n.chunks)
    BY <1>2, <1>5, <2>3, <2>4, OrderExtends
  <2>7. \A i \in 1 .. Len(n.chunks) : n.chunks[i] <= parts[j]
    <3> SUFFICES ASSUME NEW i \in 1 .. Len(n.chunks) PROVE n.chunks[i] <= parts[j]
      OBVIOUS
    <3>1. i = Len(n.chunks) \/ i \in 1 .. Len(o.chunks)
      BY <2>4
    <3> QED BY <1>2, <1>5, <2>4, <3>1
  <2>8. Pushes("tts", n, parts'[j])
    BY <2>1, <2>6, <2>7 DEF Pushes, Before
  <2>9. n.reply \in Sentence => \E i \in 1 .. Len(n.chunks) : n.chunks[i] = n.reply
    <3>1. CASE o.pending # 0
      BY <2>2, <2>4, <2>5, <3>1
    <3>2. CASE o.pending = 0
      <4> SUFFICES ASSUME o.reply \in Sentence
                   PROVE \E i \in 1 .. Len(n.chunks) : n.chunks[i] = o.reply
        BY <2>5, <3>2
      <4>1. PICK i \in 1 .. Len(o.chunks) : o.chunks[i] = o.reply
        BY <1>6
      <4>2. i \in 1 .. Len(n.chunks) /\ n.chunks[i] = o.reply
        BY <2>4, <4>1
      <4> QED BY <4>2
    <3> QED BY <3>1, <3>2
  <2>10. n.partial => n.reply # Whole
    BY <1>6, <2>2, <2>3, <2>5
  <2>11. Shows("tts", n, parts'[j])
    BY <1>5, <2>1, <2>2, <2>5, <2>9, <2>10 DEF Shows, Before, Over, Place
  <2>12. Asks("tts", n, brains'[j])
    BY <1>7 DEF Asks, Before
  <2> QED BY <1>3, <2>1, <2>8, <2>11, <2>12 DEF Speech
<1>10. CASE SentenceDone(j)
  <2>1. /\ pc[j] = "tts" /\ pc'[j] = "stream" /\ parts'[j] = parts[j] /\ n = o
        /\ \E i \in 1 .. Len(o.chunks) : o.chunks[i] = parts[j]
    BY <1>1, <1>2, <1>3, <1>10 DEF SentenceDone, Voiced
  <2>2. o.pending = 0
    BY <1>1, <2>1 DEF Speech, Shows
  <2>3. Pushes("stream", n, parts'[j])
    BY <1>5, <2>1 DEF Pushes, Before
  <2>4. Shows("stream", n, parts'[j])
    BY <1>5, <1>6, <2>1, <2>2 DEF Shows, Before, Over, Place
  <2>5. Asks("stream", n, brains'[j])
    BY <1>7 DEF Asks, Before
  <2> QED BY <1>3, <2>1, <2>3, <2>4, <2>5 DEF Speech
<1> QED BY <1>8, <1>9, <1>10

\* The turn is tried again as a whole, in silence.
LEMMA FailSpeech == ASSUME Typed, NEW j \in Job, Speech(j), StreamEnds(j) \/ StreamFails(j)
                    PROVE  Speech(j)'
<1>1. CASE Finish(j, job[j], FALSE, "end") /\ brains'[j] = brains[j]
  BY <1>1, FinishSpeech
<1>2. CASE Retry(j) /\ job[j].chunks = <<>> /\ pc[j] \in {"stream", "tts"}
  <2>1. PICK o : o = job[j]
    OBVIOUS
  <2>2. o \in JobType /\ job \in [Job -> JobType] /\ pc \in [Job -> Place]
        /\ brains \in [Job -> Nat]
    BY <2>1 DEF Typed
  <2>3. PICK n : n = job'[j]
    OBVIOUS
  <2>4. n = PartialReply(o, FALSE) /\ pc'[j] = "brain"
    BY <1>2, <2>1, <2>2, <2>3 DEF Retry
  <2>5. /\ n.chunks = <<>> /\ n.pending = 0 /\ n.partial = FALSE /\ n.reply = o.reply
        /\ n.done = o.done
    BY <1>2, <2>1, <2>2, <2>4 DEF PartialReply, JobType
  <2>6. ~o.done /\ (o.reply \in Sentence => \E i \in 1 .. Len(o.chunks) : o.chunks[i] = o.reply)
    BY <1>2, <2>1 DEF Speech, Shows, Over
  <2>7. Pushes("brain", n, parts'[j])
    BY <2>5 DEF Pushes, InOrder
  <2>8. Shows("brain", n, parts'[j])
    BY <1>2, <2>1, <2>5, <2>6 DEF Shows, Before, Over
  <2>9. Asks("brain", n, brains'[j])
    BY <2>5 DEF Asks, Before
  <2> QED BY <2>3, <2>4, <2>7, <2>8, <2>9 DEF Speech
<1> QED BY <1>1, <1>2 DEF StreamEnds, StreamFails, FallBack

LEMMA WholeSpeech == ASSUME Typed, NEW j \in Job, Speech(j),
                            \/ Replied(j, "speak") \/ Replied(j, "speak_line")
                            \/ WholeChunk(j) \/ WholeDone(j) \/ WholeFails(j)
                            \/ PipelineFails(j)
                     PROVE  Speech(j)'
<1>1. PICK o : o = job[j]
  OBVIOUS
<1>2. /\ o \in JobType /\ o.chunks \in Seq(1 .. Silence)
      /\ job \in [Job -> JobType] /\ pc \in [Job -> Place]
  BY <1>1 DEF Typed, JobType
<1>3. PICK n : n = job'[j]
  OBVIOUS
<1>4. brains'[j] = brains[j] /\ parts'[j] = parts[j]
  BY DEF Replied, WholeChunk, WholeDone, WholeFails, PipelineFails
<1>5. CASE \E error \in BOOLEAN : Finish(j, job[j], error, "end")
  BY <1>4, <1>5, FinishSpeech
<1>6. CASE Replied(j, "speak") \/ Replied(j, "speak_line")
  <2>1. PICK at \in {"speak", "speak_line"} : at = pc'[j]
    BY <1>2, <1>6 DEF Replied
  <2>2. pc[j] = "brain" /\ n = Updated(o, Whole)
    BY <1>1, <1>2, <1>3, <1>6 DEF Replied
  <2>3. /\ n.chunks = o.chunks /\ n.reply = Whole /\ n.pending = 0
        /\ n.partial = o.partial /\ n.done = o.done
    BY <1>2, <2>2 DEF Updated, JobType
  <2>4. o.chunks = <<>> /\ ~o.partial /\ ~o.done
    BY <1>1, <2>2 DEF Speech, Pushes, Shows, Over
  <2>5. Pushes(at, n, parts'[j])
    BY <2>3, <2>4 DEF Pushes, InOrder
  <2>6. Shows(at, n, parts'[j])
    BY <2>3, <2>4, Numbers DEF Shows, Before, Over
  <2>7. Asks(at, n, brains'[j])
    BY <2>3, <2>4 DEF Asks, Before
  <2> QED BY <1>3, <2>1, <2>5, <2>6, <2>7 DEF Speech
<1>7. CASE \E s \in {Whole, Silence} :
              /\ \/ /\ pc[j] \in {"speak", "speak_line"} /\ pc'[j] = pc[j] /\ s = Whole
                 \/ /\ pc[j] \in {"speak", "speak_line"} /\ pc'[j] = "closing"
                    /\ o.chunks = <<>>
              /\ n = Pushed(o, s) \/ n = [Pushed(o, s) EXCEPT !.degraded = TRUE]
  <2>1. PICK s \in {Whole, Silence} :
           /\ \/ pc'[j] = pc[j] /\ s = Whole
              \/ pc'[j] = "closing" /\ o.chunks = <<>>
           /\ pc[j] \in {"speak", "speak_line"}
           /\ n = Pushed(o, s) \/ n = [Pushed(o, s) EXCEPT !.degraded = TRUE]
    BY <1>7
  <2>2. /\ \A i \in 1 .. Len(o.chunks) : o.chunks[i] = Whole
        /\ ~o.partial /\ o.pending = 0 /\ ~o.done /\ InOrder(o.chunks)
        /\ o.reply \in Sentence => \E i \in 1 .. Len(o.chunks) : o.chunks[i] = o.reply
    BY <1>1, <2>1 DEF Speech, Pushes, Shows, Before, Over, Place
  <2>3. s \in 1 .. Silence /\ s \notin Sentence
    BY Numbers
  <2>4. Pushed(o, s) \in JobType
    BY <1>2, <2>3, PushedType
  <2>5. /\ n.chunks = Pushed(o, s).chunks /\ n.reply = Pushed(o, s).reply
        /\ n.pending = Pushed(o, s).pending /\ n.partial = Pushed(o, s).partial
        /\ n.done = Pushed(o, s).done
    BY <2>1, <2>4 DEF JobType
  <2>6. /\ n.reply = o.reply /\ n.pending = 0 /\ n.partial = FALSE /\ n.done = FALSE
    BY <1>2, <2>2, <2>5 DEF Pushed, JobType
  <2>7. /\ n.chunks = Append(o.chunks, s) /\ Len(n.chunks) = Len(o.chunks) + 1
        /\ Len(o.chunks) \in Nat /\ n.chunks[Len(n.chunks)] = s
        /\ \A i \in 1 .. Len(o.chunks) : n.chunks[i] = o.chunks[i]
    BY <1>2, <2>3, <2>5, PushedChunks
  <2>8. Len(o.chunks) = 0 \/ s = Whole
    BY <2>1
  <2>9. InOrder(n.chunks)
    <3>1. \A i \in 1 .. Len(o.chunks) : o.chunks[i] <= s /\ o.chunks[i] = s
      BY <2>2, <2>7, <2>8, Numbers
    <3> QED BY <1>2, <2>2, <2>3, <2>7, <3>1, OrderExtends
  <2>10. \A i \in 1 .. Len(n.chunks) : i = Len(n.chunks) \/ i \in 1 .. Len(o.chunks)
    BY <2>7
  <2>11. o.reply \notin Sentence
    BY <2>2, Numbers
  <2>12. PICK at \in {"speak", "speak_line", "closing"} : at = pc'[j]
    BY <2>1
  <2>13. at \in {"speak", "speak_line"} => \A i \in 1 .. Len(n.chunks) : n.chunks[i] = Whole
    BY <2>1, <2>2, <2>7, <2>10, <2>12
  <2>14. at = "closing" => Len(n.chunks) = 1 /\ n.chunks[1] \in {Whole, Silence}
    BY <2>1, <2>7, <2>12
  <2>15. \A i \in 1 .. Len(n.chunks) : n.chunks[i] \notin Sentence
    BY <2>2, <2>3, <2>7, <2>10, Numbers
  <2>16. Pushes(at, n, parts'[j])
    BY <2>9, <2>13, <2>14 DEF Pushes, Before
  <2>17. Shows(at, n, parts'[j])
    BY <2>6, <2>11 DEF Shows, Before, Over
  <2>18. Asks(at, n, brains'[j])
    BY <2>15 DEF Asks, Before
  <2> QED BY <1>3, <2>12, <2>16, <2>17, <2>18 DEF Speech
<1>8. CASE WholeChunk(j)
  BY <1>1, <1>2, <1>3, <1>7, <1>8 DEF WholeChunk
<1>9. CASE WholeFails(j)
  <2>1. CASE Finish(j, job[j], FALSE, "end")
    BY <1>5, <2>1
  <2>2. CASE LastResort(j)
    BY <1>1, <1>2, <1>3, <1>7, <1>9, <2>2 DEF WholeFails, LastResort, Degraded
  <2> QED BY <1>9, <2>1, <2>2 DEF WholeFails
<1>10. CASE WholeDone(j) \/ PipelineFails(j)
  BY <1>5, <1>10 DEF WholeDone, PipelineFails
<1> QED BY <1>6, <1>8, <1>9, <1>10

LEMMA EndSpeech == ASSUME Typed, NEW j \in Job, Speech(j), Ends(j),
                          \/ RunCleanup(j) \/ PersistUser(j) \/ PersistReply(j)
                          \/ PersistFails(j) \/ Forget(j)
                   PROVE  Speech(j)'
<1>1. job'[j] = job[j] /\ parts'[j] = parts[j] /\ brains'[j] = brains[j]
  BY DEF RunCleanup, PersistUser, PersistReply, PersistFails, Forget
<1>2. pc[j] \in Over
  BY DEF RunCleanup, PersistUser, PersistReply, PersistFails, Forget, Over
<1>3. pc'[j] \in Over
  BY DEF RunCleanup, PersistUser, PersistReply, PersistFails, Forget, Ends, Over, Typed
<1>4. pc'[j] # pc[j]
  BY DEF RunCleanup, PersistUser, PersistReply, PersistFails, Forget, Ends, Typed
<1> QED BY <1>1, <1>2, <1>3, <1>4, MoveSpeech

LEMMA SpeechKept ==
    ASSUME NEW j \in Job, Speech(j), pc'[j] = pc[j], job'[j] = job[j],
           parts'[j] = parts[j], brains'[j] = brains[j]
    PROVE  Speech(j)'
BY DEF Speech

-----------------------------------------------------------------------------
(* Attachments and what is left to do for a job that is over.                *)

LEMMA FinishEnds ==
    ASSUME Typed, NEW j \in Job, Attached(j), pc[j] \notin {"none"} \cup Over,
           NEW error \in BOOLEAN, NEW then \in {"end", "forget"},
           Finish(j, job[j], error, then), files'[j] = files[j], stuck'[j] = stuck[j]
    PROVE  Attached(j)' /\ Ends(j)'
<1>1. PICK o : o = job[j]
  OBVIOUS
<1>2. o \in JobType /\ job \in [Job -> JobType] /\ pc \in [Job -> Place]
      /\ ending \in [Job -> EndingType]
  BY <1>1 DEF Typed
<1>3. job'[j] = [o EXCEPT !.done = TRUE, !.error = error, !.cleanup = {}]
  BY <1>1, <1>2 DEF Finish
<1>4. job'[j].reply = o.reply
  BY <1>2, <1>3 DEF JobType
<1>5. pc'[j] = "cleanup" /\ ending'[j] = [then |-> then, reply |-> o.reply, todo |-> o.cleanup]
  BY <1>1, <1>2 DEF Finish
<1>6. files'[j] \subseteq ending'[j].todo \cup stuck'[j]
  BY <1>1, <1>5 DEF Attached
<1>7. Attached(j)'
  BY <1>5, <1>6 DEF Attached, Over
<1>8. Ends(j)'
  BY <1>4, <1>5 DEF Ends
<1> QED BY <1>7, <1>8

LEMMA MoveEnds ==
    ASSUME Typed, NEW j \in Job, Attached(j), files'[j] = files[j], stuck'[j] = stuck[j],
           job'[j].plan = job[j].plan, job'[j].cleanup = job[j].cleanup,
           job'[j].kind = job[j].kind,
           \/ /\ pc[j] \in {"begin", "stream", "tts", "brain"}
              /\ pc'[j] \in {"stream", "tts", "brain", "speak", "speak_line"}
           \/ /\ pc[j] \in {"speak", "speak_line"}
              /\ pc'[j] \in {"speak", "speak_line", "closing"}
           \/ pc[j] = "accepted" /\ pc'[j] \in {"begin", "abandoned"}
           \/ pc[j] = "accepted" /\ pc'[j] = "compose" /\ job[j].kind = "share"
    PROVE  Attached(j)' /\ Ends(j)'
BY DEF Attached, Ends, Over

LEMMA HandlerEnds == ASSUME Typed, NEW j \in Job, Attached(j), Handler(j)
                     PROVE  Attached(j)' /\ Ends(j)'
<1>1. ASSUME NEW kind \in Kinds, NEW said \in BOOLEAN, NEW plan \in Plans,
             Accept(j, kind, said, plan)
      PROVE  Attached(j)' /\ Ends(j)'
  <2>2. PICK o : o = job'[j]
    OBVIOUS
  <2>3. PICK todo : todo = (IF kind = "share" THEN {} ELSE plan)
    OBVIOUS
  <2>4. PICK have \in Brought(kind, plan) :
        /\ files' = [files EXCEPT ![j] = have]
        /\ stuck' = [stuck EXCEPT ![j] = have \ Known(plan)]
        /\ job' = [job EXCEPT ![j] = [NewJob EXCEPT !.kind = kind, !.said = said,
                                         !.cleanup = have \cap Known(plan), !.plan = todo]]
    BY <1>1, <2>3 DEF Accept
  <2>5. o.kind = kind /\ o.cleanup = have \cap Known(plan) /\ o.plan = todo
    BY <2>2, <2>4 DEF Typed, NewJob
  <2>6. files'[j] = have /\ stuck'[j] = have \ Known(plan) /\ pc'[j] = "accepted"
    BY <1>1, <2>4 DEF Accept, Typed
  <2>7. kind = "share" => have = plan /\ have \subseteq {"claimed"} /\ todo = {}
                          /\ have = have \cap Known(plan)
    BY <1>1, <2>3, <2>4 DEF Accept, Plans, Brought, Known
  <2>8. todo \subseteq have
    BY <2>3, <2>4 DEF Brought, Composed, Known
  <2>9. Attached(j)'
    BY <2>2, <2>5, <2>6, <2>7, <2>8 DEF Attached, Over
  <2> QED BY <2>6, <2>9 DEF Ends
<1>2. CASE StartWorker(j)
  <2>1. pc[j] = "accepted" /\ pc'[j] = (IF job[j].kind = "share" THEN "compose" ELSE "begin")
        /\ UNCHANGED <<job, files, stuck>>
    BY <1>2 DEF StartWorker, Typed
  <2> QED BY <2>1, MoveEnds
<1>3. CASE StartFails(j)
  <2>1. CASE Finish(j, job[j], TRUE, "forget")
    BY <1>3, <2>1, FinishEnds DEF StartFails, Over
  <2>2. CASE pc' = [pc EXCEPT ![j] = "abandoned"] /\ UNCHANGED <<job, ending>>
    <3>1. pc[j] = "accepted" /\ pc'[j] = "abandoned" /\ UNCHANGED <<job, files, stuck>>
      BY <1>3, <2>2 DEF StartFails, Typed
    <3> QED BY <3>1, MoveEnds
  <2> QED BY <1>3, <2>1, <2>2 DEF StartFails
<1> QED BY <1>1, <1>2, <1>3 DEF Handler

LEMMA ComposeEnds == ASSUME Typed, NEW j \in Job, Attached(j), Compose(j)
                     PROVE  Attached(j)' /\ Ends(j)'
<1>1. CASE Finish(j, job[j], TRUE, "end") /\ UNCHANGED <<files, stuck>>
  BY <1>1, FinishEnds DEF Compose, Over
<1>2. ASSUME NEW plan \in IF files[j] = {} THEN {{}} ELSE Plans,
             NEW left \in IF files[j] = {} THEN {{}} ELSE Composed(plan),
             files' = [files EXCEPT ![j] = left],
             stuck' = [stuck EXCEPT ![j] = left \ Known(plan)],
             job' = [job EXCEPT ![j].plan = plan, ![j].cleanup = ToRemove(j, plan)],
             pc' = [pc EXCEPT ![j] = "begin"]
      PROVE  Attached(j)' /\ Ends(j)'
  <2>1. PICK o : o = job[j]
    OBVIOUS
  <2>2. o \in JobType /\ job \in [Job -> JobType] /\ pc \in [Job -> Place]
        /\ files \in [Job -> SUBSET {"claimed", "copy"}]
        /\ stuck \in [Job -> SUBSET {"claimed", "copy"}]
    BY <2>1 DEF Typed
  <2>3. PICK n : n = job'[j]
    OBVIOUS
  <2>4. n = [o EXCEPT !.plan = plan, !.cleanup = o.cleanup \cup plan]
    BY <1>2, <2>1, <2>2, <2>3 DEF ToRemove
  <2>5. n.plan = plan /\ n.cleanup = o.cleanup \cup plan
    BY <2>2, <2>4 DEF JobType
  <2>6. files'[j] = left /\ stuck'[j] = left \ Known(plan) /\ pc'[j] = "begin"
    BY <1>2, <2>2
  <2>7. files[j] = o.cleanup /\ files[j] \subseteq {"claimed"}
    BY <2>1 DEF Attached, Compose
  <2>8. left \subseteq (o.cleanup \cup plan) \cup (left \ Known(plan)) /\ plan \subseteq left
    <3>1. CASE files[j] = {}
      BY <1>2, <3>1
    <3>2. CASE files[j] # {}
      <4>1. "claimed" \in o.cleanup
        BY <2>7, <3>2
      <4>2. plan \subseteq left
        BY <1>2, <3>2 DEF Composed, Known
      <4> QED BY <4>1, <4>2 DEF Known
    <3> QED BY <3>1, <3>2
  <2>9. Attached(j)'
    BY <2>3, <2>5, <2>6, <2>8 DEF Attached, Over
  <2> QED BY <2>6, <2>9 DEF Ends
<1> QED BY <1>1, <1>2 DEF Compose

LEMMA WorkEnds == ASSUME Typed, NEW j \in Job, Attached(j),
                         \/ Begin(j) \/ NextSentence(j) \/ SentenceChunk(j) \/ SentenceDone(j)
                         \/ StreamEnds(j) \/ StreamFails(j)
                         \/ Replied(j, "speak") \/ Replied(j, "speak_line")
                         \/ WholeChunk(j) \/ WholeDone(j) \/ WholeFails(j) \/ PipelineFails(j)
                  PROVE  Attached(j)' /\ Ends(j)'
<1>1. PICK o : o = job[j]
  OBVIOUS
<1>2. o \in JobType /\ job \in [Job -> JobType] /\ pc \in [Job -> Place]
  BY <1>1 DEF Typed
<1>3. PICK n : n = job'[j]
  OBVIOUS
<1>4. files'[j] = files[j] /\ stuck'[j] = stuck[j]
  BY DEF Begin, NextSentence, SentenceChunk, SentenceDone, StreamEnds, StreamFails,
         Replied, WholeChunk, WholeDone, WholeFails, PipelineFails
<1>5. CASE \E error \in BOOLEAN : Finish(j, job[j], error, "end")
  <2>1. pc[j] \notin {"none"} \cup Over
    BY DEF Begin, NextSentence, SentenceChunk, SentenceDone, StreamEnds, StreamFails,
           Replied, WholeChunk, WholeDone, WholeFails, PipelineFails, Over
  <2> QED BY <1>4, <1>5, <2>1, FinishEnds
<1>6. ASSUME \/ n = o \/ n = PartialReply(o, TRUE) \/ n = PartialReply(o, FALSE)
             \/ n = Staged(o, parts[j] + 1) \/ n = Updated(o, Whole) \/ n = Degraded(o)
             \/ \E s \in 1 .. Silence : n = Pushed(o, s)
             \/ n = Pushed(o, parts[j])
      PROVE  n.plan = o.plan /\ n.cleanup = o.cleanup /\ n.kind = o.kind
  BY <1>2, <1>6 DEF PartialReply, Staged, Updated, Degraded, Pushed, JobType
<1>7. CASE Begin(j) \/ NextSentence(j) \/ SentenceChunk(j) \/ SentenceDone(j)
           \/ Replied(j, "speak") \/ Replied(j, "speak_line")
  <2>1. /\ pc[j] \in {"begin", "stream", "tts", "brain"}
        /\ pc'[j] \in {"stream", "tts", "brain", "speak", "speak_line"}
    BY <1>2, <1>7 DEF Begin, NextSentence, SentenceChunk, SentenceDone, Replied
  <2>2. \/ n = o \/ n = PartialReply(o, TRUE) \/ n = Staged(o, parts[j] + 1)
        \/ n = Updated(o, Whole) \/ n = Pushed(o, parts[j])
    BY <1>1, <1>2, <1>3, <1>7 DEF Begin, NextSentence, SentenceChunk, SentenceDone, Replied
  <2>3. n.plan = o.plan /\ n.cleanup = o.cleanup /\ n.kind = o.kind
    BY <1>6, <2>2
  <2> QED BY <1>1, <1>3, <1>4, <2>1, <2>3, MoveEnds
<1>8. CASE Retry(j) /\ pc[j] \in {"stream", "tts"}
  <2>1. n = PartialReply(o, FALSE) /\ pc'[j] = "brain"
    BY <1>1, <1>2, <1>3, <1>8 DEF Retry
  <2>2. n.plan = o.plan /\ n.cleanup = o.cleanup /\ n.kind = o.kind
    BY <1>6, <2>1
  <2> QED BY <1>1, <1>3, <1>4, <1>8, <2>1, <2>2, MoveEnds
<1>9. CASE WholeChunk(j) \/ (LastResort(j) /\ pc[j] \in {"speak", "speak_line"})
  <2>1. pc[j] \in {"speak", "speak_line"} /\ pc'[j] \in {"speak", "speak_line", "closing"}
    BY <1>2, <1>9 DEF WholeChunk, LastResort
  <2>2. n = Degraded(o) \/ n = Pushed(o, Whole)
    BY <1>1, <1>2, <1>3, <1>9 DEF WholeChunk, LastResort
  <2>3. n.plan = o.plan /\ n.cleanup = o.cleanup /\ n.kind = o.kind
    BY <1>6, <2>2, Numbers
  <2> QED BY <1>1, <1>3, <1>4, <2>1, <2>3, MoveEnds
<1>10. CASE StreamEnds(j) \/ WholeDone(j) \/ PipelineFails(j)
  BY <1>5, <1>10 DEF StreamEnds, WholeDone, PipelineFails
<1>11. CASE StreamFails(j) \/ WholeFails(j)
  BY <1>5, <1>8, <1>9, <1>11 DEF StreamFails, FallBack, WholeFails
<1> QED BY <1>7, <1>9, <1>10, <1>11

LEMMA LastEnds == ASSUME Typed, NEW j \in Job, Attached(j), Ends(j),
                         \/ RunCleanup(j) \/ PersistUser(j) \/ PersistReply(j)
                         \/ PersistFails(j) \/ Forget(j)
                  PROVE  Attached(j)' /\ Ends(j)'
<1>1. CASE RunCleanup(j)
  <2>1. pc'[j] = "persist" /\ pc[j] = "cleanup" /\ UNCHANGED <<job, ending>>
        /\ \E kept \in SUBSET (files[j] \cap ending[j].todo) :
              /\ files'[j] = (files[j] \ ending[j].todo) \cup kept
              /\ stuck'[j] = stuck[j] \cup kept
    BY <1>1 DEF RunCleanup, Typed
  <2>2. files'[j] \subseteq stuck'[j]
    BY <2>1 DEF Attached
  <2> QED BY <2>1, <2>2 DEF Attached, Ends, Over
<1>2. CASE PersistUser(j) \/ PersistReply(j) \/ PersistFails(j) \/ Forget(j)
  <2>1. /\ pc[j] \in Over \ {"cleanup"} /\ pc'[j] \in {"persist_reply", "end", "forget"}
        /\ UNCHANGED <<job, ending, files, stuck>>
        /\ pc'[j] = "persist_reply" => pc[j] = "persist"
    BY <1>2 DEF PersistUser, PersistReply, PersistFails, Forget, Ends, Over, Typed
  <2> QED BY <2>1 DEF Attached, Ends, Over
<1> QED BY <1>1, <1>2

LEMMA EndsKept ==
    ASSUME NEW j \in Job, pc'[j] = pc[j], job'[j] = job[j], files'[j] = files[j],
           stuck'[j] = stuck[j], ending'[j] = ending[j], Attached(j), Ends(j)
    PROVE  Attached(j)' /\ Ends(j)'
BY DEF Attached, Ends

-----------------------------------------------------------------------------
(* Audio is only added to, and a job that is done stays as it is.            *)

Extended(k) ==
    /\ Len(job[k].chunks) <= Len(job'[k].chunks)
    /\ \A i \in 1 .. Len(job[k].chunks) : job'[k].chunks[i] = job[k].chunks[i]
    /\ job[k].done => /\ job'[k].chunks = job[k].chunks /\ job'[k].reply = job[k].reply
                      /\ job'[k].done
    /\ pc[k] # "none" => pc'[k] # "none"

LEMMA Lengths == ASSUME Typed, NEW k \in Job
                 PROVE  /\ Len(job[k].chunks) \in Nat
                        /\ \A i \in 1 .. Len(job[k].chunks) : job[k].chunks[i] \in 1 .. Silence
<1>1. job[k].chunks \in Seq(1 .. Silence)
  BY DEF Typed, JobType
<1> QED BY <1>1, ChunkTypes

LEMMA SameExtended == ASSUME Typed, NEW k \in Job, pc'[k] = pc[k] \/ pc'[k] # "none",
                             job'[k].chunks = job[k].chunks,
                             job[k].done => job'[k].done /\ job'[k].reply = job[k].reply
                      PROVE  Extended(k)
BY Lengths DEF Extended

LEMMA PushExtended ==
    ASSUME Typed, NEW k \in Job, pc'[k] # "none", ~job[k].done, NEW s \in 1 .. Silence,
           job'[k].chunks = Pushed(job[k], s).chunks
    PROVE  Extended(k)
<1>1. job[k] \in JobType
  BY DEF Typed
<1> QED BY <1>1, PushedChunks DEF Extended

LEMMA ExtendsItself == ASSUME Typed, NEW j \in Job, Handler(j) \/ Worker(j), Speech(j), Ends(j)
                       PROVE  Extended(j)
<1>1. PICK o : o = job[j]
  OBVIOUS
<1>2. /\ o \in JobType /\ job \in [Job -> JobType] /\ pc \in [Job -> Place]
      /\ parts \in [Job -> 0 .. MaxSentences]
  BY <1>1 DEF Typed
<1>3. PICK n : n = job'[j]
  OBVIOUS
<1>4. pc[j] \notin Over => ~o.done
  BY <1>1 DEF Speech, Shows
<1>5. CASE /\ pc[j] \notin Over /\ pc'[j] # "none"
           /\ \/ n = o \/ n = PartialReply(o, TRUE) \/ n = PartialReply(o, FALSE)
              \/ n = Staged(o, parts[j] + 1) \/ n = Updated(o, Whole)
              \/ \E plan, todo : n = [o EXCEPT !.plan = plan, !.cleanup = todo]
              \/ \E e : n = [o EXCEPT !.done = TRUE, !.error = e, !.cleanup = {}]
  <2>1. n.chunks = o.chunks
    BY <1>2, <1>5 DEF PartialReply, Staged, Updated, JobType
  <2> QED BY <1>1, <1>3, <1>4, <1>5, <2>1, SameExtended
<1>6. CASE \E error \in BOOLEAN, then \in {"end", "forget"} :
              pc[j] \notin Over /\ Finish(j, job[j], error, then)
  BY <1>1, <1>2, <1>3, <1>5, <1>6 DEF Finish
<1>7. CASE Handler(j)
  <2>1. ASSUME NEW kind \in Kinds, NEW said \in BOOLEAN, NEW plan \in Plans,
               Accept(j, kind, said, plan)
        PROVE  Extended(j)
    <3>1. pc[j] = "none" /\ pc'[j] = "accepted"
      BY <2>1 DEF Accept, Typed
    <3>2. o.chunks = <<>> /\ ~o.done
      BY <1>1, <3>1 DEF Speech, Pushes, Shows, Before, Over
    <3>3. n.chunks = <<>>
      BY <1>3, <2>1 DEF Accept, Typed, NewJob
    <3> QED BY <1>1, <1>3, <3>1, <3>2, <3>3, SameExtended
  <2>2. CASE StartWorker(j)
    BY <1>1, <1>2, <1>3, <1>5, <2>2 DEF StartWorker, Over
  <2>3. CASE StartFails(j)
    BY <1>1, <1>2, <1>3, <1>5, <1>6, <2>3 DEF StartFails, Over
  <2> QED BY <1>7, <2>1, <2>2, <2>3 DEF Handler
<1>8. CASE Compose(j)
  <2>1. CASE Finish(j, job[j], TRUE, "end")
    BY <1>6, <1>8, <2>1 DEF Compose, Over
  <2>2. CASE ~Finish(j, job[j], TRUE, "end")
    <3>1. PICK plan : /\ job' = [job EXCEPT ![j].plan = plan,
                                            ![j].cleanup = ToRemove(j, plan)]
                      /\ pc' = [pc EXCEPT ![j] = "begin"]
      BY <1>8, <2>2 DEF Compose
    <3>2. n = [o EXCEPT !.plan = plan, !.cleanup = ToRemove(j, plan)]
      BY <1>1, <1>2, <1>3, <3>1
    <3>3. pc[j] = "compose" /\ pc'[j] = "begin"
      BY <1>2, <1>8, <3>1 DEF Compose
    <3> QED BY <1>5, <3>2, <3>3 DEF Over
  <2> QED BY <2>1, <2>2
<1>9. CASE Begin(j) \/ NextSentence(j) \/ SentenceDone(j)
            \/ Replied(j, "speak") \/ Replied(j, "speak_line")
  BY <1>1, <1>2, <1>3, <1>5, <1>9 DEF Begin, NextSentence, SentenceDone, Replied, Over
<1>10. CASE SentenceChunk(j)
  <2>1. pc[j] = "tts" /\ pc'[j] = "tts" /\ n = Pushed(o, parts[j])
    BY <1>1, <1>2, <1>3, <1>10 DEF SentenceChunk
  <2>2. parts[j] \in 1 .. Silence
    BY <1>2, <2>1, Numbers DEF Speech, Shows
  <2> QED BY <1>1, <1>3, <1>4, <2>1, <2>2, PushExtended DEF Over
<1>11. CASE StreamEnds(j) \/ StreamFails(j)
  <2>1. CASE Finish(j, job[j], FALSE, "end")
    BY <1>6, <1>11, <2>1 DEF StreamEnds, StreamFails, Over
  <2>2. CASE Retry(j)
    <3>1. pc[j] \in {"stream", "tts"}
      BY <1>11 DEF StreamEnds, StreamFails
    <3> QED BY <1>1, <1>2, <1>3, <1>5, <2>2, <3>1 DEF Retry, Over
  <2> QED BY <1>11, <2>1, <2>2 DEF StreamEnds, StreamFails, FallBack
<1>12. CASE WholeChunk(j) \/ WholeFails(j)
  <2>1. pc[j] \in {"speak", "speak_line"}
    BY <1>12 DEF WholeChunk, WholeFails
  <2>2. CASE Finish(j, job[j], FALSE, "end")
    BY <1>6, <2>1, <2>2 DEF Over
  <2>3. CASE ~Finish(j, job[j], FALSE, "end")
    <3>1. pc'[j] # "none" /\ (n = Degraded(o) \/ n = Pushed(o, Whole))
      BY <1>1, <1>2, <1>3, <1>12, <2>1, <2>3 DEF WholeChunk, WholeFails, LastResort
    <3>2. Pushed(o, Silence) \in JobType
      BY <1>2, PushedType, Numbers
    <3>3. n.chunks = Pushed(o, Silence).chunks \/ n.chunks = Pushed(o, Whole).chunks
      BY <3>1, <3>2 DEF Degraded, JobType
    <3> QED BY <1>1, <1>3, <1>4, <2>1, <3>1, <3>3, Numbers, PushExtended DEF Over
  <2> QED BY <2>2, <2>3
<1>13. CASE WholeDone(j) \/ PipelineFails(j)
  BY <1>6, <1>13 DEF WholeDone, PipelineFails, Over
<1>14. CASE RunCleanup(j) \/ PersistUser(j) \/ PersistReply(j) \/ PersistFails(j) \/ Forget(j)
  <2>1. job'[j] = job[j]
    BY <1>14 DEF RunCleanup, PersistUser, PersistReply, PersistFails, Forget
  <2>2. pc'[j] # "none"
    BY <1>14 DEF RunCleanup, PersistUser, PersistReply, PersistFails, Forget, Ends, Typed
  <2> QED BY <2>1, <2>2, SameExtended
<1> QED BY <1>7, <1>8, <1>9, <1>10, <1>11, <1>12, <1>13, <1>14 DEF Worker

LEMMA Extends == ASSUME Typed, NEW j \in Job, Handler(j) \/ Worker(j), Speech(j), Ends(j)
                 PROVE  \A k \in Job : Extended(k)
<1>1. \A k \in Job : k # j => Extended(k)
  BY HandlersAlone, SameExtended DEF Alone
<1> QED BY <1>1, ExtendsItself

-----------------------------------------------------------------------------
(* The history.                                                              *)

LEMMA StillVoiced == ASSUME Typed, NEW k \in Job, Extended(k), NEW s, Voiced(k, s)
                     PROVE  Voiced(k, s)'
<1>1. PICK i \in 1 .. Len(job[k].chunks) : job[k].chunks[i] = s
  BY DEF Voiced
<1>2. Len(job[k].chunks) \in Nat
  BY Lengths
<1>3. Len(job'[k].chunks) \in Nat \/ Len(job'[k].chunks) \notin Nat
  OBVIOUS
<1>4. job'[k].chunks[i] = s /\ i \in 1 .. Len(job'[k].chunks)
  BY <1>1, <1>2 DEF Extended
<1> QED BY <1>4 DEF Voiced

LEMMA SaidTurn == ASSUME RemembersWhatWasSaid, NEW m \in 1 .. Len(history)
                  PROVE  /\ \A n \in 1 .. Len(history) :
                              n # m /\ history[n].job = history[m].job =>
                                  history[n].role # history[m].role
                         /\ history[m].role = "assistant" =>
                              /\ \E n \in 1 .. m - 1 : history[n].job = history[m].job
                              /\ history[m].text \in Sentence =>
                                    Voiced(history[m].job, history[m].text)
BY DEF RemembersWhatWasSaid

LEMMA TurnTypes == ASSUME Typed
                   PROVE  /\ Len(history) \in Nat
                          /\ \A m \in 1 .. Len(history) : history[m] \in TurnType
BY DEF Typed

\* Nothing is written.
LEMMA QuietHistory == ASSUME Typed, RemembersWhatWasSaid, history' = history,
                             \A k \in Job : Extended(k)
                      PROVE  RemembersWhatWasSaid'
<1>1. ASSUME NEW m \in 1 .. Len(history)
      PROVE  /\ history[m].role = "assistant" /\ history[m].text \in Sentence =>
                   Voiced(history[m].job, history[m].text)'
  <2>1. history[m].job \in Job
    BY TurnTypes DEF TurnType
  <2>2. PICK k \in Job : k = history[m].job
    BY <2>1
  <2>3. PICK s : s = history[m].text
    OBVIOUS
  <2>4. history[m].role = "assistant" /\ s \in Sentence => Voiced(k, s)
    BY SaidTurn, <2>2, <2>3
  <2>5. Voiced(k, s) => Voiced(k, s)'
    BY StillVoiced
  <2>6. history'[m].job = k /\ history'[m].text = s
    BY <2>2, <2>3
  <2> QED BY <2>2, <2>3, <2>4, <2>5, <2>6 DEF Voiced
<1>2. ASSUME NEW m \in 1 .. Len(history)
      PROVE  /\ \A n \in 1 .. Len(history) :
                   n # m /\ history[n].job = history[m].job => history[n].role # history[m].role
             /\ history[m].role = "assistant" =>
                   \E n \in 1 .. m - 1 : history[n].job = history[m].job
  BY SaidTurn
<1> QED BY <1>1, <1>2 DEF RemembersWhatWasSaid, Voiced

\* One more turn is written, of a role the job has not been given yet.
LEMMA MoreHistory ==
    ASSUME Typed, RemembersWhatWasSaid, \A k \in Job : Extended(k),
           NEW j \in Job, NEW t \in TurnType, t.job = j, history' = Append(history, t),
           \A m \in 1 .. Len(history) : history[m].job = j => history[m].role # t.role,
           t.role = "assistant" => \E m \in 1 .. Len(history) : history[m].job = j,
           t.role = "assistant" /\ t.text \in Sentence => Voiced(j, t.text)
    PROVE  RemembersWhatWasSaid'
<1> DEFINE L == Len(history)
<1>1. history \in Seq(TurnType) /\ L \in Nat
  BY DEF Typed
<1>2. Len(history') = L + 1 /\ history'[L + 1] = t
  BY <1>1
<1>3. \A m \in 1 .. L : history'[m] = history[m]
  BY <1>1
<1>4. \A m \in 1 .. L + 1 : m \in 1 .. L \/ m = L + 1
  BY <1>1
<1>5. ASSUME NEW m \in 1 .. L + 1, NEW n \in 1 .. L + 1, n # m,
             history'[n].job = history'[m].job
      PROVE  history'[n].role # history'[m].role
  <2>1. CASE m \in 1 .. L /\ n \in 1 .. L
    BY <1>3, <1>5, <2>1, SaidTurn
  <2>2. CASE m = L + 1 /\ n \in 1 .. L
    BY <1>2, <1>3, <1>5, <2>2
  <2>3. CASE m \in 1 .. L /\ n = L + 1
    BY <1>2, <1>3, <1>5, <2>3
  <2> QED BY <1>4, <1>5, <2>1, <2>2, <2>3
<1>6. ASSUME NEW m \in 1 .. L + 1, history'[m].role = "assistant"
      PROVE  /\ \E n \in 1 .. m - 1 : history'[n].job = history'[m].job
             /\ history'[m].text \in Sentence => Voiced(history[m].job, history[m].text)'
  <2>1. CASE m \in 1 .. L
    <3>1. history[m].role = "assistant" /\ history'[m] = history[m]
      BY <1>3, <1>6, <2>1
    <3>2. PICK n \in 1 .. m - 1 : history[n].job = history[m].job
      BY <2>1, <3>1, SaidTurn
    <3>3. n \in 1 .. L
      BY <1>1, <2>1
    <3>4. history'[n].job = history'[m].job
      BY <1>3, <3>1, <3>2, <3>3
    <3>5. PICK k \in Job : k = history[m].job
      BY <2>1, TurnTypes DEF TurnType
    <3>6. PICK s : s = history[m].text
      OBVIOUS
    <3>7. s \in Sentence => Voiced(k, s)
      BY <2>1, <3>1, <3>5, <3>6, SaidTurn
    <3>8. s \in Sentence => Voiced(k, s)'
      BY <3>7, StillVoiced
    <3>9. history'[m].job = k /\ history'[m].text = s
      BY <3>1, <3>5, <3>6
    <3> QED BY <3>4, <3>8, <3>9 DEF Voiced
  <2>2. CASE m = L + 1
    <3>1. history'[m] = t /\ t.role = "assistant"
      BY <1>2, <1>6, <2>2
    <3>2. PICK n \in 1 .. L : history[n].job = j
      BY <3>1
    <3>3. n \in 1 .. m - 1 /\ history'[n].job = history'[m].job
      BY <1>1, <1>3, <2>2, <3>1, <3>2
    <3>4. PICK s : s = t.text
      OBVIOUS
    <3>5. s \in Sentence => Voiced(j, s)'
      BY <3>1, <3>4, StillVoiced
    <3> QED BY <3>1, <3>3, <3>4, <3>5 DEF Voiced
  <2> QED BY <1>4, <1>6, <2>1, <2>2
<1> QED BY <1>2, <1>5, <1>6 DEF RemembersWhatWasSaid, Voiced

LEMMA QuietRemembered ==
    ASSUME NEW k \in Job, Remembered(k), history' = history,
           \/ pc'[k] = pc[k]
           \/ /\ pc'[k] # "persist_reply"
              /\ pc[k] \in {"persist_reply", "end", "forget"} => pc'[k] \in {"end", "forget"}
    PROVE  Remembered(k)'
BY DEF Remembered, Over

\* Steps that write nothing, seen from the job that takes them.
LEMMA QuietSteps ==
    ASSUME Typed, NEW j \in Job, Ends(j), Handler(j) \/ Worker(j),
           ~PersistUser(j), ~PersistReply(j)
    PROVE  /\ history' = history
           /\ \/ pc'[j] = pc[j]
              \/ /\ pc'[j] # "persist_reply"
                 /\ pc[j] \in {"persist_reply", "end", "forget"} => pc'[j] \in {"end", "forget"}
<1>1. CASE Handler(j)
  BY <1>1 DEF Handler, Accept, StartWorker, StartFails, Finish, Typed
<1>2. CASE Compose(j) \/ Begin(j) \/ NextSentence(j) \/ SentenceChunk(j) \/ SentenceDone(j)
  BY <1>2 DEF Compose, Begin, NextSentence, SentenceChunk, SentenceDone, Finish, Typed
<1>3. CASE StreamEnds(j) \/ StreamFails(j)
  BY <1>3 DEF StreamEnds, StreamFails, FallBack, Retry, Finish, Typed
<1>4. CASE \/ Replied(j, "speak") \/ Replied(j, "speak_line") \/ PipelineFails(j)
           \/ WholeChunk(j) \/ WholeDone(j)
  BY <1>4 DEF Replied, PipelineFails, WholeChunk, WholeDone, Finish, Typed
<1>5. CASE WholeFails(j)
  BY <1>5 DEF WholeFails, LastResort, Finish, Typed
<1>6. CASE RunCleanup(j) \/ PersistFails(j) \/ Forget(j)
  BY <1>6 DEF RunCleanup, PersistFails, Forget, Ends, Typed
<1> QED BY <1>1, <1>2, <1>3, <1>4, <1>5, <1>6 DEF Worker

LEMMA HistoryStep ==
    ASSUME Typed, NEW j \in Job, Handler(j) \/ Worker(j), Speech(j), Ends(j),
           RemembersWhatWasSaid, \A k \in Job : Remembered(k)
    PROVE  RemembersWhatWasSaid' /\ \A k \in Job : Remembered(k)'
<1>1. \A k \in Job : Extended(k)
  BY Extends
<1>2. \A k \in Job : k # j => pc'[k] = pc[k]
  BY HandlersAlone DEF Alone
<1>3. CASE history' = history /\ ~PersistUser(j) /\ ~PersistReply(j)
  <2>1. \A k \in Job : Remembered(k)'
    BY <1>2, <1>3, QuietSteps, QuietRemembered
  <2> QED BY <1>1, <1>3, <2>1, QuietHistory
<1>4. ASSUME NEW t \in TurnType, t.job = j, history' = Append(history, t),
             \A m \in 1 .. Len(history) : history[m].job = j => history[m].role # t.role,
             t.role = "assistant" => \E m \in 1 .. Len(history) : history[m].job = j,
             t.role = "assistant" /\ t.text \in Sentence => Voiced(j, t.text),
             \/ t.role = "user" /\ pc[j] = "persist" /\ pc'[j] = "persist_reply"
             \/ pc'[j] \in {"end", "forget"}
      PROVE  RemembersWhatWasSaid' /\ \A k \in Job : Remembered(k)'
  <2>1. RemembersWhatWasSaid'
    BY <1>1, <1>4, MoreHistory
  <2>2. history \in Seq(TurnType) /\ Len(history) \in Nat
    BY DEF Typed
  <2>3. Len(history') = Len(history) + 1 /\ history'[Len(history) + 1] = t
    BY <1>4, <2>2
  <2>4. \A m \in 1 .. Len(history) : history'[m] = history[m]
    BY <1>4, <2>2
  <2>5. \A m \in 1 .. Len(history) + 1 : m \in 1 .. Len(history) \/ m = Len(history) + 1
    BY <2>2
  <2>6. ASSUME NEW k \in Job, k # j PROVE Remembered(k)'
    <3>1. \A m \in 1 .. Len(history') : history'[m].job = k =>
             m \in 1 .. Len(history) /\ history'[m] = history[m]
      BY <1>4, <2>3, <2>4, <2>5, <2>6
    <3>2. Remembered(k) /\ pc'[k] = pc[k]
      BY <1>2, <2>6
    <3>3. \A m \in 1 .. Len(history) : m \in 1 .. Len(history')
      BY <2>2, <2>3
    <3> QED BY <2>4, <3>1, <3>2, <3>3 DEF Remembered
  <2>7. Remembered(j)'
    <3>1. CASE pc'[j] \in {"end", "forget"}
      BY <3>1 DEF Remembered, Over
    <3>2. CASE t.role = "user" /\ pc[j] = "persist" /\ pc'[j] = "persist_reply"
      <4>1. \A m \in 1 .. Len(history) : history[m].job # j
        BY <3>2 DEF Remembered
      <4>2. \A m \in 1 .. Len(history') : history'[m].job = j => history'[m].role = "user"
        BY <2>3, <2>4, <2>5, <3>2, <4>1
      <4>3. Len(history) + 1 \in 1 .. Len(history') /\ history'[Len(history) + 1].job = j
        BY <1>4, <2>2, <2>3
      <4> QED BY <3>2, <4>2, <4>3 DEF Remembered, Over
    <3> QED BY <1>4, <3>1, <3>2
  <2> QED BY <2>1, <2>6, <2>7
<1>5. CASE PersistUser(j)
  <2>1. CASE history' = history
    <3>1. pc'[j] # "persist_reply" /\ pc[j] = "persist"
      BY <1>5, <2>1, TurnTypes DEF PersistUser, Ends, Typed
    <3>2. \A k \in Job : Remembered(k)'
      BY <1>2, <2>1, <3>1, QuietRemembered
    <3> QED BY <1>1, <2>1, <3>2, QuietHistory
  <2>2. CASE history' # history
    <3>1. PICK t : t = Turn(j, "user", 0)
      OBVIOUS
    <3>2. t \in TurnType /\ t.job = j /\ t.role = "user"
      BY <3>1, Numbers DEF Turn, TurnType
    <3>3. /\ history' = Append(history, t)
          /\ pc[j] = "persist" /\ pc'[j] = "persist_reply"
      BY <1>5, <2>2, <3>1 DEF PersistUser, Typed
    <3>4. \A m \in 1 .. Len(history) : history[m].job # j
      BY <3>3 DEF Remembered
    <3> QED BY <1>4, <3>2, <3>3, <3>4
  <2> QED BY <2>1, <2>2
<1>6. CASE PersistReply(j)
  <2>1. pc[j] = "persist_reply" /\ pc'[j] \in {"end", "forget"}
        /\ ending[j].reply = job[j].reply
    BY <1>6 DEF PersistReply, Ends, Typed
  <2>2. CASE history' = history
    <3>1. \A k \in Job : Remembered(k)'
      BY <1>2, <2>1, <2>2, QuietRemembered
    <3> QED BY <1>1, <2>2, <3>1, QuietHistory
  <2>3. CASE history' # history
    <3>1. PICK t : t = Turn(j, "assistant", ending[j].reply)
      OBVIOUS
    <3>2. ending[j].reply \in Texts
      BY DEF Typed, EndingType
    <3>3. /\ t \in TurnType /\ t.job = j /\ t.role = "assistant"
          /\ t.text = job[j].reply
      BY <2>1, <3>1, <3>2 DEF Turn, TurnType
    <3>4. history' = Append(history, t)
      BY <1>6, <2>3, <3>1 DEF PersistReply
    <3>5. /\ \E m \in 1 .. Len(history) : history[m].job = j
          /\ \A m \in 1 .. Len(history) : history[m].job = j => history[m].role = "user"
      BY <2>1 DEF Remembered
    <3>6. t.text \in Sentence => Voiced(j, t.text)
      BY <3>3 DEF Speech, Shows, Voiced
    <3> QED BY <1>4, <2>1, <3>3, <3>4, <3>5, <3>6
  <2> QED BY <2>2, <2>3
<1> QED BY <1>3, <1>5, <1>6, QuietSteps

-----------------------------------------------------------------------------
(* Readers.                                                                  *)

\* What a reader has seen stays true while jobs go on.
LEMMA LookingKept == ASSUME Typed, Typed', NEW r \in Reader, Looking(r), rd' = rd,
                            \A k \in Job : Extended(k)
                     PROVE  Looking(r)'
<1>1. PICK q : q = rd[r]
  OBVIOUS
<1>2. q \in ReadType
  BY <1>1 DEF Typed
<1>3. CASE q.job \notin Job
  BY <1>1, <1>3 DEF Looking, Seen
<1>4. CASE q.job \in Job
  <2>1. PICK k \in Job : k = q.job
    BY <1>4
  <2>2. Extended(k) /\ Len(job[k].chunks) \in Nat
    BY Lengths
  <2>3. /\ q.at # "off" => q.outcome = "none"
        /\ pc[k] # "none"
        /\ q.sent + q.batch <= Len(job[k].chunks)
        /\ q.done => job[k].done
        /\ (q.at = "answer" \/ q.outcome = "thinking") /\ q.text # 0 =>
              \E i \in 1 .. q.batch : job[k].chunks[i] = q.text
        /\ q.at = "answer" /\ q.done => q.batch = Len(job[k].chunks)
        /\ q.outcome = "complete" => q.sent = Len(job[k].chunks) /\ job[k].done
        /\ q.outcome = "answered" => q.batch = Len(job[k].chunks)
                                     /\ q.text = job[k].reply /\ job[k].done
    BY <1>1, <2>1 DEF Looking, Seen
  <2>4. job'[k].chunks \in Seq(1 .. Silence)
    BY DEF Typed, JobType
  <2>5. PICK n \in Nat : n = Len(job'[k].chunks)
    BY <2>4, ChunkTypes
  <2>6. q.sent \in Nat /\ q.batch \in Nat
    BY <1>2 DEF ReadType
  <2>7. q.sent + q.batch <= n
    BY <2>2, <2>3, <2>5, <2>6 DEF Extended
  <2>8. /\ q.done => job'[k].done
        /\ q.done => Len(job'[k].chunks) = Len(job[k].chunks)
        /\ pc'[k] # "none"
    BY <2>2, <2>3 DEF Extended
  <2>9. (q.at = "answer" \/ q.outcome = "thinking") /\ q.text # 0 =>
           \E i \in 1 .. q.batch : job'[k].chunks[i] = q.text
    BY <2>2, <2>3, <2>6 DEF Extended
  <2>10. /\ q.outcome = "complete" => q.sent = n /\ job'[k].done
         /\ q.outcome = "answered" => q.batch = n /\ q.text = job'[k].reply /\ job'[k].done
    BY <2>2, <2>3, <2>5 DEF Extended
  <2>11. q.at = "answer" /\ q.done => q.batch = n
    BY <2>3, <2>5, <2>8
  <2>12. rd'[r] = q /\ q.job = k
    BY <1>1, <2>1
  <2> QED BY <2>3, <2>5, <2>7, <2>8, <2>9, <2>10, <2>11, <2>12 DEF Looking, Seen
<1> QED BY <1>3, <1>4

LEMMA LookingIsSeen == \A r \in Reader : Looking(r) <=> Seen(rd[r])
BY DEF Looking

LEMMA ServedLooks ==
    ASSUME Typed, NEW r \in Reader, NEW q, Serve(r, q), UNCHANGED work, Seen(q),
           \A s \in Reader : Looking(s)
    PROVE  \A s \in Reader : Looking(s)'
<1>1. pc' = pc /\ job' = job
  BY DEF work
<1>2. rd'[r] = q /\ \A s \in Reader : s # r => rd'[s] = rd[s]
  BY DEF Serve, Typed
<1>3. Looking(r)'
  BY <1>1, <1>2 DEF Looking, Seen
<1>4. ASSUME NEW s \in Reader, s # r PROVE Looking(s)'
  <2>1. PICK p : p = rd[s]
    OBVIOUS
  <2>2. Seen(p)
    BY <2>1 DEF Looking
  <2>3. Seen(p)'
    BY <1>1, <2>2 DEF Seen
  <2> QED BY <1>2, <1>4, <2>1, <2>3 DEF Looking
<1> QED BY <1>3, <1>4

LEMMA ReaderLooks ==
    ASSUME Typed, NEW r \in Reader, \A s \in Reader : Looking(s),
           \A k \in Job : Speech(k), \A k \in jobs : pc[k] # "none",
           \/ Reading(r) \/ GiveUp(r) \/ CutOff(r)
           \/ \E j \in Job : OpenStream(r, j) \/ Poll(r, j)
    PROVE  \A s \in Reader : Looking(s)'
<1>1. PICK q \in ReadType : q = rd[r]
  BY DEF Typed
<1>2. Seen(q)
  BY <1>1, LookingIsSeen
<1>3. \A k \in Job : job[k] \in JobType /\ Len(job[k].chunks) \in Nat
  BY Lengths DEF Typed
<1>4. q.sent \in Nat /\ q.batch \in Nat /\ q.job \in Job \cup {NoJob} /\ NoJob \notin Job
  BY JobConstants DEF ReadType
<1>5. UNCHANGED work
  BY DEF Reading, Pull, WriteOut, Answer, GiveUp, CutOff, OpenStream, Poll
<1>6. CASE Pull(r)
  <2>1. PICK p : p = [q EXCEPT !.at = "write", !.done = job[q.job].done,
                               !.batch = Len(job[q.job].chunks) - q.sent]
    OBVIOUS
  <2>2. Serve(r, p)
    BY <1>1, <1>6, <2>1 DEF Pull
  <2>3. q.at = "pull" /\ q.job \in Job /\ q.outcome = "none"
    BY <1>1, <1>2, <1>6 DEF Pull, Seen
  <2>4. /\ p.at = "write" /\ p.done = job[q.job].done /\ p.job = q.job
        /\ p.batch = Len(job[q.job].chunks) - q.sent /\ p.sent = q.sent
        /\ p.outcome = "none"
    BY <2>1, <2>3 DEF ReadType
  <2>5. Seen(p)
    BY <1>2, <1>3, <1>4, <2>3, <2>4 DEF Seen
  <2> QED BY <1>5, <2>2, <2>5, ServedLooks
<1>7. CASE WriteOut(r)
  <2>1. q.at = "write" /\ q.job \in Job /\ q.outcome = "none"
    BY <1>1, <1>2, <1>7 DEF WriteOut, Seen
  <2>2. ASSUME NEW u, Serve(r, u), u.job = q.job, u.done = q.done,
               u.sent = q.sent + q.batch, u.batch = 0,
               \/ u.at = "pull" /\ u.outcome = "none"
               \/ (u.at = "off" /\ u.outcome = "complete") /\ Complete(q)
        PROVE  \A s \in Reader : Looking(s)'
    <3>1. Seen(u)
      BY <1>2, <1>3, <1>4, <2>1, <2>2 DEF Seen, Complete
    <3> QED BY <1>5, <2>2, <3>1, ServedLooks
  <2>3. PICK w : w = Written(q)
    OBVIOUS
  <2>4. w = [q EXCEPT !.sent = q.sent + q.batch, !.batch = 0]
    BY <2>3 DEF Written, ReadType
  <2>5. /\ w.job = q.job /\ w.done = q.done /\ w.sent = q.sent + q.batch
        /\ w.batch = 0 /\ w.outcome = "none"
    BY <2>1, <2>4 DEF ReadType
  <2>6. CASE Complete(q) /\ Serve(r, [w EXCEPT !.at = "off", !.outcome = "complete"])
    <3>1. PICK u : u = [w EXCEPT !.at = "off", !.outcome = "complete"]
      OBVIOUS
    <3>2. /\ u.job = w.job /\ u.done = w.done /\ u.sent = w.sent /\ u.batch = w.batch
          /\ u.at = "off" /\ u.outcome = "complete"
      BY <2>4, <3>1 DEF ReadType
    <3> QED BY <2>2, <2>5, <2>6, <3>1, <3>2
  <2>7. CASE Serve(r, [w EXCEPT !.at = "pull"])
    <3>1. PICK u : u = [w EXCEPT !.at = "pull"]
      OBVIOUS
    <3>2. /\ u.job = w.job /\ u.done = w.done /\ u.sent = w.sent /\ u.batch = w.batch
          /\ u.at = "pull" /\ u.outcome = w.outcome
      BY <2>4, <3>1 DEF ReadType
    <3> QED BY <2>2, <2>5, <2>7, <3>1, <3>2
  <2> QED BY <1>1, <1>7, <2>3, <2>6, <2>7 DEF WriteOut
<1>8. CASE Answer(r)
  <2>1. q.at = "answer" /\ q.job \in Job /\ q.outcome = "none"
    BY <1>1, <1>2, <1>8 DEF Answer, Seen
  <2>2. ASSUME NEW t, NEW outcome,
               \/ outcome = "failed"
               \/ outcome = "thinking" /\ t = (IF q.batch > 0 THEN q.text ELSE 0)
               \/ outcome = "answered" /\ t = job[q.job].reply /\ q.done,
               Serve(r, [q EXCEPT !.at = "off", !.outcome = outcome, !.text = t])
        PROVE  \A s \in Reader : Looking(s)'
    <3>1. PICK u : u = [q EXCEPT !.at = "off", !.outcome = outcome, !.text = t]
      OBVIOUS
    <3>2. /\ u.at = "off" /\ u.outcome = outcome /\ u.text = t /\ u.sent = q.sent
          /\ u.batch = q.batch /\ u.done = q.done /\ u.job = q.job
      BY <3>1 DEF ReadType
    <3>3. Seen(u)
      BY <1>2, <2>1, <2>2, <3>2 DEF Seen
    <3> QED BY <1>5, <2>2, <3>1, <3>3, ServedLooks
  <2>3. [q EXCEPT !.at = "off", !.outcome = "failed"]
          = [q EXCEPT !.at = "off", !.outcome = "failed", !.text = q.text]
    BY DEF ReadType
  <2>4. [q EXCEPT !.at = "off", !.outcome = "thinking", !.text = IF q.batch > 0 THEN @ ELSE 0]
          = [q EXCEPT !.at = "off", !.outcome = "thinking",
                      !.text = IF q.batch > 0 THEN q.text ELSE 0]
    BY DEF ReadType
  <2> QED BY <1>1, <1>8, <2>2, <2>3, <2>4 DEF Answer
<1>9. CASE GiveUp(r) \/ CutOff(r)
  <2>1. PICK outcome \in {"late", "cut"} :
           Serve(r, [q EXCEPT !.at = "off", !.outcome = outcome])
    BY <1>1, <1>9 DEF GiveUp, CutOff
  <2>2. PICK u : u = [q EXCEPT !.at = "off", !.outcome = outcome]
    OBVIOUS
  <2>3. /\ u.at = "off" /\ u.outcome = outcome /\ u.sent = q.sent
        /\ u.batch = q.batch /\ u.done = q.done /\ u.job = q.job
    BY <2>2 DEF ReadType
  <2>4. q.at \in {"pull", "write"}
    BY <1>1, <1>9 DEF GiveUp, CutOff
  <2>5. Seen(u)
    BY <1>2, <2>3, <2>4 DEF Seen
  <2> QED BY <1>5, <2>1, <2>2, <2>5, ServedLooks
<1>10. ASSUME NEW j \in Job, OpenStream(r, j)
       PROVE  \A s \in Reader : Looking(s)'
  <2>1. PICK u : u = [NoRead EXCEPT !.at = "pull", !.job = j]
    OBVIOUS
  <2>2. /\ u.at = "pull" /\ u.outcome = "none" /\ u.sent = 0 /\ u.batch = 0
        /\ ~u.done /\ u.job = j
    BY <2>1 DEF NoRead
  <2>3. pc[j] # "none"
    BY <1>10 DEF OpenStream
  <2>4. Seen(u)
    BY <1>3, <2>2, <2>3 DEF Seen
  <2> QED BY <1>5, <1>10, <2>1, <2>4, ServedLooks DEF OpenStream
<1>11. ASSUME NEW j \in Job, Poll(r, j)
       PROVE  \A s \in Reader : Looking(s)'
  <2>1. PICK t : t = (IF job[j].partial THEN job[j].reply ELSE 0)
    OBVIOUS
  <2>2. PICK u : u = [NoRead EXCEPT !.at = "answer", !.job = j, !.done = job[j].done,
                                    !.error = job[j].error,
                                    !.batch = Len(job[j].chunks), !.text = t]
    OBVIOUS
  <2>3. Serve(r, u)
    BY <1>11, <2>1, <2>2 DEF Poll
  <2>4. /\ u.at = "answer" /\ u.outcome = "none" /\ u.sent = 0
        /\ u.batch = Len(job[j].chunks) /\ u.done = job[j].done /\ u.job = j /\ u.text = t
    BY <2>2 DEF NoRead
  <2>5. t # 0 => \E i \in 1 .. Len(job[j].chunks) : job[j].chunks[i] = t
    <3> SUFFICES ASSUME t # 0 PROVE \E i \in 1 .. Len(job[j].chunks) : job[j].chunks[i] = t
      OBVIOUS
    <3>1. job[j].partial /\ t = job[j].reply
      BY <2>1
    <3>2. t # Whole /\ t \in Texts
      BY <1>3, <3>1 DEF Speech, Shows, JobType
    <3>3. t \in Sentence
      BY <3>2, Numbers DEF Texts
    <3> QED BY <3>1, <3>3 DEF Speech, Shows
  <2>6. pc[j] # "none"
    BY <1>11 DEF Poll
  <2>7. Seen(u)
    BY <1>3, <2>4, <2>5, <2>6 DEF Seen
  <2> QED BY <1>5, <2>3, <2>7, ServedLooks
<1> QED BY <1>6, <1>7, <1>8, <1>9, <1>10, <1>11 DEF Reading

-----------------------------------------------------------------------------
(* The invariant, and what follows from it.                                  *)

LEMMA InitInv == Init => IInv
<1> SUFFICES ASSUME Init PROVE IInv
  OBVIOUS
<1>1. Typed
  BY InitTyped
<1>2. ASSUME NEW j \in Job PROVE Speech(j) /\ Attached(j) /\ Ends(j) /\ Remembered(j)
  <2>1. pc[j] = "none" /\ job[j] = NewJob /\ brains[j] = 0 /\ history = <<>>
    BY DEF Init
  <2>2. /\ NewJob.chunks = <<>> /\ NewJob.reply = 0 /\ NewJob.pending = 0
        /\ NewJob.partial = FALSE /\ NewJob.done = FALSE
    BY DEF NewJob
  <2>3. Speech(j)
    BY <2>1, <2>2, Numbers DEF Speech, Pushes, Shows, Asks, InOrder, Before, Over, Place
  <2>4. Attached(j) /\ Ends(j)
    BY <2>1 DEF Attached, Ends, Over
  <2>5. Remembered(j)
    BY <2>1 DEF Remembered
  <2> QED BY <2>3, <2>4, <2>5
<1>3. jobs = {} /\ RemembersWhatWasSaid
  BY DEF Init, RemembersWhatWasSaid
<1>4. \A r \in Reader : Looking(r)
  <2>1. NoRead.at = "off" /\ NoRead.outcome = "none" /\ NoRead.job = NoJob
    BY DEF NoRead
  <2> QED BY <2>1, JobConstants DEF Init, Looking, Seen
<1> QED BY <1>1, <1>2, <1>3, <1>4 DEF IInv

LEMMA JobStep == ASSUME IInv, NEW j \in Job, Handler(j) \/ Worker(j)
                 PROVE  IInv'
<1>1. Typed /\ Speech(j) /\ Attached(j) /\ Ends(j)
  BY DEF IInv
<1>2. Typed' /\ Speech(j)' /\ Attached(j)' /\ Ends(j)'
  <2>1. CASE Handler(j)
    BY <1>1, <2>1, HandlerTypes, HandlerSpeech, HandlerEnds
  <2>2. CASE Compose(j)
    BY <1>1, <2>2, PartsTypes, EarlySpeech, ComposeEnds DEF Speech
  <2>3. CASE Begin(j)
    BY <1>1, <2>3, PartsTypes, EarlySpeech, WorkEnds DEF Speech
  <2>4. CASE NextSentence(j) \/ SentenceChunk(j) \/ SentenceDone(j)
    BY <1>1, <2>4, PartsTypes, StreamSpeech, WorkEnds DEF Speech
  <2>5. CASE StreamEnds(j) \/ StreamFails(j)
    BY <1>1, <2>5, PartsTypes, FailSpeech, WorkEnds DEF Speech
  <2>6. CASE \/ Replied(j, "speak") \/ Replied(j, "speak_line") \/ PipelineFails(j)
             \/ WholeChunk(j) \/ WholeDone(j) \/ WholeFails(j)
    BY <1>1, <2>6, WholeTypes, WholeSpeech, WorkEnds
  <2>7. CASE RunCleanup(j) \/ PersistUser(j) \/ PersistReply(j) \/ PersistFails(j) \/ Forget(j)
    BY <1>1, <2>7, EndTypes, EndSpeech, LastEnds
  <2> QED BY <2>1, <2>2, <2>3, <2>4, <2>5, <2>6, <2>7 DEF Worker
<1>3. \A k \in Job : Speech(k)' /\ Attached(k)' /\ Ends(k)'
  <2> SUFFICES ASSUME NEW k \in Job, k # j PROVE Speech(k)' /\ Attached(k)' /\ Ends(k)'
    BY <1>2
  <2>1. Speech(k) /\ Attached(k) /\ Ends(k)
    BY DEF IInv
  <2>2. /\ pc'[k] = pc[k] /\ job'[k] = job[k] /\ parts'[k] = parts[k]
        /\ brains'[k] = brains[k] /\ files'[k] = files[k] /\ ending'[k] = ending[k]
        /\ stuck'[k] = stuck[k]
    BY <1>1, HandlersAlone DEF Alone
  <2> QED BY <2>1, <2>2, SpeechKept, EndsKept
<1>4. RemembersWhatWasSaid' /\ \A k \in Job : Remembered(k)'
  BY <1>1, HistoryStep DEF IInv
<1>5. \A k \in Job : Extended(k)
  BY <1>1, Extends
<1>6. rd' = rd
  BY DEF Handler, Worker, Accept, StartWorker, StartFails, Compose, Begin, NextSentence,
         SentenceChunk, SentenceDone, StreamEnds, StreamFails, Replied, PipelineFails,
         WholeChunk, WholeDone, WholeFails, RunCleanup, PersistUser, PersistReply,
         PersistFails, Forget
<1>7. \A r \in Reader : Looking(r)'
  BY <1>1, <1>2, <1>5, <1>6, LookingKept DEF IInv
<1>8. \A k \in jobs' : pc'[k] # "none"
  <2>1. jobs' \subseteq jobs \/ (jobs' = jobs \cup {j} /\ pc'[j] # "none")
    <3>1. CASE Handler(j)
      BY <1>1, <3>1 DEF Handler, Accept, StartWorker, StartFails, Typed
    <3>2. CASE Worker(j)
      BY <3>2 DEF Worker, Compose, Begin, NextSentence,
         SentenceChunk, SentenceDone, StreamEnds, StreamFails, Replied, PipelineFails,
         WholeChunk, WholeDone, WholeFails, RunCleanup, PersistUser, PersistReply,
         PersistFails, Forget
    <3> QED BY <3>1, <3>2
  <2>2. \A k \in jobs : k \in Job /\ pc'[k] # "none"
    BY <1>1, <1>5 DEF IInv, Typed, Extended
  <2> QED BY <2>1, <2>2
<1> QED BY <1>2, <1>3, <1>4, <1>7, <1>8 DEF IInv

LEMMA NextInv == IInv /\ [Next]_vars => IInv'
<1> SUFFICES ASSUME IInv, [Next]_vars PROVE IInv'
  OBVIOUS
<1>1. ASSUME NEW j \in Job, Handler(j) \/ Worker(j) PROVE IInv'
  BY <1>1, JobStep
<1>2. ASSUME NEW j \in Job, Purge(j) PROVE IInv'
  BY <1>2 DEF Purge, IInv, Typed, Speech, Attached, Ends, Remembered, Looking, Seen,
              RemembersWhatWasSaid, Voiced
<1>3. ASSUME NEW r \in Reader,
             \/ Reading(r) \/ GiveUp(r) \/ CutOff(r)
             \/ \E j \in Job : OpenStream(r, j) \/ Poll(r, j)
      PROVE  IInv'
  <2>1. UNCHANGED work
    BY <1>3 DEF Reading, Pull, WriteOut, Answer, GiveUp, CutOff, OpenStream, Poll
  <2>2. Typed'
    BY <1>3, ReaderTypes DEF IInv
  <2>3. \A s \in Reader : Looking(s)'
    BY <1>3, ReaderLooks DEF IInv
  <2>4. \A j \in Job : Speech(j)' /\ Attached(j)' /\ Ends(j)' /\ Remembered(j)'
    BY <2>1 DEF work, IInv, Speech, Attached, Ends, Remembered
  <2>5. RemembersWhatWasSaid' /\ \A j \in jobs' : pc'[j] # "none"
    BY <2>1 DEF work, IInv, RemembersWhatWasSaid, Voiced
  <2> QED BY <2>2, <2>3, <2>4, <2>5 DEF IInv
<1>4. CASE UNCHANGED vars
  <2>1. UNCHANGED <<work, rd, reads>>
    BY <1>4 DEF vars, work
  <2> QED BY <2>1 DEF work, IInv, Typed, Speech, Attached, Ends, Remembered, Looking, Seen,
                      RemembersWhatWasSaid, Voiced
<1> QED BY <1>1, <1>2, <1>3, <1>4 DEF Next

\* The invariant of all steps: handlers, workers, purges and readers.
THEOREM Invariance == Spec => []IInv
BY InitInv, NextInv, PTL DEF Spec

\* Every variable has its type, and a reader never gets ahead of the audio.
THEOREM TypeCorrect == Spec => []TypeOK
<1>1. IInv => TypeOK
  <2> SUFFICES ASSUME IInv PROVE TypeOK
    OBVIOUS
  <2>1. Typed
    BY DEF IInv
  <2>2. \A r \in Reader : rd[r].job \in Job =>
           rd[r].sent + rd[r].batch <= Len(job[rd[r].job].chunks)
    BY DEF IInv, Looking, Seen
  <2>3. pc \in [Job -> {"none", "accepted", "abandoned", "compose", "begin", "stream", "tts",
                        "brain", "speak", "speak_line", "closing", "cleanup", "persist",
                        "persist_reply", "forget", "end"}]
    BY <2>1 DEF Typed, Place, Before, Over
  <2> QED BY <2>1, <2>2, <2>3 DEF Typed, TypeOK
<1> QED BY <1>1, Invariance, PTL

\* However the worker falls back, however many jobs and sentences there are, a
\* turn is spoken once and in order, the brain is asked again only in silence,
\* and the history has what was said.
THEOREM SpokenOnceAndRemembered == Spec => []SpokenAndRemembered
<1>1. IInv => SpokenAndRemembered
  <2> SUFFICES ASSUME IInv PROVE SpokenAndRemembered
    OBVIOUS
  <2>1. SpokenOnce
    BY DEF IInv, Speech, Pushes, InOrder, SpokenOnce
  <2>2. AskedAgainOnlyInSilence
    BY DEF IInv, Speech, Asks, Voiced, AskedAgainOnlyInSilence
  <2>3. RemembersWhatWasSaid
    BY DEF IInv
  <2> QED BY <2>1, <2>2, <2>3 DEF SpokenAndRemembered
<1> QED BY <1>1, Invariance, PTL

\* No reader is shown a text before its audio, and one that is told the turn is
\* over has had all of it.
THEOREM ReadAsItIsSpoken == Spec => []ReadAsSpoken
<1>1. IInv => ReadAsSpoken
  <2> SUFFICES ASSUME IInv PROVE ReadAsSpoken
    OBVIOUS
  <2>1. \A r \in Reader : Seen(rd[r])
    BY DEF IInv, Looking
  <2>2. NoTextAheadOfAudio
    BY <2>1 DEF Seen, NoTextAheadOfAudio
  <2>3. WholeReplyRead
    BY <2>1 DEF Seen, WholeReplyRead
  <2> QED BY <2>2, <2>3 DEF ReadAsSpoken
<1> QED BY <1>1, Invariance, PTL

\* A promised file is there while the brain may read it, and a job that has
\* ended, whichever way it did, leaves none but one whose last removal failed.
THEOREM FilesLiveAsLongAsNeeded == Spec => []AttachmentLifetime
<1>1. IInv => AttachmentLifetime
  BY DEF IInv, Attached, AttachmentLifetime, Over
<1> QED BY <1>1, Invariance, PTL
=============================================================================
