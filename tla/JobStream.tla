------------------------------ MODULE JobStream ------------------------------
(***************************************************************************)
(* One spoken reply, from the accepted request to its audio, its text and  *)
(* its place in the history: class Job, stream_pipeline, the handlers that *)
(* create a job (_do_talk2, _do_see) and those that read it (_do_stream,   *)
(* _do_reply), all in caty_gateway.py.                                     *)
(*                                                                         *)
(* The handler's thread, the job's worker and the reader threads share the *)
(* Job object under its condition variable; every block under it is one    *)
(* step.  Sentences of the streamed reply are 1..MaxSentences; Whole is    *)
(* the reply (or fixed line) spoken without streaming, Silence the filler  *)
(* clip pushed when nothing can be spoken.  A text is the last sentence it *)
(* holds.                                                                  *)
(***************************************************************************)
EXTENDS Integers, Sequences, FiniteSets

CONSTANTS Job, Reader, NoJob,
          MaxSentences,  \* bound: sentences of one streamed reply
          MaxChunks,     \* bound: audio chunks of one sentence
          MaxReads       \* bound: requests of one reader

ASSUME JobConstants ==
    /\ NoJob \notin Job
    /\ {MaxSentences, MaxChunks} \subseteq Nat \ {0} /\ MaxReads \in Nat

Sentence == 1 .. MaxSentences
Whole    == MaxSentences + 1
Silence  == MaxSentences + 2

VARIABLES pc,       \* per job: where its handler or worker is
          job,      \* per job: the Job object
          parts,    \* per job: sentences received from the brain's stream
          ending,   \* per job: locals of finish()
          files,    \* per job: its attachment files on disk
          stuck,    \* per job: those whose last removal failed (history)
          jobs,     \* JOBS
          brains,   \* per job: times the brain was asked
          history,  \* conversation turns, in the order they were appended
          rd,       \* per reader: the request it serves
          reads     \* per reader: requests so far

work == <<pc, job, parts, ending, files, stuck, jobs, brains, history>>
vars == <<pc, job, parts, ending, files, stuck, jobs, brains, history, rd, reads>>

NewJob == [kind |-> "none", said |-> FALSE, plan |-> {}, reply |-> 0, pending |-> 0, partial |-> FALSE,
           chunks |-> <<>>, done |-> FALSE, error |-> FALSE, degraded |-> FALSE,
           cleanup |-> {}]    \* plan: the files the brain is promised
NoEnding == [then |-> "none", reply |-> 0, todo |-> {}]
NoRead == [at |-> "off", job |-> NoJob, sent |-> 0, batch |-> 0, done |-> FALSE,
           error |-> FALSE, text |-> 0, outcome |-> "none"]

Init ==
    /\ pc = [j \in Job |-> "none"]
    /\ job = [j \in Job |-> NewJob]
    /\ parts = [j \in Job |-> 0]
    /\ ending = [j \in Job |-> NoEnding]
    /\ files = [j \in Job |-> {}]
    /\ stuck = [j \in Job |-> {}]
    /\ jobs = {}
    /\ brains = [j \in Job |-> 0]
    /\ history = <<>>
    /\ rd = [r \in Reader |-> NoRead]
    /\ reads = [r \in Reader |-> 0]

Voiced(j, s) == \E i \in 1 .. Len(job[j].chunks) : job[j].chunks[i] = s

-----------------------------------------------------------------------------
(* Methods of Job, as the object after the call.                            *)

Pushed(o, chunk) ==
    [o EXCEPT !.reply = IF o.pending # 0 THEN o.pending ELSE @,
              !.pending = 0,
              !.chunks = Append(@, chunk)]
StagedAtOnce(o, text) == [o EXCEPT !.reply = text]
Staged(o, text) == [o EXCEPT !.pending = text]
Updated(o, text) == [o EXCEPT !.reply = text, !.pending = 0]
PartialReply(o, on) ==
    [o EXCEPT !.partial = on, !.pending = IF on THEN @ ELSE 0]

\* finish(), the part under the lock; o is the object it is called on.
FinishQuietly(j, o, error, then) ==
    /\ job' = [job EXCEPT ![j] = [o EXCEPT !.done = ~error, !.cleanup = {}]]
    /\ ending' = [ending EXCEPT ![j] =
                    [then |-> then, reply |-> o.reply, todo |-> o.cleanup]]
    /\ pc' = [pc EXCEPT ![j] = "cleanup"]
Finish(j, o, error, then) ==
    /\ job' = [job EXCEPT ![j] = [o EXCEPT !.done = TRUE, !.error = error,
                                           !.cleanup = {}]]
    /\ ending' = [ending EXCEPT ![j] =
                    [then |-> then, reply |-> o.reply, todo |-> o.cleanup]]
    /\ pc' = [pc EXCEPT ![j] = "cleanup"]

\* ... then, outside it, the callbacks and the two history turns.  A file that
\* cannot be removed is logged and kept; the other callbacks and the turn go on.
RunCleanup(j) ==
    /\ pc[j] = "cleanup"
    /\ \E kept \in SUBSET (files[j] \cap ending[j].todo) :
          /\ files' = [files EXCEPT ![j] = (@ \ ending[j].todo) \cup kept]
          /\ stuck' = [stuck EXCEPT ![j] = @ \cup kept]
    /\ pc' = [pc EXCEPT ![j] = "persist"]
    /\ UNCHANGED <<job, parts, ending, jobs, brains, history, rd, reads>>

Turn(j, role, text) == [job |-> j, role |-> role, text |-> text]

\* A share sent without a word has no transcript, and leaves no turns.
PersistUser(j) ==
    /\ pc[j] = "persist"
    /\ \/ /\ job[j].said
          /\ history' = Append(history, Turn(j, "user", 0))
          /\ pc' = [pc EXCEPT ![j] = "persist_reply"]
       \/ /\ ~job[j].said
          /\ pc' = [pc EXCEPT ![j] = ending[j].then]
          /\ UNCHANGED history
    /\ UNCHANGED <<job, parts, ending, files, stuck, jobs, brains, rd, reads>>

PersistReply(j) ==
    /\ pc[j] = "persist_reply"
    /\ history' = IF ending[j].reply = 0 THEN history
                  ELSE Append(history, Turn(j, "assistant", ending[j].reply))
    /\ pc' = [pc EXCEPT ![j] = ending[j].then]
    /\ UNCHANGED <<job, parts, ending, files, stuck, jobs, brains, rd, reads>>

\* The history file could not be written: logged, and the turn is over.
PersistFails(j) ==
    /\ pc[j] \in {"persist", "persist_reply"}
    /\ pc' = [pc EXCEPT ![j] = ending[j].then]
    /\ UNCHANGED <<job, parts, ending, files, stuck, jobs, brains, history, rd, reads>>

-----------------------------------------------------------------------------
(* The handlers.  A voice turn has no attachment.  A shared file is claimed  *)
(* by the handler and composed into the turn by the worker; a screen frame is *)
(* composed before the job exists, into a staged copy beside the claimed file,*)
(* the claimed file itself, or, delivery being off, words about a file that   *)
(* is removed at once: a removal that fails leaves it, and may leave the half *)
(* of a copy that could not be staged, which nobody removes again.            *)

Kinds == {"voice", "share", "screen"}

Plans == {{"copy"}, {"claimed"}, {}}
Known(plan) == {"claimed"} \cup plan
Composed(plan) == IF plan = {} THEN SUBSET {"claimed", "copy"} ELSE {Known(plan)}
Brought(kind, plan) == IF kind = "screen" THEN Composed(plan) ELSE {plan}

Accept(j, kind, said, plan) ==
    \E have \in Brought(kind, plan) :
       /\ pc[j] = "none"
       /\ kind = "voice" => plan = {}
       /\ kind = "share" => plan # {"copy"}    \* not composed yet
       /\ kind # "share" => said
       /\ files' = [files EXCEPT ![j] = have]
       /\ stuck' = [stuck EXCEPT ![j] = have \ Known(plan)]
       /\ job' = [job EXCEPT ![j] = [NewJob EXCEPT
                        !.kind = kind, !.said = said, !.cleanup = have \cap Known(plan),
                        !.plan = IF kind = "share" THEN {} ELSE plan]]
       /\ jobs' = jobs \cup {j}
       /\ pc' = [pc EXCEPT ![j] = "accepted"]
       /\ UNCHANGED <<parts, ending, brains, history, rd, reads>>

StartWorker(j) ==
    /\ pc[j] = "accepted"
    /\ pc' = [pc EXCEPT ![j] = IF job[j].kind = "share" THEN "compose" ELSE "begin"]
    /\ UNCHANGED <<job, parts, ending, files, stuck, jobs, brains, history, rd, reads>>

\* No thread can be started: the handlers that own attachments finish the job
\* and forget it; the audio-only one answers 500 and leaves it as it is.
StartFails(j) ==
    /\ pc[j] = "accepted"
    /\ \/ /\ job[j].kind # "voice" /\ Finish(j, job[j], TRUE, "forget")
       \/ /\ job[j].kind = "voice"
          /\ pc' = [pc EXCEPT ![j] = "abandoned"] /\ UNCHANGED <<job, ending>>
    /\ UNCHANGED <<parts, files, stuck, jobs, brains, history, rd, reads>>

Forget(j) ==
    /\ pc[j] = "forget"
    /\ jobs' = jobs \ {j}
    /\ pc' = [pc EXCEPT ![j] = "end"]
    /\ UNCHANGED <<job, parts, ending, files, stuck, brains, history, rd, reads>>

\* run_share_pipeline: decide how the claimed file reaches the brain, and
\* register the removal of what was staged for it.
ToRemoveAtStart(j, plan) == job[j].cleanup
ToRemove(j, plan) == job[j].cleanup \cup plan

Compose(j) ==
    /\ pc[j] = "compose"
    /\ \/ \E plan \in IF files[j] = {} THEN {{}} ELSE Plans :
             /\ \E left \in IF files[j] = {} THEN {{}} ELSE Composed(plan) :
                   /\ files' = [files EXCEPT ![j] = left]
                   /\ stuck' = [stuck EXCEPT ![j] = left \ Known(plan)]
             /\ job' = [job EXCEPT ![j].plan = plan,
                                   ![j].cleanup = ToRemove(j, plan)]
             /\ pc' = [pc EXCEPT ![j] = "begin"]
             /\ UNCHANGED ending
       \/ Finish(j, job[j], TRUE, "end") /\ UNCHANGED <<files, stuck>>
    /\ UNCHANGED <<parts, jobs, brains, history, rd, reads>>

\* _purge_jobs, by a later request, whatever the job is doing.
Purge(j) ==
    /\ j \in jobs
    /\ jobs' = jobs \ {j}
    /\ UNCHANGED <<pc, job, parts, ending, files, stuck, brains, history, rd, reads>>

-----------------------------------------------------------------------------
(* stream_pipeline, sentence by sentence.                                   *)

AskBrain(j) == brains' = [brains EXCEPT ![j] = @ + 1]

Begin(j) ==
    /\ pc[j] = "begin"
    /\ \/ /\ pc' = [pc EXCEPT ![j] = "stream"]
          /\ job' = [job EXCEPT ![j] = PartialReply(@, TRUE)]
       \/ /\ pc' = [pc EXCEPT ![j] = "brain"]
          /\ UNCHANGED job
    /\ AskBrain(j)
    /\ UNCHANGED <<parts, ending, files, stuck, jobs, history, rd, reads>>

NextSentence(j) ==
    /\ pc[j] = "stream" /\ parts[j] < MaxSentences
    /\ parts' = [parts EXCEPT ![j] = @ + 1]
    /\ job' = [job EXCEPT ![j] = Staged(@, parts[j] + 1)]
    /\ pc' = [pc EXCEPT ![j] = "tts"]
    /\ UNCHANGED <<ending, files, stuck, jobs, brains, history, rd, reads>>

Chunks(j, s) == Cardinality({i \in 1 .. Len(job[j].chunks) : job[j].chunks[i] = s})

SentenceChunk(j) ==
    /\ pc[j] = "tts" /\ Chunks(j, parts[j]) < MaxChunks
    /\ job' = [job EXCEPT ![j] = Pushed(@, parts[j])]
    /\ UNCHANGED <<pc, parts, ending, files, stuck, jobs, brains, history, rd, reads>>

SentenceDone(j) ==
    /\ pc[j] = "tts" /\ Voiced(j, parts[j])
    /\ pc' = [pc EXCEPT ![j] = "stream"]
    /\ UNCHANGED <<job, parts, ending, files, stuck, jobs, brains, history, rd, reads>>

StreamEnds(j) ==
    /\ pc[j] = "stream" /\ parts[j] > 0
    /\ Finish(j, job[j], FALSE, "end")
    /\ UNCHANGED <<parts, files, stuck, jobs, brains, history, rd, reads>>

\* The stream's brain or TTS raised, or gave nothing: what was already audible
\* is final, otherwise the whole turn is tried again without streaming.
Retry(j) ==
    /\ job' = [job EXCEPT ![j] = PartialReply(@, FALSE)]
    /\ pc' = [pc EXCEPT ![j] = "brain"]
    /\ AskBrain(j)
    /\ UNCHANGED ending
FallBackAlways(j) == Retry(j)
FallBack(j) ==
    \/ /\ job[j].chunks # <<>>
       /\ Finish(j, job[j], FALSE, "end")
       /\ UNCHANGED brains
    \/ job[j].chunks = <<>> /\ Retry(j)

StreamFails(j) ==
    /\ pc[j] \in {"stream", "tts"}
    /\ FallBack(j)
    /\ UNCHANGED <<parts, files, stuck, jobs, history, rd, reads>>

-----------------------------------------------------------------------------
(* stream_pipeline, the whole reply at once.                                *)

\* brain() answered with a reply, or with nothing, for which a fixed line is
\* spoken, or it raised.
Replied(j, next) ==
    /\ pc[j] = "brain"
    /\ job' = [job EXCEPT ![j] = Updated(@, Whole)]
    /\ pc' = [pc EXCEPT ![j] = next]
    /\ UNCHANGED <<parts, ending, files, stuck, jobs, brains, history, rd, reads>>

WholeChunk(j) ==
    /\ pc[j] \in {"speak", "speak_line"} /\ Chunks(j, Whole) < MaxChunks
    /\ job' = [job EXCEPT ![j] = Pushed(@, Whole)]
    /\ UNCHANGED <<pc, parts, ending, files, stuck, jobs, brains, history, rd, reads>>

WholeDone(j) ==
    /\ pc[j] \in {"speak", "speak_line", "closing"}
    /\ Finish(j, job[j], FALSE, "end")
    /\ UNCHANGED <<parts, files, stuck, jobs, brains, history, rd, reads>>

\* The streaming TTS raised: keep what is audible; else the batch TTS speaks
\* the reply (not the fixed line), or silence is pushed and the job degraded.
Degraded(o) == [Pushed(o, Silence) EXCEPT !.degraded = TRUE]
LastResort(j) ==
    /\ job[j].chunks = <<>>
    /\ \/ job' = [job EXCEPT ![j] = Degraded(@)]
       \/ pc[j] = "speak" /\ job' = [job EXCEPT ![j] = Pushed(@, Whole)]
    /\ pc' = [pc EXCEPT ![j] = "closing"]
WholeFails(j) ==
    /\ pc[j] \in {"speak", "speak_line"}
    /\ \/ job[j].chunks # <<>> /\ Finish(j, job[j], FALSE, "end")
       \/ LastResort(j) /\ UNCHANGED ending
    /\ UNCHANGED <<parts, files, stuck, jobs, brains, history, rd, reads>>

\* Anything else raised: the turn is an error, whatever was pushed.
PipelineFails(j) ==
    /\ pc[j] \in {"begin", "brain", "speak", "closing"}
    /\ pc[j] = "speak" => job[j].chunks = <<>>
    /\ Finish(j, job[j], TRUE, "end")
    /\ UNCHANGED <<parts, files, stuck, jobs, brains, history, rd, reads>>

-----------------------------------------------------------------------------
(* Readers.                                                                 *)

Serve(r, q) == rd' = [rd EXCEPT ![r] = q]

\* _do_stream: look the job up, then send what is there until it is done.
OpenStream(r, j) ==
    /\ rd[r].at = "off" /\ reads[r] < MaxReads /\ j \in jobs
    /\ Serve(r, [NoRead EXCEPT !.at = "pull", !.job = j])
    /\ reads' = [reads EXCEPT ![r] = @ + 1]
    /\ UNCHANGED work

Pull(r) ==
    LET q == rd[r]
    IN /\ q.at = "pull"
       /\ Len(job[q.job].chunks) > q.sent \/ job[q.job].done
       /\ Serve(r, [q EXCEPT !.at = "write", !.done = job[q.job].done,
                             !.batch = Len(job[q.job].chunks) - q.sent])
       /\ UNCHANGED <<work, reads>>

\* Nothing new for the whole of the reader's 300 seconds.
GiveUp(r) ==
    LET q == rd[r]
    IN /\ q.at = "pull"
       /\ Len(job[q.job].chunks) <= q.sent /\ ~job[q.job].done
       /\ Serve(r, [q EXCEPT !.at = "off", !.outcome = "late"])
       /\ UNCHANGED <<work, reads>>

Complete(q) == q.done /\ Len(job[q.job].chunks) <= q.sent + q.batch
WrittenTwice(q) == [q EXCEPT !.sent = @ + q.batch]
Written(q) == [q EXCEPT !.sent = @ + q.batch, !.batch = 0]
WriteOut(r) ==
    LET q == rd[r]
    IN /\ q.at = "write"
       /\ \/ Complete(q) /\ Serve(r, [Written(q) EXCEPT !.at = "off",
                                                        !.outcome = "complete"])
          \/ ~Complete(q) /\ Serve(r, [Written(q) EXCEPT !.at = "pull"])
       /\ UNCHANGED <<work, reads>>

CutOff(r) ==
    /\ rd[r].at = "write"
    /\ Serve(r, [rd[r] EXCEPT !.at = "off", !.outcome = "cut"])
    /\ UNCHANGED <<work, reads>>

\* _do_reply: a snapshot under the lock, then the answer.
Poll(r, j) ==
    LET o == job[j]
    IN /\ rd[r].at = "off" /\ reads[r] < MaxReads /\ j \in jobs
       /\ Serve(r, [NoRead EXCEPT !.at = "answer", !.job = j, !.done = o.done,
                                  !.error = o.error, !.batch = Len(o.chunks),
                                  !.text = IF o.partial THEN o.reply ELSE 0])
       /\ reads' = [reads EXCEPT ![r] = @ + 1]
       /\ UNCHANGED work

Answer(r) ==
    LET q == rd[r]
    IN /\ q.at = "answer"
       /\ \/ /\ q.error
             /\ Serve(r, [q EXCEPT !.at = "off", !.outcome = "failed"])
          \/ /\ ~q.error /\ ~q.done
             /\ Serve(r, [q EXCEPT !.at = "off", !.outcome = "thinking",
                                   !.text = IF q.batch > 0 THEN @ ELSE 0])
          \/ /\ ~q.error /\ q.done
             /\ Serve(r, [q EXCEPT !.at = "off", !.outcome = "answered",
                                   !.text = job[q.job].reply])
       /\ UNCHANGED <<work, reads>>

-----------------------------------------------------------------------------
Worker(j) ==
    \/ Compose(j) \/ Begin(j)
    \/ NextSentence(j) \/ SentenceChunk(j) \/ SentenceDone(j)
    \/ StreamEnds(j) \/ StreamFails(j)
    \/ Replied(j, "speak") \/ Replied(j, "speak_line") \/ PipelineFails(j)
    \/ WholeChunk(j) \/ WholeDone(j) \/ WholeFails(j)
    \/ RunCleanup(j) \/ PersistUser(j) \/ PersistReply(j) \/ PersistFails(j)
    \/ Forget(j)

Handler(j) ==
    \/ \E kind \in Kinds, said \in BOOLEAN, plan \in Plans : Accept(j, kind, said, plan)
    \/ StartWorker(j) \/ StartFails(j)

Reading(r) == Pull(r) \/ WriteOut(r) \/ Answer(r)

Next ==
    \/ \E j \in Job : Handler(j) \/ Worker(j) \/ Purge(j)
    \/ \E r \in Reader :
          \/ Reading(r) \/ GiveUp(r) \/ CutOff(r)
          \/ \E j \in Job : OpenStream(r, j) \/ Poll(r, j)

Spec == Init /\ [][Next]_vars

\* Worker and handler threads run, and every external call they make (brain,
\* TTS) has a timeout; a reader's socket accepts what it is sent or breaks.
FairSpec ==
    /\ Spec
    /\ \A j \in Job : WF_vars(Worker(j)) /\ WF_vars(StartWorker(j) \/ StartFails(j))
    /\ \A r \in Reader : WF_vars(Reading(r))
-----------------------------------------------------------------------------
(* Properties.                                                              *)

Texts == 0 .. Whole
JobType == [kind : Kinds \cup {"none"}, said : BOOLEAN,
            plan : SUBSET {"claimed", "copy"}, reply : Texts, pending : Texts,
            partial : BOOLEAN, chunks : Seq(1 .. Silence), done : BOOLEAN,
            error : BOOLEAN, degraded : BOOLEAN, cleanup : SUBSET {"claimed", "copy"}]

\* Every variable has its type, and a reader never gets ahead of the audio.
TypeOK ==
    /\ pc \in [Job -> {"none", "accepted", "abandoned", "compose", "begin",
                       "stream", "tts", "brain", "speak", "speak_line",
                       "closing", "cleanup", "persist", "persist_reply", "forget", "end"}]
    /\ \A j \in Job : job[j] \in JobType
    /\ parts \in [Job -> 0 .. MaxSentences]
    /\ {files, stuck} \subseteq [Job -> SUBSET {"claimed", "copy"}] /\ jobs \subseteq Job
    /\ \A r \in Reader : rd[r].job \in Job =>
          rd[r].sent + rd[r].batch <= Len(job[rd[r].job].chunks)

\* "Double playback, a second brain() and a second entry in the conversation":
\* once a listener may have heard a sentence, the turn is never spoken again as
\* a whole, and sentences are heard in order.
SpokenOnce ==
    \A j \in Job : \A m, n \in 1 .. Len(job[j].chunks) :
        m < n => /\ job[j].chunks[m] <= job[j].chunks[n]
                 /\ job[j].chunks[n] \in {Whole, Silence} =>
                        job[j].chunks[m] = job[j].chunks[n]

\* The brain is asked a second time only for a turn in which nothing was heard.
AskedAgainOnlyInSilence ==
    \A j \in Job : brains[j] > 1 => \A s \in Sentence : ~Voiced(j, s)

\* What is remembered of a turn is what was said: the user's turn before the
\* assistant's, one of each, and a streamed reply up to the last sentence that
\* began to sound and no further.
RemembersWhatWasSaid ==
    \A m \in 1 .. Len(history) :
        LET h == history[m]
        IN /\ \A n \in 1 .. Len(history) :
                 n # m /\ history[n].job = h.job => history[n].role # h.role
           /\ h.role = "assistant" =>
                 /\ \E n \in 1 .. m - 1 : history[n].job = h.job
                 /\ h.text \in Sentence => Voiced(h.job, h.text)

\* A poll that answers "thinking" shows no text whose audio has not begun.
NoTextAheadOfAudio ==
    \A r \in Reader : rd[r].outcome = "thinking" /\ rd[r].text # 0 =>
        \E i \in 1 .. rd[r].batch : job[rd[r].job].chunks[i] = rd[r].text

\* A stream or poll that ended normally carried the whole reply: nothing is
\* pushed, said or retracted after a job is done.
WholeReplyRead ==
    \A r \in Reader :
        LET q == rd[r]
        IN /\ q.outcome = "complete" => q.sent = Len(job[q.job].chunks)
           /\ q.outcome = "answered" => /\ q.batch = Len(job[q.job].chunks)
                                        /\ q.text = job[q.job].reply

\* Attachment files outlive every use and no finished turn: what the brain was
\* promised is there while it may read it, and once the job has cleaned up,
\* whichever way it ended, nothing is left but a file whose last removal failed.
AttachmentLifetime ==
    \A j \in Job :
        /\ pc[j] \in {"begin", "stream", "tts", "brain"} => job[j].plan \subseteq files[j]
        /\ pc[j] \in {"persist", "persist_reply", "forget", "end"} => files[j] \subseteq stuck[j]

\* Every turn whose worker starts is finished, and so is every turn with
\* attachments; a reader is always let go.
TurnsEnd ==
    /\ \A j \in Job :
          pc[j] \in {"accepted", "begin"} ~> job[j].done \/ pc[j] = "abandoned"
    /\ \A r \in Reader : rd[r].at # "off" ~>
          rd[r].at = "off" \/ (rd[r].job \in Job /\ pc[rd[r].job] = "abandoned")

\* A turn is asked, spoken and remembered once and alike, through every
\* fallback: nothing is said or asked again once something was heard, and what
\* is remembered is what was said.
SpokenAndRemembered == SpokenOnce /\ AskedAgainOnlyInSilence /\ RemembersWhatWasSaid

\* A reader is shown the reply that is spoken: no text before its audio, and
\* the whole of both when it is told that the turn is over.
ReadAsSpoken == NoTextAheadOfAudio /\ WholeReplyRead
=============================================================================
