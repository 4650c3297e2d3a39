--------------------------- MODULE AvatarProvider ---------------------------
(***************************************************************************)
(* avatar_engine.PoyoClient: one picture from the paid image service.      *)
(* generate() submits a task, polls it and downloads the result; each job  *)
(* has at most one such call under way.                                    *)
(***************************************************************************)
EXTENDS Naturals, FiniteSets

CONSTANTS MaxJobs,          \* bound: avatar jobs started
          RETRY_ATTEMPTS    \* PoyoClient.retry_attempts

ASSUME ProviderConstants == MaxJobs \in Nat /\ RETRY_ATTEMPTS \in Nat \ {0}

Job == 1 .. MaxJobs

VARIABLE call    \* per job: where generate() is, and its attempts

NoCall == [at |-> "none", attempt |-> 0]
Called(j, l) == call' = [call EXCEPT ![j] = [NoCall EXCEPT !.at = l]]
InitCalls == call = [j \in Job |-> NoCall]

Generate(j) == call' = [call EXCEPT ![j] = [NoCall EXCEPT !.at = "submit"]]

\* One more attempt, or the error is raised: "lost" is a connection that broke
\* or a deadline that passed, "raised" any other.
TriesOnce(j) == call[j].attempt < RETRY_ATTEMPTS
MoreTries(j) == call[j].attempt + 1 < RETRY_ATTEMPTS
TryAgain(j) == call' = [call EXCEPT ![j].attempt = @ + 1]
Raise(j) == Called(j, "raised")
Break(j) == Called(j, "lost")

-----------------------------------------------------------------------------
(* submit: a task is queued, and paid for, when the request arrives.        *)

SubmitAnswered(j) == call[j].at = "submit" /\ Called(j, "poll")

\* HTTP errors: nothing was queued.  A 5xx (or the first 429) is retried.
SubmitRefused(j) ==
    /\ call[j].at = "submit"
    /\ (MoreTries(j) /\ TryAgain(j)) \/ Raise(j)

\* No answer: the task may have been queued, so submit does not send it again
\* (the candidate loop above it may).
SubmitLost(j) == call[j].at = "submit" /\ Break(j)

\* poll: until the task is finished, has failed, answers with an unknown
\* status too often, or the deadline passes.
Poll(j) == call[j].at = "poll" /\ (Called(j, "download") \/ Raise(j) \/ Break(j))

\* download: HTTP 5xx and lost connections are retried, a time-out while reading
\* is not; the partial file is removed.
Download(j) ==
    /\ call[j].at = "download"
    /\ Called(j, "got") \/ Raise(j) \/ (MoreTries(j) /\ TryAgain(j)) \/ Break(j)

Provides(j) == SubmitAnswered(j) \/ SubmitRefused(j) \/ SubmitLost(j) \/ Poll(j) \/ Download(j)
=============================================================================
