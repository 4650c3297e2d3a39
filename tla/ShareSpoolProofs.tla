-------------------------- MODULE ShareSpoolProofs --------------------------
(***************************************************************************)
(* Proofs about ShareSpool, for every number of sessions, keys, shares,    *)
(* kills and failing file operations, every quota and every time to live.  *)
(* The invariant comes in three layers, each proved from the ones below:   *)
(* the call and the files (Base), what is live and under which key (Live), *)
(* and what was handed out (Handed).                                       *)
(***************************************************************************)
EXTENDS ShareSpool, FiniteSetTheorems, SequenceTheorems, WellFoundedInduction, TLAPS

-----------------------------------------------------------------------------
(* The call in progress.                                                    *)

Outs == {"none", "expired", "staged", "conflict", "quota", "error", "missing", "mismatch",
         "delivered", "rejected", "claimed"}
AskType == [session : Session \cup {"none"}, key : Key \cup {NoKey}, born : {0}]
OpType == [share : Share \cup {NoShare}, session : Session \cup {"none"}, ask : AskType,
           exclude : Share \cup {NoShare}, rm : Share \cup {NoShare}, strict : BOOLEAN,
           failed : BOOLEAN, next : Labels, then : Labels, out : Outs, step : 0 .. 5,
           now : 0 .. MaxTime, missed : SUBSET (Share \X File)]
Gift == [share : Share, to : Session, at : 0 .. MaxTime]

Typed ==
    /\ disk \in [Share -> SUBSET File] /\ what \in [Share -> What]
    /\ known \in SUBSET Share /\ gone \in SUBSET Share /\ owned \in SUBSET Share
    /\ refused \in SUBSET Share /\ stuck \in SUBSET (Share \X File)
    /\ unread \in SUBSET Share
    /\ idem \in [IdemKeys -> Share \cup {NoShare}]
    /\ up \in BOOLEAN /\ opened \in BOOLEAN /\ sweeping \in BOOLEAN
    /\ pc \in Labels /\ op \in OpType
    /\ clock \in 0 .. MaxTime /\ crashes \in 0 .. MaxCrashes /\ faults \in 0 .. MaxFaults
    /\ given \in Seq(Gift)

Unlinking(next) == pc \in {"unlink_side", "unlink_data"} /\ op.next = next
Sweeping(then)  == (pc = "sweep" \/ Unlinking("sweep")) /\ op.then = then
Putting  == pc \in {"lookup", "quota", "publish"} \/ Unlinking("quota") \/ Sweeping("lookup")
Giving   == pc \in {"chmod", "removed"} \/ Unlinking("removed")
Answers  == pc = "answer" \/ Unlinking("answer") \/ Sweeping("answer")
Handing  == op.out \in {"delivered", "claimed"}

\* What a call in progress carries.
Form ==
    /\ (pc # "idle" => up /\ opened) /\ (opened => up)
    /\ (~opened => known = {}) /\ (~up => owned = {})
    /\ op.now <= clock
    /\ pc \in {"unlink_side", "unlink_data"} =>
          /\ op.rm \in Share \ known /\ op.next \in {"sweep", "quota", "removed", "answer"}
          /\ op.strict <=> op.next = "removed"
    /\ pc = "sweep" \/ Unlinking("sweep") => op.then \in {"idle", "lookup", "stage", "answer"}
    /\ Sweeping("lookup") => op.exclude = NoShare
    /\ Putting => op.ask.session \in Session
    /\ pc = "read" \/ Giving \/ (Answers /\ op.out \in {"expired", "delivered", "claimed"}) =>
          op.share \in Share /\ Used(op.share) /\ op.session \in Session
    /\ Giving => /\ op.out \in {"delivered", "rejected", "claimed"}
                 /\ op.then = "answer" /\ (Unlinking("removed") => op.rm = op.share)
    /\ pc = "chmod" => op.out = "claimed"
    /\ ~Giving /\ ~Answers => op.out = "none"
    /\ pc \in {"publish", "staged"} => op.share \in Share
    /\ pc = "publish" => op.step \in 1 .. 5

-----------------------------------------------------------------------------
(* The files.                                                               *)

\* Nothing is kept of a share whose id was never allocated, and ids are
\* allocated in order.
Untouched(s) == disk[s] = {} /\ s \notin known \cup gone \cup owned \cup refused
                /\ (\A f \in File : <<s, f>> \notin stuck)
                /\ (\A i \in 1 .. Len(given) : given[i].share # s)
Fresh ==
    /\ \A s \in Share : ~Used(s) => Untouched(s)
    /\ \A s, t \in Share : s < t /\ Used(t) => Used(s)
    /\ \A s \in Share : Used(s) => what[s].session \in Session \/ what[s].key = NoKey

\* The share being published, or the frame being staged, is in no index yet, and
\* its files are what the steps so far have written.
Publishing ==
    /\ pc \in {"publish", "staged"} =>
          /\ Used(op.share) /\ op.share \notin known \cup gone \cup owned \cup refused
          /\ \A f \in File : <<op.share, f>> \notin stuck
          /\ \A i \in 1 .. Len(given) : given[i].share # op.share
    /\ pc = "publish" =>
          /\ \A t \in Share : op.share < t => ~Used(t)
          /\ what[op.share].session = op.ask.session /\ what[op.share].key = op.ask.key
          /\ op.step = 1 => disk[op.share] = {}
          /\ op.step = 2 => disk[op.share] = {"data.part"}
          /\ op.step = 3 => disk[op.share] = {"data.part", "side.part"}
          /\ op.step = 4 => disk[op.share] = {"data", "side.part"}
          /\ op.step = 5 => disk[op.share] = {"data", "side"}
    /\ pc = "staged" => disk[op.share] = {"claimed.part"}

\* What is known has its sidecar; where there is a sidecar the data was whole.
Whole ==
    /\ \A s \in known : "side" \in disk[s]
    /\ \A s \in Share : "side" \in disk[s] => "data.part" \notin disk[s]

\* A sidecar the open store does not know is being published or removed, or
\* could not be read at the start or unlinked; then its data file could not be either, or is next.
Remains(s) ==
    \/ pc = "publish" /\ s = op.share
    \/ pc = "unlink_side" /\ s = op.rm
    \/ s \in unread
    \/ /\ <<s, "side">> \in stuck
       /\ "data" \in disk[s] => \/ <<s, "data">> \in stuck
                                \/ pc = "unlink_data" /\ s = op.rm
Away == opened => \A s \in Share : s \notin known /\ "side" \in disk[s] => Remains(s)

Base == Typed /\ Form /\ Fresh /\ Publishing /\ Whole /\ Away

-----------------------------------------------------------------------------
(* What is live, and under which key.                                       *)

Indexed == \A k \in IdemKeys : idem[k] # NoShare => idem[k] \in known /\ IdemKey(idem[k]) = k

Asking == pc \in {"quota", "publish"} \/ Unlinking("quota")
Both(s) == {"side", "data"} \subseteq disk[s]
Found ==
    /\ \A s \in known : /\ what[s].key # NoKey /\ "data" \in disk[s] /\ ~Astray(s)
                        => idem[IdemKey(s)] = s
    /\ \A s, t \in Share : /\ s < t /\ Used(t) /\ what[s].key # NoKey
                           /\ IdemKey(s) = IdemKey(t) /\ Both(s)
                           => Astray(s)
    /\ Asking /\ op.ask.key # NoKey => idem[AskKey] = NoShare

\* The shares that count, or would if the process were killed now.
Counted(session) == {s \in Share : /\ what[s].session = session /\ "data" \in disk[s]
                                   /\ s \in known \/ "side" \in disk[s]
                                   /\ ~Astray(s)}
InQuota ==
    /\ \A session \in Session : Cardinality(Counted(session)) <= MaxLive
    /\ pc = "publish" => Cardinality(Counted(op.ask.session) \cup {op.share}) <= MaxLive

Live == Indexed /\ Found /\ InQuota

-----------------------------------------------------------------------------
(* What was handed out, and the files jobs own.                             *)

Claims == {"claimed", "claimed.part"}
Claiming == Giving /\ op.out = "claimed"
InFlight(s) == s = op.share /\ (pc = "staged" \/ Claiming)

\* A claimed file has taken the data's place; a job owns it, or the call in
\* progress has just made it, or it could not be unlinked.
Owners ==
    /\ \A s \in Share : disk[s] \cap Claims # {} \/ (\E f \in Claims : <<s, f>> \in stuck)
                        => "data" \notin disk[s]
    /\ \A s \in owned : /\ disk[s] \cap Claims = {"claimed"} /\ <<s, "claimed">> \notin stuck
                        /\ ~InFlight(s)
    /\ up => \A s \in Share \ owned : \A f \in disk[s] \cap Claims : <<s, f>> \in stuck \/ InFlight(s)
    /\ Giving => op.share \notin owned
    /\ Claiming =>
          disk[op.share] \cap Claims = {"claimed"} /\ <<op.share, "claimed">> \notin stuck

\* What expired was never handed out; what was handed out is nowhere any more.
Given(s) == \E i \in 1 .. Len(given) : given[i].share = s
History ==
    /\ \A s \in gone \cup refused : Age(s) >= Ttl /\ ~Given(s)
    /\ \A i \in 1 .. Len(given) :
          LET g == given[i]
          IN /\ g.share \notin known /\ disk[g.share] \cap {"side", "data"} = {}
             /\ g.to = what[g.share].session /\ g.at - what[g.share].born < Ttl
             /\ \A j \in 1 .. i - 1 : given[j].share # g.share

\* What the call in progress is about to answer.
Pending ==
    /\ (Giving \/ Answers) /\ Handing =>
          /\ ~Given(op.share) /\ op.share \notin gone \cup refused
          /\ op.session = what[op.share].session /\ AgeNow(op.share) < Ttl
    /\ Unlinking("removed") \/ pc = "removed" => op.share \notin known
    /\ pc = "unlink_data" /\ op.next = "removed" /\ ~op.failed => "side" \notin disk[op.share]
    /\ pc = "removed" /\ ~op.failed => disk[op.share] \cap {"side", "data"} = {}
    /\ Answers /\ Handing => op.share \notin known /\ disk[op.share] \cap {"side", "data"} = {}
    /\ Answers /\ op.out = "expired" => Age(op.share) >= Ttl /\ ~Given(op.share)

Handed == Owners /\ History /\ Pending /\ SweptClean

IInv == Base /\ Live /\ Handed

-----------------------------------------------------------------------------
(* Facts about the call's record.                                           *)

LEMMA Bounds == /\ NoShare \notin Share /\ Share \subseteq Nat
                /\ MaxTime \in Nat /\ 0 \in 0 .. MaxTime /\ Ttl \in Nat /\ Grace \in Nat /\ Ttl <= Grace
                /\ NoKey \notin Key /\ "none" \notin Session /\ "screen" \notin Session
BY ShareConstants DEF NoShare, Share

LEMMA Resting == /\ NoOp \in OpType /\ NoOp.out = "none" /\ NoOp.now = 0
                 /\ ~NoOp.failed /\ NoOp.share = NoShare
<1>1. Nothing \in AskType
  BY DEF Nothing, AskType
<1> QED BY <1>1, Bounds DEF NoOp, OpType, Labels, Outs

\* What OpNow starts with.
LEMMA Starting == ASSUME Typed
                  PROVE /\ OpNow \in OpType /\ OpNow.now = clock /\ OpNow.out = "none"
                        /\ ~OpNow.failed /\ OpNow.share = NoShare
BY Resting DEF Typed, OpNow, OpType

\* A set of numbers has a least one.
LEMMA Least == ASSUME NEW S \in SUBSET Nat, S # {} PROVE \E m \in S : \A n \in S : m <= n
<1>1. PICK R : IsWellFoundedOn(R, Nat) /\ \A m, n \in Nat : m < n => <<m, n>> \in R
  <2>1. \A m, n \in Nat : m < n => <<m, n>> \in OpToRel(<, Nat)
    BY DEF OpToRel
  <2> QED BY <2>1, NatLessThanWellFounded
<1>2. IsWellFoundedOn(R, Nat)
  BY <1>1
<1>3. PICK m \in S : \A n \in S : ~(<<n, m>> \in R)
  BY <1>2, WFMin
<1>4. \A n \in S : ~(n < m)
  BY <1>1, <1>3
<1> QED BY <1>4

-----------------------------------------------------------------------------
(* Steps that leave the files alone.                                        *)

\* A step of a call that neither publishes nor removes, and leaves the files
\* and the indexes as they are.
LEMMA FilesStay == ASSUME Base, pc \notin {"publish", "unlink_side", "unlink_data"}, pc' \notin {"publish", "staged"},
                          UNCHANGED <<disk, what, known, gone, owned, opened, given, refused, stuck, unread>>
                   PROVE Fresh' /\ Publishing' /\ Whole' /\ Away'
<1>1. Fresh'
  BY DEF Base, Fresh, Untouched, Used
<1>2. Publishing' /\ Whole'
  BY DEF Base, Publishing, Whole
<1>3. Away'
  BY DEF Base, Away, Remains
<1> QED BY <1>1, <1>2, <1>3

\* A removal begins: the share leaves memory, its files are next.
LEMMA Dropping == ASSUME Base, pc \notin {"publish", "unlink_side", "unlink_data"}, NEW s \in Share,
                         known' = known \ {s}, gone' \subseteq gone \cup (known \cap {s}),
                         pc' = "unlink_side", op'.rm = s,
                         UNCHANGED <<disk, what, owned, opened, given, refused, stuck, unread>>
                  PROVE Fresh' /\ Publishing' /\ Whole' /\ Away'
<1>1. Fresh'
  BY DEF Base, Fresh, Untouched, Used
<1>2. Publishing' /\ Whole'
  BY DEF Base, Publishing, Whole
<1>3. Away'
  BY DEF Base, Away, Remains
<1> QED BY <1>1, <1>2, <1>3

LEMMA SweepOneBase == ASSUME Base, SweepOne PROVE Base'
<1>1. PICK s \in Share : /\ Due(s) /\ Remove(op, s, FALSE, "sweep")
                         /\ gone' = IF AgeNow(s) >= Grace THEN gone \ {s} ELSE gone \cup {s}
  BY DEF SweepOne
<1>2. /\ pc = "sweep" /\ pc' = "unlink_side" /\ known' = known \ {s} /\ s \in known
      /\ gone' \subseteq gone \cup (known \cap {s})
      /\ op' = [op EXCEPT !.rm = s, !.strict = FALSE, !.next = "sweep"]
      /\ UNCHANGED <<disk, what, up, opened, sweeping, owned, bounds, story>>
  BY <1>1 DEF SweepOne, Remove, Forget, Due, Goto
<1>3. op' \in OpType
  BY <1>2 DEF Base, Typed, OpType, Labels
<1>4. Typed'
  <2>1. idem' \in [IdemKeys -> Share \cup {NoShare}]
    BY <1>1 DEF Base, Typed, Remove, Forget
  <2> QED BY <1>2, <1>3, <2>1 DEF Base, Typed, bounds, story, Labels
<1>5. Form'
  BY <1>2, Bounds DEF Base, Typed, Form, Used, OpType, Unlinking, Sweeping, Putting, Giving, Answers, bounds
<1> QED BY <1>2, <1>4, <1>5, Dropping DEF Base, OpType, Typed, story

LEMMA BeginSweepBase == ASSUME Base, BeginSweep PROVE Base'
<1>1. /\ pc = "idle" /\ up /\ opened /\ pc' = "sweep"
      /\ op' = [OpNow EXCEPT !.then = "idle", !.exclude = NoShare]
      /\ UNCHANGED <<disk, what, memory, up, opened, sweeping, owned, bounds, story>>
  BY DEF BeginSweep, Ready, Sweep, Goto
<1>2. op' \in OpType
  BY <1>1, Bounds, Starting DEF Base, Typed, OpType, AskType, Labels, Outs, Asks
<1>3. Typed'
  BY <1>1, <1>2 DEF Base, Typed, bounds, memory, story, Labels
<1>4. Form'
  BY <1>1, <1>2, Bounds, Starting DEF Base, Typed, Form, Used, OpType, Unlinking, Sweeping, Putting, Giving,
     Answers, bounds, memory, Asks
<1> QED BY <1>1, <1>3, <1>4, FilesStay DEF Base, memory, story

LEMMA BeginStageBase == ASSUME Base, BeginStage PROVE Base'
<1>1. /\ pc = "idle" /\ up /\ opened /\ pc' = "sweep"
      /\ op' = [OpNow EXCEPT !.then = "stage", !.exclude = NoShare]
      /\ UNCHANGED <<disk, what, memory, up, opened, sweeping, owned, bounds, story>>
  BY DEF BeginStage, Ready, Sweep, Goto
<1>2. op' \in OpType
  BY <1>1, Bounds, Starting DEF Base, Typed, OpType, AskType, Labels, Outs, Asks
<1>3. Typed'
  BY <1>1, <1>2 DEF Base, Typed, bounds, memory, story, Labels
<1>4. Form'
  BY <1>1, <1>2, Bounds, Starting DEF Base, Typed, Form, Used, OpType, Unlinking, Sweeping, Putting, Giving,
     Answers, bounds, memory, Asks
<1> QED BY <1>1, <1>3, <1>4, FilesStay DEF Base, memory, story

LEMMA BeginPutBase == ASSUME Base, NEW ask \in Asks, BeginPut(ask) PROVE Base'
<1>1. /\ pc = "idle" /\ up /\ opened /\ pc' = "sweep" /\ sweeping' = TRUE
      /\ op' = [OpNow EXCEPT !.ask = ask, !.then = "lookup", !.exclude = NoShare]
      /\ UNCHANGED <<disk, what, memory, up, opened, owned, bounds, story>>
  BY DEF BeginPut, Ready, Sweep, Goto
<1>2. op' \in OpType
  BY <1>1, Bounds, Starting DEF Base, Typed, OpType, AskType, Labels, Outs, Asks
<1>3. Typed'
  BY <1>1, <1>2 DEF Base, Typed, bounds, memory, story, Labels
<1>4. Form'
  BY <1>1, <1>2, Bounds, Starting DEF Base, Typed, Form, Used, OpType, Unlinking, Sweeping, Putting, Giving,
     Answers, bounds, memory, Asks
<1> QED BY <1>1, <1>3, <1>4, FilesStay DEF Base, memory, story

LEMMA TakeMismatchBase == ASSUME Base, TakeMismatch PROVE Base'
<1>1. /\ pc = "read" /\ up /\ opened /\ pc' = "sweep" /\ op.share \in Share
      /\ op' = [op EXCEPT !.out = "mismatch", !.now = clock, !.then = "answer", !.exclude = op.share]
      /\ UNCHANGED <<disk, what, memory, up, opened, sweeping, owned, bounds, story>>
  BY DEF TakeMismatch, Sweep, Goto, Base, Form
<1>2. op' \in OpType
  BY <1>1, Bounds, Starting DEF Base, Typed, OpType, AskType, Labels, Outs, Asks
<1>3. Typed'
  BY <1>1, <1>2 DEF Base, Typed, bounds, memory, story, Labels
<1>4. Form'
  BY <1>1, <1>2, Bounds, Starting DEF Base, Typed, Form, Used, OpType, Unlinking, Sweeping, Putting, Giving,
     Answers, bounds, memory, Asks
<1> QED BY <1>1, <1>3, <1>4, FilesStay DEF Base, memory, story

LEMMA NotFoundBase == ASSUME Base, NotFound PROVE Base'
<1>1. /\ pc = "lookup" /\ pc' = "quota" /\ op' = op
      /\ UNCHANGED <<disk, what, memory, up, opened, sweeping, owned, bounds, story>>
  BY DEF NotFound, Goto
<1>2. op' \in OpType
  BY <1>1, Bounds, Starting DEF Base, Typed, OpType, AskType, Labels, Outs, Asks
<1>3. Typed'
  BY <1>1, <1>2 DEF Base, Typed, bounds, memory, story, Labels
<1>4. Form'
  BY <1>1, <1>2, Bounds, Starting DEF Base, Typed, Form, Used, OpType, Unlinking, Sweeping, Putting, Giving,
     Answers, bounds, memory, Asks
<1> QED BY <1>1, <1>3, <1>4, FilesStay DEF Base, memory, story

LEMMA FoundAlreadyBase == ASSUME Base, FoundAlready PROVE Base'
<1>1. PICK out \in {"staged", "conflict"} : op' = [op EXCEPT !.share = Keyed, !.out = out]
  BY DEF FoundAlready
<1>2. /\ pc = "lookup" /\ pc' = "answer" /\ Keyed \in Share
      /\ UNCHANGED <<disk, what, memory, up, opened, sweeping, owned, bounds, story>>
  BY DEF FoundAlready, Goto, Kept, Base, Typed
<1>3. op' \in OpType
  BY <1>1, <1>2 DEF Base, Typed, OpType, Outs
<1>4. Typed'
  BY <1>2, <1>3 DEF Base, Typed, bounds, memory, story, Labels
<1>5. Form'
  BY <1>1, <1>2, <1>3, Bounds DEF Base, Typed, Form, Used, OpType, Unlinking, Sweeping, Putting, Giving,
     Answers, bounds, memory
<1> QED BY <1>2, <1>4, <1>5, FilesStay DEF Base, memory, story

LEMMA TakeExpiredBase == ASSUME Base, TakeExpired PROVE Base'
<1>1. /\ pc = "read" /\ pc' = "unlink_side" /\ op.share \in Share
      /\ known' = known \ {op.share} /\ gone' \subseteq gone \cup (known \cap {op.share})
      /\ op' = [op EXCEPT !.out = "expired", !.then = "answer", !.now = clock, !.rm = op.share,
                             !.strict = FALSE, !.next = "sweep"]
      /\ UNCHANGED <<disk, what, up, opened, sweeping, owned, bounds, story>>
  BY DEF TakeExpired, Remove, Forget, Goto, Base, Form, Giving, Kept
<1>2. op' \in OpType /\ idem' \in [IdemKeys -> Share \cup {NoShare}]
  BY <1>1, Bounds DEF TakeExpired, Remove, Forget, Base, Typed, OpType, Labels, Outs
<1>3. Typed'
  BY <1>1, <1>2 DEF Base, Typed, bounds, story, Labels
<1>4. Form'
  BY <1>1, <1>2, Bounds DEF Base, Typed, Form, Used, OpType, Unlinking, Sweeping, Putting, Giving,
     Answers, bounds
<1> QED BY <1>1, <1>3, <1>4, Dropping DEF Base, Typed, OpType, story

LEMMA NotThereBase == ASSUME Base, NotThere PROVE Base'
<1>1. /\ pc = "read" /\ pc' = "unlink_side" /\ op.share \in Share
      /\ known' = known \ {op.share} /\ gone' = gone
      /\ op' = [op EXCEPT !.out = "missing", !.then = "answer", !.now = clock, !.rm = op.share,
                             !.strict = FALSE, !.next = "sweep"]
      /\ UNCHANGED <<disk, what, up, opened, sweeping, owned, bounds, story>>
  BY DEF NotThere, Remove, Forget, Goto, Base, Form, Giving
<1>2. op' \in OpType /\ idem' \in [IdemKeys -> Share \cup {NoShare}]
  BY <1>1, Bounds DEF NotThere, Remove, Forget, Base, Typed, OpType, Labels, Outs
<1>3. Typed'
  BY <1>1, <1>2 DEF Base, Typed, bounds, story, Labels
<1>4. Form'
  BY <1>1, <1>2, Bounds DEF Base, Typed, Form, Used, OpType, Unlinking, Sweeping, Putting, Giving,
     Answers, bounds
<1> QED BY <1>1, <1>3, <1>4, Dropping DEF Base, Typed, OpType, story

LEMMA ChmodBase == ASSUME Base, Chmod PROVE Base'
<1>1. /\ pc = "chmod" /\ pc' = "unlink_side" /\ op.share \in Share
      /\ known' = known \ {op.share} /\ gone' = gone
      /\ op' = [op EXCEPT !.rm = op.share, !.strict = TRUE, !.next = "removed"]
      /\ UNCHANGED <<disk, what, up, opened, sweeping, owned, bounds, story>>
  BY DEF Chmod, Remove, Forget, Goto, Base, Form, Giving
<1>2. op' \in OpType /\ idem' \in [IdemKeys -> Share \cup {NoShare}]
  BY <1>1, Bounds DEF Chmod, Remove, Forget, Base, Typed, OpType, Labels, Outs
<1>3. Typed'
  BY <1>1, <1>2 DEF Base, Typed, bounds, story, Labels
<1>4. Form'
  BY <1>1, <1>2, Bounds DEF Base, Typed, Form, Used, OpType, Unlinking, Sweeping, Putting, Giving,
     Answers, bounds
<1> QED BY <1>1, <1>3, <1>4, Dropping DEF Base, Typed, OpType, story

LEMMA TakeTextBase == ASSUME Base, TakeText PROVE Base'
<1>1. PICK out \in {"delivered", "rejected"} :
         Remove([op EXCEPT !.out = out, !.then = "answer", !.now = clock], op.share, TRUE, "removed")
  BY DEF TakeText
<1>2. /\ pc = "read" /\ pc' = "unlink_side" /\ op.share \in Share
      /\ known' = known \ {op.share} /\ gone' = gone
      /\ op' = [op EXCEPT !.out = out, !.then = "answer", !.now = clock, !.rm = op.share,
                          !.strict = TRUE, !.next = "removed"]
      /\ UNCHANGED <<disk, what, up, opened, sweeping, owned, bounds, story>>
  BY <1>1 DEF TakeText, Matches, Remove, Forget, Goto, Base, Form
<1>3. op' \in OpType /\ idem' \in [IdemKeys -> Share \cup {NoShare}]
  BY <1>1, <1>2, Bounds DEF Remove, Forget, Base, Typed, OpType, Labels, Outs
<1>4. Typed'
  BY <1>2, <1>3 DEF Base, Typed, bounds, story, Labels
<1>5. Form'
  BY <1>2, <1>3, Bounds DEF Base, Typed, Form, Used, OpType, Unlinking, Sweeping, Putting, Giving,
     Answers, bounds
<1> QED BY <1>2, <1>4, <1>5, Dropping DEF Base, Typed, OpType, story

LEMMA FoundRemainsBase == ASSUME Base, FoundRemains PROVE Base'
<1>1. /\ pc = "lookup" /\ pc' = "unlink_side" /\ Keyed \in Share
      /\ known' = known \ {Keyed} /\ gone' = gone
      /\ op' = [op EXCEPT !.rm = Keyed, !.strict = FALSE, !.next = "quota"]
      /\ UNCHANGED <<disk, what, up, opened, sweeping, owned, bounds, story>>
  <2>1. pc = "lookup" /\ op.ask.session \in Session /\ op.ask \in AskType /\ Keyed # NoShare
    BY DEF FoundRemains, Base, Form, Putting, Typed, OpType
  <2>2. op.ask.key \in Key /\ AskKey \in IdemKeys /\ Keyed = idem[AskKey]
    BY <2>1 DEF Keyed, AskType, AskKey, IdemKeys
  <2>3. Keyed \in Share
    BY <2>1, <2>2 DEF Base, Typed
  <2> QED BY <2>1, <2>3 DEF FoundRemains, Goto
<1>2. op' \in OpType /\ idem' \in [IdemKeys -> Share \cup {NoShare}]
  BY <1>1, Bounds DEF FoundRemains, Base, Typed, OpType, Labels
<1>3. Typed'
  BY <1>1, <1>2 DEF Base, Typed, bounds, story, Labels
<1>4. Form'
  BY <1>1, <1>2, Bounds DEF Base, Typed, Form, Used, OpType, Unlinking, Sweeping, Putting, Giving,
     Answers, bounds
<1> QED BY <1>1, <1>3, <1>4, Dropping DEF Base, Typed, OpType, story

LEMMA QuotaRemainsBase == ASSUME Base, QuotaRemains PROVE Base'
<1>1. PICK s \in known : Remove(op, s, FALSE, "quota")
  BY DEF QuotaRemains
<1>2. /\ pc = "quota" /\ pc' = "unlink_side" /\ s \in Share
      /\ known' = known \ {s} /\ gone' = gone
      /\ op' = [op EXCEPT !.rm = s, !.strict = FALSE, !.next = "quota"]
      /\ UNCHANGED <<disk, what, up, opened, sweeping, owned, bounds, story>>
  BY <1>1 DEF QuotaRemains, Remove, Forget, Goto, Base, Typed
<1>3. op' \in OpType /\ idem' \in [IdemKeys -> Share \cup {NoShare}]
  BY <1>1, <1>2, Bounds DEF Remove, Forget, Base, Typed, OpType, Labels
<1>4. Typed'
  BY <1>2, <1>3 DEF Base, Typed, bounds, story, Labels
<1>5. Form'
  BY <1>2, <1>3, Bounds DEF Base, Typed, Form, Used, OpType, Unlinking, Sweeping, Putting, Giving,
     Answers, bounds
<1> QED BY <1>2, <1>4, <1>5, Dropping DEF Base, Typed, OpType, story

LEMMA TakeFaultBase == ASSUME Base, TakeFault PROVE Base'
<1>1. /\ pc = "read" /\ up /\ opened /\ op.share \in Share /\ gone' = gone
      /\ faults' \in 0 .. MaxFaults
      /\ UNCHANGED <<disk, what, up, opened, sweeping, owned, clock, crashes, story>>
  BY Bounds, ShareConstants DEF TakeFault, Matches, Fault, Base, Form, Typed
<1>2. CASE Remove([op EXCEPT !.out = "missing"], op.share, FALSE, "answer")
  <2>1. /\ pc' = "unlink_side" /\ known' = known \ {op.share}
        /\ op' = [op EXCEPT !.out = "missing", !.rm = op.share, !.strict = FALSE, !.next = "answer"]
    BY <1>2 DEF Remove, Forget, Goto
  <2>2. op' \in OpType /\ idem' \in [IdemKeys -> Share \cup {NoShare}]
    BY <1>1, <1>2, <2>1, Bounds DEF Remove, Forget, Base, Typed, OpType, Labels, Outs
  <2>3. Typed'
    BY <1>1, <2>1, <2>2 DEF Base, Typed, story, Labels
  <2>4. Form'
    BY <1>1, <2>1, <2>2, Bounds DEF Base, Typed, Form, Used, OpType, Unlinking, Sweeping, Putting, Giving,
       Answers
  <2> QED BY <1>1, <2>1, <2>3, <2>4, Dropping DEF Base, Typed, OpType, story
<1>3. CASE ~Remove([op EXCEPT !.out = "missing"], op.share, FALSE, "answer")
  <2>1. /\ pc' = "answer" /\ known' = known /\ idem' = idem
        /\ op' = [op EXCEPT !.out = "error"]
    BY <1>3 DEF TakeFault, Goto
  <2>2. op' \in OpType
    BY <2>1 DEF Base, Typed, OpType, Outs
  <2>3. Typed'
    BY <1>1, <2>1, <2>2 DEF Base, Typed, story, Labels
  <2>4. Form'
    BY <1>1, <2>1, <2>2, Bounds DEF Base, Typed, Form, Used, OpType, Unlinking, Sweeping, Putting, Giving,
       Answers
  <2> QED BY <1>1, <2>1, <2>3, <2>4, FilesStay DEF Base, story
<1> QED BY <1>2, <1>3

-----------------------------------------------------------------------------
(* The steps that write or remove files, and the process.                   *)

\* Files go, nothing else: what is known keeps its sidecar.
LEMMA FilesGo == ASSUME Base, NEW gap \in SUBSET Share, known' = known \ gap, gone' \subseteq gone,
                        \A s \in Share : disk'[s] \subseteq disk[s],
                        \A s \in known' : "side" \in disk'[s],
                        stuck \subseteq stuck',
                        \A s \in Share, f \in File : <<s, f>> \in stuck' \ stuck => f \in disk[s],
                        UNCHANGED <<what, refused, given, unread>>, owned' \subseteq owned
                 PROVE Fresh' /\ Whole'
<1>1. \A s \in Share : ~Used(s) => Untouched(s)'
  <2> SUFFICES ASSUME NEW s \in Share, ~Used(s) PROVE Untouched(s)'
    OBVIOUS
  <2>1. Untouched(s)
    BY DEF Base, Fresh
  <2> QED BY <2>1 DEF Untouched
<1>2. Fresh'
  BY <1>1 DEF Base, Fresh, Used
<1>3. Whole'
  BY DEF Base, Typed, Whole
<1> QED BY <1>2, <1>3

LEMMA UnlinkStep == ASSUME Base, NEW file \in {"side", "data"}, NEW last \in BOOLEAN,
                           pc \in {"unlink_side", "unlink_data"}, Unlink(file, last)
                    PROVE /\ op' \in OpType
                          /\ op' = [op EXCEPT !.rm = IF last THEN NoShare ELSE @, !.failed = op'.failed]
                          /\ (op.failed => op'.failed)
                          /\ disk' \in [Share -> SUBSET File] /\ stuck' \in SUBSET (Share \X File)
                          /\ faults' \in 0 .. MaxFaults
                          /\ \A s \in Share \ {op.rm} : disk'[s] = disk[s]
                          /\ disk'[op.rm] \in {disk[op.rm], disk[op.rm] \ {file}}
                          /\ file \in disk'[op.rm] => /\ <<op.rm, file>> \in stuck'
                                                      /\ op.strict => op'.failed
                          /\ stuck' \in {stuck, stuck \cup {<<op.rm, file>>}}
                          /\ stuck' # stuck => file \in disk'[op.rm]
<1> DEFINE o == IF last THEN [op EXCEPT !.rm = NoShare] ELSE op
<1>1. op \in OpType /\ op.rm \in Share /\ file \in File /\ faults \in 0 .. MaxFaults
  BY DEF Base, Typed, Form, File
<1>2. o \in OpType /\ o.failed = op.failed
  BY <1>1 DEF OpType
<1>3. CASE disk' = [disk EXCEPT ![op.rm] = @ \ {file}] /\ op' = o /\ UNCHANGED <<faults, stuck>>
  BY <1>1, <1>2, <1>3 DEF Base, Typed, OpType
<1>4. CASE /\ file \in disk[op.rm] /\ Fault /\ stuck' = stuck \cup {<<op.rm, file>>}
           /\ op' = [o EXCEPT !.failed = @ \/ op.strict] /\ UNCHANGED disk
  <2>1. op.failed \in BOOLEAN /\ op.strict \in BOOLEAN
    BY <1>1 DEF OpType
  <2>2. op' = [op EXCEPT !.rm = IF last THEN NoShare ELSE @, !.failed = op'.failed]
        /\ op'.failed = (op.failed \/ op.strict)
    BY <1>1, <1>4 DEF OpType
  <2>3. op' \in OpType
    BY <1>1, <2>1, <2>2, Bounds DEF OpType
  <2>4. faults' \in 0 .. MaxFaults /\ stuck' \in SUBSET (Share \X File)
    BY <1>1, <1>4, ShareConstants DEF Fault, Base, Typed
  <2> QED BY <1>1, <1>4, <2>2, <2>3, <2>4 DEF Base, Typed
<1> QED BY <1>3, <1>4 DEF Unlink

LEMMA UnlinkSidecarBase == ASSUME Base, UnlinkSidecar PROVE Base'
<1>1. /\ pc = "unlink_side" /\ pc' = "unlink_data" /\ Unlink("side", FALSE)
      /\ UNCHANGED <<what, memory, up, opened, sweeping, owned, clock, crashes, given, refused, unread>>
  BY DEF UnlinkSidecar, Unlink, Goto
<1>2. /\ op' \in OpType /\ op' = [op EXCEPT !.failed = op'.failed]
      /\ disk' \in [Share -> SUBSET File] /\ stuck' \in SUBSET (Share \X File)
      /\ faults' \in 0 .. MaxFaults
      /\ \A s \in Share \ {op.rm} : disk'[s] = disk[s]
      /\ disk'[op.rm] \in {disk[op.rm], disk[op.rm] \ {"side"}}
      /\ "side" \in disk'[op.rm] => <<op.rm, "side">> \in stuck'
      /\ stuck' \in {stuck, stuck \cup {<<op.rm, "side">>}}
      /\ stuck' # stuck => "side" \in disk'[op.rm]
  BY <1>1, UnlinkStep DEF OpType
<1>3. op.rm \in Share \ known
  BY <1>1 DEF Base, Form
<1>4. Typed'
  BY <1>1, <1>2 DEF Base, Typed, memory, Labels
<1>5. Form'
  BY <1>1, <1>2 DEF Base, Typed, Form, Used, OpType, Unlinking, Sweeping, Putting, Giving, Answers, memory
<1>6. Fresh' /\ Whole'
  <2>1. \A s \in Share : disk'[s] \subseteq disk[s]
    BY <1>2
  <2>2. \A s \in known' : "side" \in disk'[s]
    BY <1>1, <1>2, <1>3 DEF Base, Whole, memory, Typed
  <2>3. known' = known \ {} /\ {} \in SUBSET Share
    BY <1>1 DEF memory
  <2> QED BY <1>1, <1>2, <1>3, <2>1, <2>2, <2>3, FilesGo DEF memory
<1>7. Publishing'
  BY <1>1 DEF Publishing
<1>8. Away'
  BY <1>1, <1>2, <1>3 DEF Base, Away, Remains, memory, OpType
<1> QED BY <1>4, <1>5, <1>6, <1>7, <1>8 DEF Base

LEMMA UnlinkDataBase == ASSUME Base, UnlinkData PROVE Base'
<1>1. /\ pc = "unlink_data" /\ pc' = op.next /\ Unlink("data", TRUE)
      /\ UNCHANGED <<what, memory, up, opened, sweeping, owned, clock, crashes, given, refused, unread>>
  BY DEF UnlinkData, Unlink, Goto
<1>2. /\ op' \in OpType /\ op' = [op EXCEPT !.rm = NoShare, !.failed = op'.failed]
      /\ disk' \in [Share -> SUBSET File] /\ stuck' \in SUBSET (Share \X File)
      /\ faults' \in 0 .. MaxFaults
      /\ \A s \in Share \ {op.rm} : disk'[s] = disk[s]
      /\ disk'[op.rm] \in {disk[op.rm], disk[op.rm] \ {"data"}}
      /\ "data" \in disk'[op.rm] => <<op.rm, "data">> \in stuck'
      /\ stuck' \in {stuck, stuck \cup {<<op.rm, "data">>}}
      /\ stuck' # stuck => "data" \in disk'[op.rm]
  BY <1>1, UnlinkStep DEF OpType
<1>3. op.rm \in Share \ known /\ op.next \in {"sweep", "quota", "removed", "answer"}
  BY <1>1 DEF Base, Form
<1>4. Typed'
  BY <1>1, <1>2, <1>3 DEF Base, Typed, memory, Labels
<1>5. Form'
  BY <1>1, <1>2, <1>3 DEF Base, Typed, Form, Used, OpType, Unlinking, Sweeping, Putting, Giving, Answers, memory
<1>6. Fresh' /\ Whole'
  <2>1. \A s \in Share : disk'[s] \subseteq disk[s]
    BY <1>2
  <2>2. \A s \in known' : "side" \in disk'[s]
    BY <1>1, <1>2, <1>3 DEF Base, Whole, memory, Typed
  <2>3. known' = known \ {} /\ {} \in SUBSET Share
    BY <1>1 DEF memory
  <2> QED BY <1>1, <1>2, <1>3, <2>1, <2>2, <2>3, FilesGo DEF memory
<1>7. Publishing'
  BY <1>1, <1>3 DEF Publishing
<1>8. Away'
  BY <1>1, <1>2, <1>3 DEF Base, Away, Remains, memory, OpType
<1> QED BY <1>4, <1>5, <1>6, <1>7, <1>8 DEF Base

\* What a sweep leaves of the files.
LEMMA SweptFiles == ASSUME Base, SweepRest
                    PROVE /\ disk' \in [Share -> SUBSET File] /\ stuck' \in SUBSET (Share \X File)
                          /\ faults' \in 0 .. MaxFaults /\ stuck \subseteq stuck'
                          /\ \A s \in Share : /\ disk[s] \ Litter(s) \subseteq disk'[s]
                                              /\ disk'[s] \subseteq disk[s]
                                              /\ \A f \in disk'[s] \cap Litter(s) : <<s, f>> \in stuck'
                          /\ \A s, t \in Share : \A f \in disk'[s] \cap Litter(s), g \in disk'[t] \cap Litter(t) :
                                s = t /\ f = g
                          /\ \A s \in Share, f \in File : <<s, f>> \in stuck' \ stuck => f \in disk[s] \cap Litter(s)
<1>1. CASE disk' = [s \in Share |-> disk[s] \ Litter(s)] /\ UNCHANGED <<faults, stuck>>
  BY <1>1 DEF Base, Typed
<1>2. CASE \E s \in Share : \E file \in disk[s] \cap Litter(s) :
             /\ Fault /\ stuck' = stuck \cup {<<s, file>>}
             /\ disk' = [t \in Share |-> disk[t] \ (Litter(t) \ (IF t = s THEN {file} ELSE {}))]
  <2>0. PICK s \in Share : \E file \in disk[s] \cap Litter(s) :
             /\ Fault /\ stuck' = stuck \cup {<<s, file>>}
             /\ disk' = [t \in Share |-> disk[t] \ (Litter(t) \ (IF t = s THEN {file} ELSE {}))]
    BY <1>2
  <2>1. PICK file \in disk[s] \cap Litter(s) :
             /\ Fault /\ stuck' = stuck \cup {<<s, file>>}
             /\ disk' = [t \in Share |-> disk[t] \ (Litter(t) \ (IF t = s THEN {file} ELSE {}))]
    BY <2>0
  <2>2. faults' \in 0 .. MaxFaults /\ stuck' \in SUBSET (Share \X File)
    BY <2>1, ShareConstants DEF Fault, Base, Typed
  <2>3. disk' \in [Share -> SUBSET File] /\ disk'[s] \cap Litter(s) = {file}
    BY <2>1 DEF Base, Typed
  <2>4. \A t \in Share \ {s} : disk'[t] = disk[t] \ Litter(t)
    BY <2>1
  <2> QED BY <2>1, <2>2, <2>3, <2>4 DEF Base, Typed
<1> QED BY <1>1, <1>2 DEF SweepRest

LEMMA SweepRestBase == ASSUME Base, SweepRest PROVE Base'
<1> DEFINE old == {s \in Share : Stale(s) /\ disk[s] \cap {"data", "side"} # {}}
<1>1. /\ pc = "sweep" /\ pc' = op.then /\ op' = op /\ op.then \in {"idle", "lookup", "stage", "answer"}
      /\ known' = known \ old /\ gone' \subseteq gone
      /\ UNCHANGED <<what, up, opened, sweeping, owned, clock, crashes, given, refused, unread>>
  BY DEF SweepRest, Base, Form, Goto
<1>2. idem' \in [IdemKeys -> Share \cup {NoShare}]
  BY DEF SweepRest, Base, Typed
<1>3. Typed'
  BY <1>1, <1>2, SweptFiles DEF Base, Typed, Labels
<1>4. Form'
  BY <1>1 DEF Base, Typed, Form, Used, OpType, Unlinking, Sweeping, Putting, Giving, Answers
<1>5. Fresh' /\ Whole'
  <2>1. \A s \in known' : "side" \in disk'[s]
    <3> SUFFICES ASSUME NEW s \in known' PROVE "side" \in disk'[s]
      OBVIOUS
    <3>1. s \in known /\ s \in Share /\ "side" \in disk[s]
      BY <1>1 DEF Base, Whole, Typed
    <3>2. ~Stale(s)
      BY <1>1, <3>1
    <3> QED BY <3>1, <3>2, SweptFiles DEF Litter
  <2>2. \A s \in Share, f \in File : <<s, f>> \in stuck' \ stuck => f \in disk[s]
    BY SweptFiles
  <2>3. old \in SUBSET Share
    OBVIOUS
  <2> HIDE DEF old
  <2> QED BY <1>1, <2>1, <2>2, <2>3, SweptFiles, FilesGo
<1>6. Publishing'
  BY <1>1 DEF Publishing
<1>7. Away'
  <2> SUFFICES ASSUME opened', NEW s \in Share, s \notin known', "side" \in disk'[s] PROVE Remains(s)'
    BY DEF Away
  <2>1. "side" \in disk[s]
    BY SweptFiles
  <2>2. CASE s \in known
    <3>1. Stale(s)
      BY <1>1, <2>1, <2>2
    <3>2. "side" \in Litter(s) /\ "data" \in Litter(s)
      BY <3>1 DEF Litter
    <3>3. "data" \notin disk'[s] /\ <<s, "side">> \in stuck'
      BY <3>2, SweptFiles
    <3> QED BY <3>3 DEF Remains
  <2>3. CASE s \notin known
    <3>1. \/ s \in unread
          \/ <<s, "side">> \in stuck /\ ("data" \in disk[s] => <<s, "data">> \in stuck)
      BY <1>1, <2>1, <2>3 DEF Base, Away, Remains
    <3> QED BY <1>1, <3>1, SweptFiles DEF Remains
  <2> QED BY <2>2, <2>3
<1> QED BY <1>3, <1>4, <1>5, <1>6, <1>7 DEF Base

\* What a sweep that does not see everything leaves: all that it drops from
\* memory is away from the disk.
LEMMA PastFiles == ASSUME Base, SweepPast
                   PROVE \E missed \in SUBSET (Share \X File) :
                            LET old == {s \in Share : Stale(s) /\ Seen(s, missed) \cap {"data", "side"} # {}}
                            IN /\ known' = known \ old
                               /\ idem' = [k \in IdemKeys |-> IF idem[k] \in known \cap old THEN NoShare
                                                              ELSE idem[k]]
                               /\ gone' = {s \in gone : ~Stale(s)}
                               /\ disk' = [s \in Share |-> disk[s] \ Seen(s, missed)]
                               /\ op' = [op EXCEPT !.missed = missed] /\ op' \in OpType
                               /\ \A s \in Share : <<s, "data">> \in missed <=> <<s, "side">> \in missed
                               /\ \A s \in Share : \A f \in File :
                                     <<s, f>> \in missed /\ f \notin {"data", "side"} => missed = Share \X File
<1>1. PICK missed \in Unseen :
            LET old == {s \in Share : Stale(s) /\ Seen(s, missed) \cap {"data", "side"} # {}}
            IN /\ known' = known \ old
               /\ idem' = [k \in IdemKeys |-> IF idem[k] \in known \cap old THEN NoShare
                                              ELSE idem[k]]
               /\ gone' = {s \in gone : ~Stale(s)}
               /\ disk' = [s \in Share |-> disk[s] \ Seen(s, missed)]
               /\ op' = [op EXCEPT !.missed = missed]
  BY DEF SweepPast
<1>2. /\ missed \in SUBSET (Share \X File)
      /\ \A s \in Share : <<s, "data">> \in missed <=> <<s, "side">> \in missed
      /\ \A s \in Share : \A f \in File :
            <<s, f>> \in missed /\ f \notin {"data", "side"} => missed = Share \X File
  BY DEF Unseen, File
<1>3. op' \in OpType
  BY <1>1, <1>2 DEF Base, Typed, OpType
<1> QED BY <1>1, <1>2, <1>3

LEMMA SweepPastBase == ASSUME Base, SweepPast PROVE Base'
<1>1. PICK missed \in SUBSET (Share \X File) :
            LET old == {s \in Share : Stale(s) /\ Seen(s, missed) \cap {"data", "side"} # {}}
            IN /\ known' = known \ old
               /\ idem' = [k \in IdemKeys |-> IF idem[k] \in known \cap old THEN NoShare
                                              ELSE idem[k]]
               /\ gone' = {s \in gone : ~Stale(s)}
               /\ disk' = [s \in Share |-> disk[s] \ Seen(s, missed)]
               /\ op' = [op EXCEPT !.missed = missed] /\ op' \in OpType
               /\ \A s \in Share : <<s, "data">> \in missed <=> <<s, "side">> \in missed
  BY PastFiles
<1> DEFINE old == {s \in Share : Stale(s) /\ Seen(s, missed) \cap {"data", "side"} # {}}
<1>2. /\ pc = "sweep" /\ pc' = op.then /\ op.then \in {"idle", "lookup", "stage", "answer"}
      /\ faults' \in 0 .. MaxFaults
      /\ UNCHANGED <<what, up, opened, sweeping, owned, clock, crashes, story>>
  BY ShareConstants DEF SweepPast, Fault, Base, Form, Typed, Goto
<1>3. disk' \in [Share -> SUBSET File] /\ \A s \in Share : disk'[s] \subseteq disk[s]
  BY <1>1 DEF Base, Typed
<1>4. idem' \in [IdemKeys -> Share \cup {NoShare}]
  BY <1>1 DEF Base, Typed
<1>5. Typed'
  BY <1>1, <1>2, <1>3, <1>4 DEF Base, Typed, story, Labels
<1>6. Form'
  BY <1>1, <1>2 DEF Base, Typed, Form, Used, OpType, Unlinking, Sweeping, Putting, Giving, Answers, story
<1>7. Fresh' /\ Whole'
  <2>1. \A s \in known' : "side" \in disk'[s]
    <3> SUFFICES ASSUME NEW s \in known' PROVE "side" \in disk'[s]
      OBVIOUS
    <3>1. s \in known /\ s \in Share /\ "side" \in disk[s]
      BY <1>1 DEF Base, Whole, Typed
    <3>2. "side" \notin Seen(s, missed)
      BY <1>1, <3>1 DEF Seen, Litter
    <3> QED BY <1>1, <3>1, <3>2
  <2>2. old \in SUBSET Share /\ known' = known \ old
    BY <1>1
  <2> HIDE DEF old
  <2> QED BY <1>1, <1>2, <1>3, <2>1, <2>2, FilesGo DEF story
<1>8. Publishing'
  BY <1>2 DEF Publishing
<1>9. Away'
  <2> SUFFICES ASSUME opened', NEW s \in Share, s \notin known', "side" \in disk'[s] PROVE Remains(s)'
    BY DEF Away
  <2>1. "side" \in disk[s] /\ "side" \notin Seen(s, missed)
    BY <1>1
  <2>2. s \notin known
    <3> SUFFICES ASSUME s \in known PROVE FALSE
      OBVIOUS
    <3>1. Stale(s) /\ Seen(s, missed) \cap {"data", "side"} # {}
      BY <1>1
    <3>2. <<s, "side">> \in missed
      BY <2>1, <3>1 DEF Seen, Litter
    <3> QED BY <1>1, <3>1, <3>2 DEF Seen
  <2>3. s \in unread \/ (<<s, "side">> \in stuck /\ ("data" \in disk[s] => <<s, "data">> \in stuck))
    BY <1>2, <2>1, <2>2 DEF Base, Away, Remains
  <2> QED BY <1>2, <1>3, <2>3 DEF Remains, story
<1> QED BY <1>5, <1>6, <1>7, <1>8, <1>9 DEF Base

\* The younger of two sidecars with one key.
LEMMA YoungestIs == ASSUME NEW S \in SUBSET Share
                    PROVE /\ S = {} => Youngest(S) = NoShare
                          /\ S # {} => Youngest(S) \in S /\ \A t \in S : t <= Youngest(S)
<1> SUFFICES ASSUME S # {} PROVE \E s \in S : \A t \in S : t <= s
  BY DEF Youngest
<1> DEFINE U == {m \in Nat : \A n \in S : n <= m}
<1>1. MaxShares \in U /\ S \subseteq Nat
  BY ShareConstants DEF Share
<1>2. PICK m \in U : \A n \in U : m <= n
  BY <1>1, Least
<1>3. m \in S
  <2> SUFFICES ASSUME m \notin S PROVE FALSE
    OBVIOUS
  <2>1. PICK n \in S : n # m
    OBVIOUS
  <2>2. m - 1 \in Nat /\ \A i \in S : i <= m - 1
    BY <1>1, <2>1
  <2> QED BY <1>2, <2>2
<1> QED BY <1>2, <1>3

LEMMA AnswerBase == ASSUME Base, Answer PROVE Base'
<1>1. /\ pc = "answer" /\ pc' = "idle" /\ op' = NoOp
      /\ refused' = IF op.out = "expired" THEN refused \cup {op.share} ELSE refused
      /\ given' = IF Handing THEN Append(given, [share |-> op.share, to |-> op.session, at |-> op.now])
                  ELSE given
      /\ UNCHANGED <<disk, what, memory, up, opened, sweeping, owned, bounds, stuck, unread>>
  BY DEF Answer, Goto, Handing
<1>2. op.out \in {"expired", "delivered", "claimed"} =>
         op.share \in Share /\ Used(op.share) /\ op.session \in Session
  BY <1>1 DEF Base, Form, Answers
<1>3. op.now \in 0 .. MaxTime
  BY DEF Base, Typed, OpType
<1>4. given' \in Seq(Gift)
  <2>1. Handing => [share |-> op.share, to |-> op.session, at |-> op.now] \in Gift
    BY <1>2, <1>3 DEF Handing, Gift
  <2> QED BY <1>1, <2>1 DEF Base, Typed
<1>5. Typed'
  BY <1>1, <1>2, <1>4, Resting DEF Base, Typed, memory, bounds, Labels
<1>6. Form'
  BY <1>1, Resting, Bounds DEF Base, Typed, Form, Used, OpType, Unlinking, Sweeping, Putting, Giving, Answers,
     memory, bounds
<1>7. Fresh'
  <2>1. ASSUME NEW s \in Share, ~Used(s) PROVE Untouched(s)'
    <3>1. Untouched(s)
      BY <2>1 DEF Base, Fresh
    <3>2. s \notin refused'
      BY <1>1, <1>2, <2>1, <3>1 DEF Untouched
    <3>3. \A i \in 1 .. Len(given') : given'[i].share # s
      BY <1>1, <1>2, <2>1, <3>1 DEF Untouched, Base, Typed, Handing
    <3> QED BY <1>1, <3>1, <3>2, <3>3 DEF Untouched, memory
  <2> QED BY <1>1, <2>1 DEF Base, Fresh, Used
<1>8. Publishing' /\ Whole'
  BY <1>1 DEF Base, Publishing, Whole, memory
<1>9. Away'
  BY <1>1 DEF Base, Away, Remains, memory
<1> QED BY <1>5, <1>6, <1>7, <1>8, <1>9 DEF Base

LEMMA TickBase == ASSUME Base, Tick PROVE Base'
<1>1. /\ clock' \in 0 .. MaxTime /\ clock' = clock + 1
      /\ UNCHANGED <<disk, what, memory, up, opened, sweeping, owned, pc, op, crashes, faults, story>>
  BY Bounds DEF Tick, Base, Typed
<1>2. Typed'
  BY <1>1 DEF Base, Typed, memory, story
<1>3. Form'
  <2>1. op.now \in Nat /\ clock \in Nat
    BY DEF Base, Typed, OpType
  <2> QED BY <1>1, <2>1 DEF Base, Form, Used, Unlinking, Sweeping, Putting, Giving, Answers, memory
<1>4. Fresh'
  BY <1>1 DEF Base, Fresh, Untouched, Used, memory, story
<1>5. Publishing' /\ Whole'
  BY <1>1 DEF Base, Publishing, Whole, Used, memory, story
<1>6. Away'
  BY <1>1 DEF Base, Away, Remains, memory, story
<1> QED BY <1>2, <1>3, <1>4, <1>5, <1>6 DEF Base

LEMMA OpenBase == ASSUME Base, Open PROVE Base'
<1>1. /\ up /\ ~opened /\ pc = "idle" /\ pc' = "sweep" /\ opened' = TRUE
      /\ op' = [OpNow EXCEPT !.then = "idle", !.exclude = NoShare]
      /\ UNCHANGED <<disk, what, gone, up, sweeping, owned, clock, crashes, given, refused, stuck>>
  BY DEF Open, Sweep, Goto
<1>0. PICK skipped \in SUBSET Sidecars :
         /\ faults' \in 0 .. MaxFaults /\ known' = Sidecars \ skipped /\ unread' = unread \cup skipped
         /\ idem' = [k \in IdemKeys |-> Youngest(LoadedFor(k) \ skipped)]
  <2>1. faults' \in 0 .. MaxFaults
    <3>1. faults' = faults \/ Fault
      BY DEF Open
    <3> QED BY <3>1, ShareConstants DEF Fault, Base, Typed
  <2> QED BY <2>1 DEF Open
<1>2. op' \in OpType
  BY <1>1, Bounds, Starting DEF Base, OpType, Labels
<1>3. idem' \in [IdemKeys -> Share \cup {NoShare}]
  <2> SUFFICES ASSUME NEW k \in IdemKeys PROVE Youngest(LoadedFor(k) \ skipped) \in Share \cup {NoShare}
    BY <1>0
  <2>1. LoadedFor(k) \ skipped \subseteq Share
    BY DEF LoadedFor, Sidecars
  <2> QED BY <2>1, YoungestIs
<1>4. Typed'
  BY <1>0, <1>1, <1>2, <1>3 DEF Base, Typed, Labels, Sidecars
<1>5. Form'
  BY <1>1, <1>2, Bounds, Starting DEF Base, Typed, Form, Used, OpType, Unlinking, Sweeping, Putting, Giving,
     Answers
<1>6. Fresh'
  BY <1>0, <1>1 DEF Base, Fresh, Untouched, Used, Sidecars
<1>7. Publishing' /\ Whole'
  BY <1>0, <1>1 DEF Base, Publishing, Whole, Sidecars
<1>8. Away'
  BY <1>0, <1>1 DEF Away, Sidecars, Remains
<1> QED BY <1>4, <1>5, <1>6, <1>7, <1>8 DEF Base

LEMMA CrashBase == ASSUME Base, Crash PROVE Base'
<1>1. /\ up' = FALSE /\ opened' = FALSE /\ sweeping' = FALSE /\ known' = {} /\ gone' = {} /\ owned' = {}
      /\ pc' = "idle" /\ op' = NoOp /\ crashes' \in 0 .. MaxCrashes
      /\ idem' = [k \in IdemKeys |-> NoShare]
      /\ UNCHANGED <<disk, what, clock, faults, story>>
  BY ShareConstants DEF Crash, Goto, Base, Typed
<1>2. Typed'
  BY <1>1, Resting DEF Base, Typed, story, Labels
<1>3. Form'
  BY <1>1, Resting, Bounds DEF Base, Typed, Form, Used, OpType, Unlinking, Sweeping, Putting, Giving, Answers
<1>4. Fresh'
  BY <1>1 DEF Base, Fresh, Untouched, Used, story
<1>5. Publishing' /\ Whole'
  BY <1>1 DEF Base, Publishing, Whole
<1>6. Away'
  BY <1>1 DEF Away
<1> QED BY <1>2, <1>3, <1>4, <1>5, <1>6 DEF Base

\* What a restart and the end of a job remove are claimed files.
LEMMA ClaimsGo == ASSUME Base, Restart \/ \E s \in Share : JobEnds(s)
                  PROVE /\ disk' \in [Share -> SUBSET File] /\ stuck' \in SUBSET (Share \X File)
                        /\ faults' \in 0 .. MaxFaults /\ stuck \subseteq stuck'
                        /\ \A s \in Share : disk'[s] \subseteq disk[s] /\ disk[s] \ disk'[s] \subseteq Claims
                        /\ \A s \in Share, f \in File : <<s, f>> \in stuck' \ stuck =>
                              f \in Claims /\ (f \in disk[s] \/ s \in owned)
                        /\ UNCHANGED <<what, memory, opened, sweeping, pc, op, clock, crashes, given, refused, unread>>
<1>1. CASE /\ disk' = [s \in Share |-> disk[s] \ Orphans(s)] /\ UNCHANGED <<faults, stuck>>
           /\ Restart
  BY <1>1 DEF Restart, Base, Typed, Orphans, Claims
<1>2. CASE /\ Restart
           /\ \E kept \in [Share -> SUBSET {"claimed", "claimed.part"}] :
                /\ Fault /\ \A s \in Share : kept[s] \subseteq disk[s]
                /\ stuck' = stuck \cup UNION {{s} \X kept[s] : s \in Share}
                /\ disk' = [s \in Share |-> (disk[s] \ Orphans(s)) \cup kept[s]]
  <2>1. PICK kept \in [Share -> SUBSET {"claimed", "claimed.part"}] :
             /\ Fault /\ \A s \in Share : kept[s] \subseteq disk[s]
             /\ stuck' = stuck \cup UNION {{s} \X kept[s] : s \in Share}
             /\ disk' = [s \in Share |-> (disk[s] \ Orphans(s)) \cup kept[s]]
    BY <1>2
  <2>2. faults' \in 0 .. MaxFaults
    BY <2>1, ShareConstants DEF Fault, Base, Typed
  <2>3. \A s \in Share : kept[s] \in SUBSET Claims /\ kept[s] \subseteq disk[s]
    BY <2>1 DEF Claims
  <2>4. \A s \in Share, f \in File : <<s, f>> \in stuck' \ stuck => f \in kept[s]
    BY <2>1
  <2>5. UNION {{s} \X kept[s] : s \in Share} \in SUBSET (Share \X File)
    <3>1. \A s \in Share : {s} \X kept[s] \in SUBSET (Share \X File)
      BY <2>3 DEF Claims, File
    <3> QED BY <3>1
  <2>6. stuck' \in SUBSET (Share \X File) /\ stuck \subseteq stuck'
    BY <2>1, <2>5 DEF Base, Typed
  <2>7. disk' \in [Share -> SUBSET File]
        /\ \A s \in Share : disk'[s] \subseteq disk[s] /\ disk[s] \ disk'[s] \subseteq Claims
    BY <2>1, <2>3 DEF Base, Typed, Orphans, Claims
  <2> QED BY <1>2, <2>2, <2>3, <2>4, <2>6, <2>7 DEF Restart
<1>3. CASE \E s \in Share : JobEnds(s)
  <2>1. PICK s \in Share : JobEnds(s)
    BY <1>3
  <2>2. faults' \in 0 .. MaxFaults /\ s \in owned /\ "claimed" \in Claims /\ "claimed" \in File
    BY <2>1, ShareConstants DEF JobEnds, Fault, Base, Typed, Claims, File
  <2> QED BY <2>1, <2>2 DEF JobEnds, Base, Typed
<1> QED BY <1>1, <1>2, <1>3 DEF Restart

LEMMA ClaimsGoBase == ASSUME Base, Restart \/ \E s \in Share : JobEnds(s) PROVE Base'
<1>1. up' \in BOOLEAN /\ (up => up') /\ owned' \subseteq owned /\ (~up' => owned' = {})
      /\ (pc # "idle" => up') /\ (opened => up')
  BY DEF Restart, JobEnds, Base, Typed, Form
<1>2. Typed'
  BY <1>1, ClaimsGo DEF Base, Typed, memory
<1>3. Form'
  BY <1>1, ClaimsGo DEF Base, Typed, Form, Used, Unlinking, Sweeping, Putting, Giving, Answers, memory
<1>4. \A s \in Share : "side" \in disk[s] <=> "side" \in disk'[s]
  BY ClaimsGo DEF Claims
<1>5. \A s \in Share : "data" \in disk[s] <=> "data" \in disk'[s]
  BY ClaimsGo DEF Claims
<1>6. Fresh' /\ Whole'
  <2>1. ASSUME NEW s \in Share, ~Used(s) PROVE Untouched(s)'
    <3>1. Untouched(s)
      BY <2>1 DEF Base, Fresh
    <3> QED BY <1>1, <3>1, ClaimsGo DEF Untouched, memory
  <2>2. Fresh'
    BY <2>1, ClaimsGo DEF Base, Fresh, Used
  <2>3. Whole'
    BY <1>4, ClaimsGo DEF Base, Typed, Whole, memory
  <2> QED BY <2>2, <2>3
<1>7. Publishing'
  <2> SUFFICES ASSUME pc \in {"publish", "staged"} PROVE Publishing'
    BY ClaimsGo DEF Publishing
  <2>1. /\ up /\ op.share \in Share /\ op.share \notin known \cup gone \cup owned \cup refused
        /\ \A f \in File : <<op.share, f>> \notin stuck
    BY DEF Base, Form, Publishing
  <2>2. disk'[op.share] = disk[op.share] /\ \A f \in File : <<op.share, f>> \notin stuck'
    <3>1. PICK s \in Share : JobEnds(s)
      BY <2>1 DEF Restart
    <3> QED BY <2>1, <3>1 DEF JobEnds, Base, Typed
  <2> QED BY <1>1, <2>1, <2>2, ClaimsGo DEF Base, Publishing, Used, memory
<1>8. Away'
  <2>1. ASSUME opened, NEW s \in Share, s \notin known, "side" \in disk[s] PROVE Remains(s)'
    <3>1. Remains(s)
      BY <2>1 DEF Base, Away
    <3> QED BY <1>5, <3>1, ClaimsGo DEF Remains
  <2> QED BY <1>4, <2>1, ClaimsGo DEF Away, memory
<1> QED BY <1>2, <1>3, <1>6, <1>7, <1>8 DEF Base

LEMMA AllocateBase == ASSUME Base, Allocate PROVE Base'
<1>1. /\ pc = "quota" /\ up /\ opened /\ op.ask.session \in Session /\ op.ask \in AskType /\ op.now \in 0 .. MaxTime
      /\ UNCHANGED <<disk, memory, up, opened, sweeping, owned, bounds, story>>
  BY DEF Allocate, Base, Form, Putting, Typed, OpType
<1>2. CASE op' = [op EXCEPT !.out = "quota"] /\ pc' = "answer" /\ UNCHANGED what
  <2>1. op' \in OpType
    BY <1>2 DEF Base, Typed, OpType, Outs
  <2>2. Typed'
    BY <1>1, <1>2, <2>1 DEF Base, Typed, memory, bounds, story, Labels
  <2>3. Form'
    BY <1>1, <1>2, <2>1 DEF Base, Typed, Form, Used, OpType, Unlinking, Sweeping, Putting, Giving, Answers,
       memory, bounds
  <2> QED BY <1>1, <1>2, <2>2, <2>3, FilesStay DEF Base, memory, story
<1>3. CASE ~(op' = [op EXCEPT !.out = "quota"] /\ pc' = "answer" /\ UNCHANGED what)
  <2>1. PICK s \in Share : /\ ~Used(s) /\ \A t \in 1 .. s - 1 : Used(t)
                           /\ what' = [what EXCEPT ![s] = [op.ask EXCEPT !.born = op.now]]
                           /\ op' = [op EXCEPT !.share = s, !.step = 1] /\ pc' = "publish"
    BY <1>3 DEF Allocate, Goto
  <2> DEFINE w == [op.ask EXCEPT !.born = op.now]
  <2>2. /\ w \in What /\ w.session = op.ask.session /\ w.key = op.ask.key /\ w # Nothing
        /\ w.session \in Session
    BY <1>1, Bounds DEF AskType, What, Nothing
  <2>3. /\ what' \in [Share -> What] /\ what'[s] = w /\ \A t \in Share \ {s} : what'[t] = what[t]
    BY <2>1, <2>2 DEF Base, Typed
  <2> HIDE DEF w
  <2>4. op' \in OpType /\ op'.share = s /\ op'.ask = op.ask /\ op'.step = 1
    <3>1. 1 \in 0 .. 5
      OBVIOUS
    <3> QED BY <2>1, <3>1 DEF Base, Typed, OpType
  <2>5. Typed'
    BY <1>1, <2>1, <2>3, <2>4 DEF Base, Typed, memory, bounds, story, Labels
  <2>6. Form'
    BY <1>1, <2>1, <2>4 DEF Base, Typed, Form, OpType, Unlinking, Sweeping, Putting, Giving, Answers,
       memory, bounds
  <2>7. /\ Untouched(s) /\ \A t \in Share : s < t => ~Used(t)
    BY <2>1 DEF Base, Fresh
  <2>8. Used(s)' /\ \A t \in Share \ {s} : Used(t)' <=> Used(t)
    BY <2>2, <2>3 DEF Used
  <2>9. Fresh'
    <3>1. \A t \in Share : ~Used(t)' => Untouched(t)'
      BY <1>1, <2>8 DEF Base, Fresh, Untouched, memory, story
    <3>2. \A t, u \in Share : t < u /\ Used(u)' => Used(t)'
      <4>1. \A t \in Share : t < s => t \in 1 .. s - 1
        BY DEF Share
      <4> QED BY <2>1, <2>7, <2>8, <4>1 DEF Base, Fresh
    <3>3. \A t \in Share : Used(t)' => what'[t].session \in Session \/ what'[t].key = NoKey
      BY <2>2, <2>3, <2>8 DEF Base, Fresh
    <3> QED BY <3>1, <3>2, <3>3 DEF Fresh
  <2>10. Publishing'
    <3>1. /\ s \notin known' \cup gone' \cup owned' \cup refused' /\ disk'[s] = {}
          /\ \A f \in File : <<s, f>> \notin stuck'
          /\ \A i \in 1 .. Len(given') : given'[i].share # s
      BY <1>1, <2>7 DEF Untouched, memory, story
    <3>2. \A t \in Share : s < t => ~Used(t)'
      BY <2>7, <2>8 DEF Share
    <3> QED BY <2>1, <2>2, <2>3, <2>4, <2>8, <3>1, <3>2 DEF Publishing
  <2>11. Whole' /\ Away'
    BY <1>1, <2>1 DEF Base, Whole, Away, Remains, memory, story
  <2> QED BY <2>5, <2>6, <2>9, <2>10, <2>11 DEF Base
<1> QED BY <1>2, <1>3

\* What one step of a publication leaves.
LEMMA WrittenFiles == ASSUME Base, Publish
                      PROVE /\ pc = "publish" /\ pc' = "publish" /\ op.share \in Share /\ op.step \in 1 .. 4
                            /\ op' = [op EXCEPT !.step = @ + 1] /\ op' \in OpType /\ op'.step = op.step + 1
                            /\ disk' \in [Share -> SUBSET File]
                            /\ \A s \in Share \ {op.share} : disk'[s] = disk[s]
                            /\ op.step = 1 => disk'[op.share] = {"data.part"}
                            /\ op.step = 2 => disk'[op.share] = {"data.part", "side.part"}
                            /\ op.step = 3 => disk'[op.share] = {"data", "side.part"}
                            /\ op.step = 4 => disk'[op.share] = {"data", "side"}
                            /\ UNCHANGED <<what, memory, up, opened, sweeping, owned, bounds, story>>
<1>1. /\ pc = "publish" /\ pc' = "publish" /\ op.share \in Share /\ op.step \in 1 .. 4
      /\ op' = [op EXCEPT !.step = @ + 1] /\ disk' = [disk EXCEPT ![op.share] = Written(op.step, @)]
      /\ UNCHANGED <<what, memory, up, opened, sweeping, owned, bounds, story>>
  BY DEF Publish, Base, Form
<1>2. op' \in OpType /\ op'.step = op.step + 1
  <2>1. op.step + 1 \in 0 .. 5
    BY <1>1
  <2> QED BY <1>1, <2>1 DEF Base, Typed, OpType
<1>3. /\ op.step = 1 => Written(op.step, disk[op.share]) = {"data.part"}
      /\ op.step = 2 => Written(op.step, disk[op.share]) = {"data.part", "side.part"}
      /\ op.step = 3 => Written(op.step, disk[op.share]) = {"data", "side.part"}
      /\ op.step = 4 => Written(op.step, disk[op.share]) = {"data", "side"}
  BY <1>1 DEF Base, Publishing, Written
<1>4. Written(op.step, disk[op.share]) \in SUBSET File
  BY <1>1, <1>3 DEF File
<1> QED BY <1>1, <1>2, <1>3, <1>4 DEF Base, Typed

LEMMA PublishBase == ASSUME Base, Publish PROVE Base'
<1>1. Typed'
  BY WrittenFiles DEF Base, Typed, memory, bounds, story
<1>2. Form'
  BY WrittenFiles DEF Base, Typed, Form, Used, OpType, Unlinking, Sweeping, Putting, Giving, Answers, memory, bounds
<1>3. op'.share = op.share /\ op'.ask = op.ask /\ Used(op.share) /\ op.share \notin known
  BY WrittenFiles DEF Base, Publishing, Typed, OpType
<1>4. Fresh'
  BY <1>3, WrittenFiles DEF Base, Fresh, Untouched, Used, memory, story
<1>5. Publishing'
  BY <1>3, WrittenFiles DEF Base, Publishing, Used, memory, story
<1>6. Whole'
  <2>1. "data.part" \notin disk'[op.share] \/ "side" \notin disk'[op.share]
    BY WrittenFiles
  <2> QED BY <1>3, <2>1, WrittenFiles DEF Base, Whole, Typed, memory
<1>7. Away'
  BY <1>3, WrittenFiles DEF Base, Away, Remains, memory, story
<1> QED BY <1>1, <1>2, <1>4, <1>5, <1>6, <1>7 DEF Base

LEMMA PublishFaultBase == ASSUME Base, PublishFault PROVE Base'
<1>1. /\ pc = "publish" /\ up /\ opened /\ op.share \in Share /\ pc' = "answer"
      /\ op' = [op EXCEPT !.out = "error"]
      /\ faults' \in 0 .. MaxFaults /\ op.share \notin known
      /\ UNCHANGED <<what, memory, up, opened, sweeping, owned, clock, crashes, given, refused, unread>>
  BY ShareConstants DEF PublishFault, Goto, Fault, Base, Form, Typed, Publishing
<1>0. PICK kept \in SUBSET disk[op.share] :
         /\ disk' = [disk EXCEPT ![op.share] = kept] /\ stuck' = stuck \cup ({op.share} \X kept)
  BY DEF PublishFault, Unpublished, Left
<1>7. /\ disk' \in [Share -> SUBSET File] /\ stuck' \in SUBSET (Share \X File) /\ stuck \subseteq stuck'
      /\ disk'[op.share] = kept /\ \A t \in Share \ {op.share} : disk'[t] = disk[t]
      /\ \A f \in kept : <<op.share, f>> \in stuck'
      /\ \A t \in Share \ {op.share}, f \in File : <<t, f>> \in stuck' <=> <<t, f>> \in stuck
  BY <1>0, <1>1 DEF Base, Typed
<1>8. Used(op.share)
  BY <1>1 DEF Base, Publishing
<1>2. op' \in OpType
  BY <1>1 DEF Base, Typed, OpType, Outs
<1>3. Typed'
  BY <1>1, <1>2, <1>7 DEF Base, Typed, memory, Labels
<1>4. Form'
  BY <1>1, <1>2 DEF Base, Typed, Form, Used, OpType, Unlinking, Sweeping, Putting, Giving, Answers, memory
<1>5. Fresh' /\ Publishing' /\ Whole'
  <2>1. Fresh'
    BY <1>1, <1>7, <1>8 DEF Base, Fresh, Untouched, Used, memory
  <2>2. Publishing' /\ Whole'
    BY <1>1, <1>7 DEF Base, Typed, Publishing, Whole, memory
  <2> QED BY <2>1, <2>2
<1>6. Away'
  <2> SUFFICES ASSUME NEW s \in Share, s \notin known, "side" \in disk'[s] PROVE Remains(s)'
    BY <1>1 DEF Away, memory
  <2>1. CASE s = op.share
    BY <1>7, <2>1 DEF Remains
  <2>2. CASE s # op.share
    <3>1. Remains(s) /\ disk'[s] = disk[s]
      BY <1>1, <1>7, <2>2 DEF Base, Away
    <3> QED BY <1>1, <1>7, <2>2, <3>1 DEF Remains, File
  <2> QED BY <2>1, <2>2
<1> QED BY <1>3, <1>4, <1>5, <1>6 DEF Base

LEMMA PublishedBase == ASSUME Base, Published PROVE Base'
<1>1. /\ pc = "publish" /\ up /\ opened /\ op.share \in Share /\ pc' = "answer"
      /\ known' = known \cup {op.share} /\ op' = [op EXCEPT !.out = "staged"]
      /\ disk[op.share] = {"data", "side"} /\ Used(op.share)
      /\ UNCHANGED <<disk, what, gone, up, opened, sweeping, owned, bounds, story>>
  BY DEF Published, Goto, Base, Form, Publishing
<1>2. op' \in OpType /\ idem' \in [IdemKeys -> Share \cup {NoShare}]
  BY <1>1 DEF Published, Base, Typed, OpType, Outs
<1>3. Typed'
  BY <1>1, <1>2 DEF Base, Typed, bounds, story, Labels
<1>4. Form'
  BY <1>1, <1>2 DEF Base, Typed, Form, Used, OpType, Unlinking, Sweeping, Putting, Giving, Answers, bounds
<1>5. Fresh' /\ Publishing' /\ Whole'
  BY <1>1 DEF Base, Fresh, Untouched, Used, Publishing, Whole, story
<1>6. Away'
  BY <1>1 DEF Base, Away, Remains, story
<1> QED BY <1>3, <1>4, <1>5, <1>6 DEF Base

LEMMA BeginTakeBase == ASSUME Base, NEW s \in Share, NEW session \in Session, BeginTake(s, session) PROVE Base'
<1> DEFINE o == [OpNow EXCEPT !.share = s, !.session = session]
<1>1. /\ pc = "idle" /\ up /\ opened /\ Used(s) /\ o \in OpType
      /\ o.share = s /\ o.session = session /\ o.now = clock /\ o.out = "none"
      /\ UNCHANGED <<disk, what, gone, up, opened, sweeping, owned, bounds, story>>
  <2>1. /\ o \in OpType /\ o.share = s /\ o.session = session /\ o.now = clock /\ o.out = "none"
    BY Starting DEF Base, OpType
  <2>2. Used(s)
    BY Bounds DEF BeginTake, Used, Nothing
  <2> QED BY <2>1, <2>2 DEF BeginTake, Ready
<1> HIDE DEF o
<1>2. CASE s \in gone /\ Sweep([o EXCEPT !.out = "expired"], "answer", NoShare) /\ UNCHANGED <<known, idem>>
  <2>1. /\ pc' = "sweep"
        /\ op' = [o EXCEPT !.out = "expired", !.then = "answer", !.exclude = NoShare]
    BY <1>1, <1>2 DEF Sweep, Goto, OpType
  <2>2. op' \in OpType
    BY <1>1, <2>1 DEF OpType, Labels, Outs
  <2>3. Typed'
    BY <1>1, <1>2, <2>1, <2>2 DEF Base, Typed, bounds, story, Labels
  <2>4. Form'
    BY <1>1, <1>2, <2>1, <2>2, Bounds DEF Base, Typed, Form, Used, OpType, Unlinking, Sweeping, Putting,
       Giving, Answers, bounds
  <2> QED BY <1>1, <1>2, <2>1, <2>3, <2>4, FilesStay DEF Base, story
<1>3. CASE LoadSidecar(s) /\ op' = o /\ pc' = "read"
  <2>1. known' \subseteq Share /\ (known' = known \/ ("side" \in disk[s] /\ known' = known \cup {s}))
    BY <1>3 DEF LoadSidecar, Base, Typed
  <2>2. idem' \in [IdemKeys -> Share \cup {NoShare}]
    BY <1>3 DEF LoadSidecar, Base, Typed
  <2>3. Typed'
    BY <1>1, <1>3, <2>1, <2>2 DEF Base, Typed, bounds, story, Labels
  <2>4. Form'
    BY <1>1, <1>3, <2>1, Bounds DEF Base, Typed, Form, Used, OpType, Unlinking, Sweeping, Putting,
       Giving, Answers, bounds
  <2>5. Fresh' /\ Publishing' /\ Whole'
    BY <1>1, <1>3, <2>1 DEF Base, Fresh, Untouched, Used, Publishing, Whole, story
  <2>6. Away'
    BY <1>1, <1>3, <2>1 DEF Base, Away, Remains, story
  <2> QED BY <2>3, <2>4, <2>5, <2>6 DEF Base
<1> QED BY <1>2, <1>3 DEF BeginTake, Goto, o

LEMMA TakeUnreadBase == ASSUME Base, NEW s \in Share, NEW session \in Session, TakeUnread(s, session) PROVE Base'
<1>1. /\ pc = "idle" /\ up /\ opened /\ Used(s) /\ pc' = "read" /\ op' \in OpType
      /\ op'.share = s /\ op'.session = session /\ op'.now = clock /\ op'.out = "none"
      /\ faults' \in 0 .. MaxFaults
      /\ UNCHANGED <<disk, what, memory, up, opened, sweeping, owned, clock, crashes, story>>
  <2>1. /\ op' \in OpType /\ op'.share = s /\ op'.session = session /\ op'.now = clock /\ op'.out = "none"
    BY Starting DEF TakeUnread, Base, OpType
  <2>2. Used(s)
    BY Bounds DEF TakeUnread, Used, Nothing
  <2>3. faults' \in 0 .. MaxFaults
    BY ShareConstants DEF TakeUnread, Fault, Base, Typed
  <2> QED BY <2>1, <2>2, <2>3 DEF TakeUnread, Ready, Goto
<1>2. Typed'
  BY <1>1 DEF Base, Typed, memory, story, Labels
<1>3. Form'
  BY <1>1, Bounds DEF Base, Typed, Form, Used, OpType, Unlinking, Sweeping, Putting,
     Giving, Answers, memory
<1> QED BY <1>1, <1>2, <1>3, FilesStay DEF Base, memory, story

\* A step that moves the data file away, or removes a claimed one.
LEMMA FilesMove == ASSUME Base, NEW s \in Share, pc \notin {"publish", "unlink_side", "unlink_data"},
                          pc' \notin {"publish", "staged"}, disk' \in [Share -> SUBSET File],
                          \A t \in Share \ {s} : disk'[t] = disk[t],
                          disk'[s] \cap {"side", "data", "data.part"} \subseteq disk[s],
                          "side" \in disk[s] => "side" \in disk'[s], Used(s),
                          UNCHANGED <<what, known, gone, opened, given, refused, unread>>,
                          owned' \subseteq owned \cup {s}, stuck \subseteq stuck',
                          \A t \in Share \ {s}, f \in File : <<t, f>> \in stuck' <=> <<t, f>> \in stuck
                   PROVE Fresh' /\ Publishing' /\ Whole' /\ Away'
<1>1. Fresh'
  BY DEF Base, Fresh, Untouched, Used
<1>2. Publishing' /\ Whole'
  BY DEF Base, Typed, Publishing, Whole
<1>3. Away'
  BY DEF Base, Typed, Away, Remains
<1> QED BY <1>1, <1>2, <1>3

LEMMA TakeBinaryBase == ASSUME Base, TakeBinary PROVE Base'
<1>1. /\ pc = "read" /\ up /\ opened /\ op.share \in Share /\ Used(op.share) /\ pc' = "chmod"
      /\ disk' = [disk EXCEPT ![op.share] = (@ \ {"data"}) \cup {"claimed"}]
      /\ op' = [op EXCEPT !.out = "claimed", !.then = "answer", !.now = clock]
      /\ UNCHANGED <<what, memory, up, opened, sweeping, owned, bounds, story>>
  BY DEF TakeBinary, Matches, Goto, Base, Form
<1>2. op' \in OpType
  BY <1>1 DEF Base, Typed, OpType, Labels, Outs
<1>3. disk' \in [Share -> SUBSET File]
  BY <1>1 DEF Base, Typed, File
<1>4. Typed'
  BY <1>1, <1>2, <1>3 DEF Base, Typed, memory, bounds, story, Labels
<1>5. Form'
  BY <1>1, <1>2 DEF Base, Typed, Form, Used, OpType, Unlinking, Sweeping, Putting, Giving, Answers, memory, bounds
<1>6. Fresh' /\ Publishing' /\ Whole' /\ Away'
  BY <1>1, <1>3, FilesMove DEF Base, Typed, memory, story
<1> QED BY <1>4, <1>5, <1>6 DEF Base

\* A claimed file is cleared away, or cannot be.
LEMMA Leaves == ASSUME Base, NEW s \in Share, Left(s, disk[s] \ {"claimed"})
                PROVE /\ disk' \in [Share -> SUBSET File] /\ disk'[s] \in {disk[s], disk[s] \ {"claimed"}}
                      /\ \A t \in Share \ {s} : disk'[t] = disk[t]
                      /\ stuck' \in SUBSET (Share \X File) /\ stuck \subseteq stuck'
                      /\ \A t \in Share, f \in File : <<t, f>> \in stuck' \ stuck =>
                            t = s /\ f = "claimed" /\ f \in disk'[s]
                      /\ "claimed" \in disk'[s] => <<s, "claimed">> \in stuck'
                      /\ disk'[s] \cap {"side", "data", "data.part"} = disk[s] \cap {"side", "data", "data.part"}
<1>1. PICK kept \in SUBSET (disk[s] \ (disk[s] \ {"claimed"})) :
         /\ disk' = [disk EXCEPT ![s] = (disk[s] \ {"claimed"}) \cup kept]
         /\ stuck' = stuck \cup ({s} \X kept)
  BY DEF Left
<1>2. kept \in {{}, {"claimed"} \cap disk[s]}
  OBVIOUS
<1>3. disk' \in [Share -> SUBSET File] /\ disk'[s] = (disk[s] \ {"claimed"}) \cup kept
      /\ \A t \in Share \ {s} : disk'[t] = disk[t]
  BY <1>1, <1>2 DEF Base, Typed
<1>4. kept \subseteq File
  BY <1>2 DEF Base, Typed
<1>5. stuck' \in SUBSET (Share \X File) /\ stuck \subseteq stuck'
  BY <1>1, <1>4 DEF Base, Typed
<1>6. \A t, f : <<t, f>> \in stuck' <=> <<t, f>> \in stuck \/ (t = s /\ f \in kept)
  BY <1>1
<1>7. CASE kept = {}
  BY <1>3, <1>5, <1>6, <1>7
<1>8. CASE kept = {"claimed"} /\ "claimed" \in disk[s]
  BY <1>3, <1>5, <1>6, <1>8
<1> QED BY <1>2, <1>7, <1>8

LEMMA ChmodFaultBase == ASSUME Base, ChmodFault PROVE Base'
<1>1. /\ pc = "chmod" /\ up /\ opened /\ op.share \in Share /\ Used(op.share) /\ pc' = "answer"
      /\ Left(op.share, disk[op.share] \ {"claimed"}) /\ op' = [op EXCEPT !.out = "error"]
      /\ faults' \in 0 .. MaxFaults
      /\ UNCHANGED <<what, memory, up, opened, sweeping, owned, clock, crashes, given, refused, unread>>
  BY ShareConstants DEF ChmodFault, Goto, Fault, Base, Typed, Form, Giving
<1>2. op' \in OpType
  BY <1>1 DEF Base, Typed, OpType, Outs
<1>3. Typed'
  BY <1>1, <1>2, Leaves DEF Base, Typed, memory, Labels
<1>4. Form'
  BY <1>1, <1>2 DEF Base, Typed, Form, Used, OpType, Unlinking, Sweeping, Putting, Giving, Answers, memory
<1>5. Fresh' /\ Publishing' /\ Whole' /\ Away'
  BY <1>1, Leaves, FilesMove DEF memory
<1> QED BY <1>3, <1>4, <1>5 DEF Base

LEMMA RemovedBase == ASSUME Base, Removed PROVE Base'
<1>1. /\ pc = "removed" /\ up /\ opened /\ op.share \in Share /\ Used(op.share) /\ op.then = "answer"
      /\ UNCHANGED <<what, memory, up, opened, sweeping, bounds, given, refused, unread>>
  BY DEF Removed, Goto, Base, Form, Giving
<1>2. CASE /\ Left(op.share, Compensated(op.share))
           /\ op' = [op EXCEPT !.out = "error"] /\ pc' = "answer" /\ UNCHANGED owned
  <2>0. Left(op.share, disk[op.share] \ {"claimed"})
    BY <1>2 DEF Compensated
  <2>1. op' \in OpType
    BY <1>1, <1>2 DEF Base, Typed, OpType, Outs
  <2>2. Typed'
    BY <1>1, <1>2, <2>0, <2>1, Leaves DEF Base, Typed, memory, bounds, Labels
  <2>3. Form'
    BY <1>1, <1>2, <2>1 DEF Base, Typed, Form, Used, OpType, Unlinking, Sweeping, Putting, Giving, Answers,
       memory, bounds
  <2>4. Fresh' /\ Publishing' /\ Whole' /\ Away'
    BY <1>1, <1>2, <2>0, Leaves, FilesMove DEF memory
  <2> QED BY <2>2, <2>3, <2>4 DEF Base
<1>3. CASE /\ owned' = IF op.out = "claimed" THEN owned \cup {op.share} ELSE owned
           /\ pc' = "sweep" /\ UNCHANGED <<disk, op, stuck>>
  <2>1. Typed'
    BY <1>1, <1>3 DEF Base, Typed, memory, bounds, Labels
  <2>2. Form'
    BY <1>1, <1>3 DEF Base, Typed, Form, Used, OpType, Unlinking, Sweeping, Putting, Giving, Answers,
       memory, bounds
  <2>3. Fresh' /\ Publishing' /\ Whole' /\ Away'
    BY <1>1, <1>3, FilesMove DEF Base, Typed, memory
  <2> QED BY <2>1, <2>2, <2>3 DEF Base
<1> QED BY <1>2, <1>3 DEF Removed, Goto

\* What staging a frame leaves.
LEMMA StagedFiles == ASSUME Base, StageDone
                     PROVE /\ disk' \in [Share -> SUBSET File] /\ \A t \in Share \ {op.share} : disk'[t] = disk[t]
                           /\ disk'[op.share] \subseteq Claims
                           /\ stuck' \in SUBSET (Share \X File) /\ stuck \subseteq stuck'
                           /\ \A t \in Share, f \in File : <<t, f>> \in stuck' \ stuck => t = op.share /\ f \in Claims
                           /\ \/ /\ disk'[op.share] = {"claimed"} /\ owned' = owned \cup {op.share} /\ stuck' = stuck
                              \/ /\ \A f \in disk'[op.share] : <<op.share, f>> \in stuck'
                                 /\ owned' = owned
<1>1. op.share \in Share
  BY DEF StageDone, Base, Form
<1>2. CASE /\ disk' = [disk EXCEPT ![op.share] = {"claimed"}]
           /\ owned' = owned \cup {op.share} /\ UNCHANGED stuck
  BY <1>1, <1>2 DEF Base, Typed, Claims, File
<1>3. CASE \E left \in {{}, {"claimed.part"}, {"claimed"}} :
              /\ disk' = [disk EXCEPT ![op.share] = left] /\ stuck' = stuck \cup ({op.share} \X left)
              /\ UNCHANGED owned
  <2>1. PICK left \in SUBSET Claims :
              /\ disk' = [disk EXCEPT ![op.share] = left] /\ stuck' = stuck \cup ({op.share} \X left)
              /\ UNCHANGED owned
    BY <1>3 DEF Claims
  <2>2. left \subseteq File
    BY <2>1 DEF Claims, File
  <2> QED BY <1>1, <2>1, <2>2 DEF Base, Typed
<1> QED BY <1>2, <1>3 DEF StageDone

LEMMA StageDoneBase == ASSUME Base, StageDone PROVE Base'
<1>1. /\ pc = "staged" /\ up /\ opened /\ op.share \in Share /\ pc' = "answer" /\ faults' \in 0 .. MaxFaults
      /\ disk' \in [Share -> SUBSET File] /\ \A t \in Share \ {op.share} : disk'[t] = disk[t]
      /\ disk'[op.share] \subseteq Claims /\ owned' \subseteq owned \cup {op.share} /\ owned' \subseteq Share
      /\ stuck' \in SUBSET (Share \X File) /\ stuck \subseteq stuck'
      /\ \A t \in Share \ {op.share}, f \in File : <<t, f>> \in stuck' <=> <<t, f>> \in stuck
      /\ UNCHANGED <<what, memory, up, opened, sweeping, op, clock, crashes, given, refused, unread>>
  <2>1. op.share \in Share /\ faults' \in 0 .. MaxFaults
    BY ShareConstants DEF StageDone, Fault, Base, Form, Typed
  <2> QED BY <2>1, StagedFiles DEF StageDone, Goto, Base, Typed, Form
<1>2. Used(op.share) /\ "side" \notin disk[op.share]
  BY <1>1 DEF Base, Publishing
<1>3. Typed'
  BY <1>1 DEF Base, Typed, memory, story, Labels
<1>4. Form'
  BY <1>1 DEF Base, Typed, Form, Used, OpType, Unlinking, Sweeping, Putting, Giving, Answers, memory
<1>5. Fresh' /\ Publishing' /\ Whole' /\ Away'
  BY <1>1, <1>2, FilesMove DEF memory, Claims
<1> QED BY <1>3, <1>4, <1>5 DEF Base

LEMMA StageWriteBase == ASSUME Base, StageWrite PROVE Base'
<1>1. /\ pc = "stage" /\ up /\ opened
      /\ UNCHANGED <<memory, up, opened, sweeping, owned, bounds, story>>
  BY DEF StageWrite, Base, Form
<1>2. CASE pc' = "answer" /\ UNCHANGED <<disk, what, op>>
  <2>1. Typed'
    BY <1>1, <1>2 DEF Base, Typed, memory, bounds, story, Labels
  <2>2. Form'
    BY <1>1, <1>2 DEF Base, Typed, Form, Used, OpType, Unlinking, Sweeping, Putting, Giving, Answers,
       memory, bounds
  <2> QED BY <1>1, <1>2, <2>1, <2>2, FilesStay DEF Base, memory, story
<1>3. CASE ~(pc' = "answer" /\ UNCHANGED <<disk, what, op>>)
  <2>1. PICK s \in Share : /\ ~Used(s) /\ \A t \in 1 .. s - 1 : Used(t)
                           /\ what' = [what EXCEPT ![s] = [Frame EXCEPT !.born = clock]]
                           /\ disk' = [disk EXCEPT ![s] = {"claimed.part"}]
                           /\ op' = [op EXCEPT !.share = s] /\ pc' = "staged"
    BY <1>3 DEF StageWrite, Goto
  <2> DEFINE w == [Frame EXCEPT !.born = clock]
  <2>2. w \in What /\ w # Nothing /\ w.key = NoKey
    BY Bounds DEF Frame, What, Nothing, Base, Typed
  <2>3. /\ what' \in [Share -> What] /\ what'[s] = w /\ \A t \in Share \ {s} : what'[t] = what[t]
    BY <2>1, <2>2 DEF Base, Typed
  <2> HIDE DEF w
  <2>4. op' \in OpType /\ op'.share = s
    BY <2>1 DEF Base, Typed, OpType
  <2>5. disk' \in [Share -> SUBSET File] /\ disk'[s] = {"claimed.part"} /\ \A t \in Share \ {s} : disk'[t] = disk[t]
    BY <2>1 DEF Base, Typed, File
  <2>6. Typed'
    BY <1>1, <2>1, <2>3, <2>4, <2>5 DEF Base, Typed, memory, bounds, story, Labels
  <2>7. Form'
    BY <1>1, <2>1, <2>4 DEF Base, Typed, Form, OpType, Unlinking, Sweeping, Putting, Giving, Answers,
       memory, bounds
  <2>8. /\ Untouched(s) /\ \A t \in Share : s < t => ~Used(t)
    BY <2>1 DEF Base, Fresh
  <2>9. Used(s)' /\ \A t \in Share \ {s} : Used(t)' <=> Used(t)
    BY <2>2, <2>3 DEF Used
  <2>10. Fresh'
    <3>1. \A t \in Share : ~Used(t)' => Untouched(t)'
      BY <1>1, <2>5, <2>9 DEF Base, Fresh, Untouched, memory, story
    <3>2. \A t, u \in Share : t < u /\ Used(u)' => Used(t)'
      <4>1. \A t \in Share : t < s => t \in 1 .. s - 1
        BY DEF Share
      <4> QED BY <2>1, <2>8, <2>9, <4>1 DEF Base, Fresh
    <3>3. \A t \in Share : Used(t)' => what'[t].session \in Session \/ what'[t].key = NoKey
      BY <2>2, <2>3, <2>9 DEF Base, Fresh
    <3> QED BY <3>1, <3>2, <3>3 DEF Fresh
  <2>11. Publishing'
    BY <1>1, <2>1, <2>4, <2>5, <2>8, <2>9 DEF Publishing, Untouched, memory, story
  <2>12. Whole' /\ Away'
    BY <1>1, <2>1, <2>5, <2>8 DEF Base, Whole, Away, Remains, Untouched, Typed, memory, story
  <2> QED BY <2>6, <2>7, <2>10, <2>11, <2>12 DEF Base
<1> QED BY <1>2, <1>3

LEMMA InitBase == Init => Base
<1> SUFFICES ASSUME Init PROVE Base
  OBVIOUS
<1>1. Nothing \in What
  BY Bounds DEF Nothing, What
<1>2. <<>> \in Seq(Gift) /\ Len(<<>>) = 0
  OBVIOUS
<1>3. Typed
  <2>1. /\ disk \in [Share -> SUBSET File] /\ what \in [Share -> What]
        /\ idem \in [IdemKeys -> Share \cup {NoShare}]
    BY <1>1 DEF Init
  <2>2. clock \in 0 .. MaxTime /\ crashes \in 0 .. MaxCrashes /\ faults \in 0 .. MaxFaults
    BY ShareConstants DEF Init
  <2>3. given \in Seq(Gift)
    BY <1>2 DEF Init
  <2> QED BY <2>1, <2>2, <2>3, Resting DEF Init, Typed, Labels
<1>4. Form
  BY Resting, Bounds DEF Init, Form, Used, Unlinking, Sweeping, Putting, Giving, Answers
<1>5. Fresh /\ Publishing /\ Whole /\ Away
  BY <1>2 DEF Init, Fresh, Used, Untouched, Publishing, Whole, Away
<1> QED BY <1>3, <1>4, <1>5 DEF Base

LEMMA StepBase == Base /\ [Next]_vars => Base'
<1> SUFFICES ASSUME Base, [Next]_vars PROVE Base'
  OBVIOUS
<1>1. CASE UNCHANGED vars
  BY <1>1 DEF vars, memory, bounds, story, Base, Typed, Form, Fresh, Untouched, Used, Publishing, Whole, Away,
     Remains, Unlinking, Sweeping, Putting, Giving, Answers
<1>2. CASE Call
  BY <1>2, BeginPutBase, BeginTakeBase, TakeUnreadBase, BeginSweepBase, BeginStageBase DEF Call
<1>3. CASE Proceed
  BY <1>3, UnlinkSidecarBase, UnlinkDataBase, SweepOneBase, SweepRestBase, SweepPastBase, AnswerBase, FoundAlreadyBase,
     FoundRemainsBase, NotFoundBase, QuotaRemainsBase, AllocateBase, PublishBase, PublishFaultBase,
     PublishedBase, NotThereBase, TakeExpiredBase, TakeMismatchBase, TakeTextBase, TakeBinaryBase,
     TakeFaultBase, ChmodBase, ChmodFaultBase, RemovedBase, StageWriteBase, StageDoneBase DEF Proceed
<1> QED BY <1>1, <1>2, <1>3, OpenBase, CrashBase, ClaimsGoBase, TickBase DEF Next

-----------------------------------------------------------------------------
(* What is live: the layer above Base.                                      *)

LEMMA CountedFinite == ASSUME NEW S \in SUBSET Share
                       PROVE IsFiniteSet(S) /\ Cardinality(S) \in Nat
<1>1. IsFiniteSet(Share)
  BY ShareConstants, FS_Interval DEF Share
<1>2. IsFiniteSet(S)
  BY <1>1, FS_Subset
<1> QED BY <1>2, FS_CardinalityType

LEMMA CardinalityFits == ASSUME NEW S \in SUBSET Share, NEW T \in SUBSET S, Cardinality(S) <= MaxLive
                         PROVE Cardinality(T) <= MaxLive
BY CountedFinite, FS_Subset, ShareConstants

\* A step that stores nothing and loads nothing of which there is no sidecar
\* counts no share that was not counted.
LEMMA CountedShrinks == ASSUME stuck \subseteq stuck', unread \subseteq unread', UNCHANGED what,
                               \A s \in Share : disk'[s] \cap {"side", "data"} \subseteq disk[s],
                               \A s \in known' : s \in known \/ "side" \in disk[s],
                               NEW session \in Session
                        PROVE Counted(session)' \subseteq Counted(session)
BY DEF Counted, Astray

LEMMA QuotaKept == ASSUME InQuota, \A session \in Session : Counted(session)' \subseteq Counted(session),
                          pc' # "publish" \/ (pc = "publish" /\ op'.share = op.share /\ op'.ask = op.ask),
                          Base, Base'
                   PROVE InQuota'
<1>1. \A session \in Session : Counted(session) \subseteq Share
  BY DEF Counted
<1>2. ASSUME NEW session \in Session PROVE Cardinality(Counted(session)') <= MaxLive
  BY <1>1, CardinalityFits DEF InQuota
<1>3. ASSUME pc' = "publish" PROVE (Cardinality(Counted(op.ask.session) \cup {op.share}) <= MaxLive)'
  <2>1. /\ pc = "publish" /\ op'.share = op.share /\ op'.ask = op.ask
        /\ op.share \in Share /\ op.ask.session \in Session
    BY <1>3 DEF Base, Form, Putting
  <2>2. PICK x \in Session : x = op.ask.session
    BY <2>1
  <2>3. Cardinality(Counted(x) \cup {op.share}) <= MaxLive
    BY <2>1, <2>2 DEF InQuota
  <2>4. Counted(x) \cup {op.share} \in SUBSET Share
    BY <1>1, <2>1
  <2>5. Counted(x)' \cup {op.share} \in SUBSET (Counted(x) \cup {op.share})
    OBVIOUS
  <2>6. Cardinality(Counted(x)' \cup {op.share}) <= MaxLive
    BY <2>3, <2>4, <2>5, CardinalityFits
  <2> QED BY <2>1, <2>2, <2>6 DEF Counted
<1> QED BY <1>2, <1>3 DEF InQuota

\* A step that stores and loads nothing: indexes lose what memory loses, and the
\* key that is asked for stays free.
LEMMA LiveKept == ASSUME Base, Base', Live, UNCHANGED <<what, unread>>, stuck \subseteq stuck', known' \subseteq known,
                         \A s \in Share : disk'[s] \cap {"side", "data"} \subseteq disk[s],
                         \A k \in IdemKeys : idem'[k] = IF idem[k] \in known' THEN idem[k] ELSE NoShare,
                         Asking' => (Asking /\ op'.ask = op.ask) \/ op'.ask.key = NoKey
                                    \/ idem'[<<op'.ask.session, op'.ask.key>>] = NoShare,
                         pc' # "publish" \/ (pc = "publish" /\ op'.share = op.share /\ op'.ask = op.ask)
                  PROVE Live'
<1>1. Indexed'
  BY DEF Live, Indexed, IdemKey
<1>2. InQuota'
  <2>1. \A session \in Session : Counted(session)' \subseteq Counted(session)
    BY CountedShrinks
  <2> QED BY <2>1, QuotaKept DEF Live
<1>3. Found'
  <2>1. ASSUME NEW s \in known', what[s].key # NoKey, "data" \in disk'[s], ~Astray(s)'
        PROVE idem'[IdemKey(s)] = s
    <3>1. s \in known /\ s \in Share /\ "data" \in disk[s] /\ ~Astray(s)
      BY <2>1 DEF Astray, Base, Typed
    <3>2. idem[IdemKey(s)] = s
      BY <2>1, <3>1 DEF Live, Found
    <3>3. IdemKey(s) \in IdemKeys
      <4>1. "side" \in disk[s]
        BY <3>1 DEF Base, Whole
      <4>2. what[s].session \in Session /\ what[s].key \in Key
        BY <2>1, <3>1, <4>1 DEF Base, Fresh, Untouched, Typed, What
      <4> QED BY <2>1, <4>2 DEF IdemKey, IdemKeys
    <3> QED BY <2>1, <3>2, <3>3
  <2>2. \A s, t \in Share : s < t /\ Used(t)' /\ what'[s].key # NoKey /\ IdemKey(s)' = IdemKey(t)' /\ Both(s)'
                            => Astray(s)'
    BY DEF Live, Found, Used, IdemKey, Both, Astray
  <2>3. Asking' /\ op'.ask.key # NoKey => idem'[AskKey'] = NoShare
    <3> SUFFICES ASSUME Asking, op'.ask = op.ask, op.ask.key # NoKey PROVE idem'[AskKey] = NoShare
      BY DEF AskKey
    <3>1. idem[AskKey] = NoShare
      BY DEF Live, Found
    <3>2. AskKey \in IdemKeys
      BY DEF Asking, Base, Form, Putting, Typed, OpType, AskType, AskKey, IdemKeys
    <3> QED BY <3>1, <3>2
  <2> QED BY <2>1, <2>2, <2>3 DEF Found, IdemKey
<1> QED BY <1>1, <1>2, <1>3 DEF Live

LEMMA LiveStays == ASSUME Base, Base', Live, UNCHANGED <<what, known, idem, unread>>, stuck \subseteq stuck',
                          \A s \in Share : disk'[s] \cap {"side", "data"} \subseteq disk[s],
                          Asking' => (Asking /\ op'.ask = op.ask) \/ op'.ask.key = NoKey
                                     \/ idem'[<<op'.ask.session, op'.ask.key>>] = NoShare,
                          pc' # "publish" \/ (pc = "publish" /\ op'.share = op.share /\ op'.ask = op.ask)
                   PROVE Live'
<1>1. NoShare \notin known
  BY Bounds DEF Base, Typed
<1>2. \A k \in IdemKeys : idem'[k] = IF idem[k] \in known' THEN idem[k] ELSE NoShare
  BY <1>1 DEF Live, Indexed
<1> QED BY <1>2, LiveKept

\* Steps that only move the call on, or handle claimed files.
LEMMA QuietLive == ASSUME Base, Base', Live,
                          \/ BeginSweep \/ BeginStage \/ (\E ask \in Asks : BeginPut(ask)) \/ TakeMismatch
                          \/ FoundAlready \/ NotFound \/ Answer \/ Tick \/ Restart \/ (\E s \in Share : JobEnds(s))
                          \/ TakeBinary \/ ChmodFault \/ Removed \/ StageDone \/ PublishFault
                   PROVE Live'
<1>1. CASE Restart \/ \E s \in Share : JobEnds(s)
  <2>1. \A s \in Share : disk'[s] \cap {"side", "data"} \subseteq disk[s]
    BY <1>1, ClaimsGo
  <2> QED BY <1>1, <2>1, ClaimsGo, LiveStays DEF memory, Asking, Unlinking
<1>2. CASE Tick
  BY <1>2, LiveStays DEF Tick, memory, story, Asking, Unlinking
<1>3. CASE NotFound
  <2>1. op.ask.key = NoKey \/ idem[<<op.ask.session, op.ask.key>>] = NoShare
    BY <1>3 DEF NotFound, Keyed, AskKey
  <2> QED BY <1>3, <2>1, LiveStays DEF NotFound, Goto, memory, story
<1>4. CASE \/ BeginSweep \/ BeginStage \/ (\E ask \in Asks : BeginPut(ask)) \/ TakeMismatch
           \/ FoundAlready \/ Answer
  <2>1. UNCHANGED <<disk, what, known, idem, stuck, unread>> /\ pc' \in {"sweep", "answer", "idle"}
    BY <1>4 DEF BeginSweep, BeginStage, BeginPut, TakeMismatch, FoundAlready, Answer, Sweep, Goto, memory, story
  <2> QED BY <2>1, LiveStays DEF Asking, Unlinking
<1>5. CASE TakeBinary \/ ChmodFault \/ Removed \/ StageDone \/ PublishFault
  <2>1. UNCHANGED <<what, known, idem, unread>> /\ pc' \in {"chmod", "sweep", "answer"}
    BY <1>5 DEF TakeBinary, ChmodFault, Removed, StageDone, PublishFault, Goto, memory, story
  <2>2. stuck \subseteq stuck'
    BY <1>5 DEF TakeBinary, ChmodFault, Removed, StageDone, PublishFault, Left, story
  <2>3. \A s \in Share : disk'[s] \cap {"side", "data"} \subseteq disk[s]
    BY <1>5 DEF TakeBinary, ChmodFault, Removed, StageDone, PublishFault, Left, Compensated, Unpublished,
       Base, Typed
  <2> QED BY <2>1, <2>2, <2>3, LiveStays DEF Asking, Unlinking
<1> QED BY <1>1, <1>2, <1>3, <1>4, <1>5

\* Forgetting a share frees its key.
LEMMA ForgetLive == ASSUME Base, Base', Live, NEW s, Forget(s), UNCHANGED <<disk, what, stuck, unread>>,
                           pc' = "unlink_side", op'.next = "quota" => Asking /\ op'.ask = op.ask
                    PROVE Live'
<1>1. NoShare \notin known
  BY Bounds DEF Base, Typed
<1>2. known' \subseteq known /\ \A k \in IdemKeys : idem'[k] = IF idem[k] \in known' THEN idem[k] ELSE NoShare
  BY <1>1 DEF Forget, Live, Indexed
<1> QED BY <1>2, LiveKept DEF Asking, Unlinking

LEMMA DroppingLive == ASSUME Base, Base', Live,
                             SweepOne \/ QuotaRemains \/ NotThere \/ TakeExpired \/ TakeText \/ Chmod
                      PROVE Live'
<1>1. CASE SweepOne \/ NotThere \/ TakeExpired \/ TakeText \/ Chmod
  <2>1. /\ \E s \in Share \cup {op.share} : Forget(s)
        /\ pc' = "unlink_side" /\ op'.next \in {"sweep", "removed"}
        /\ UNCHANGED <<disk, what, stuck, unread>>
    BY <1>1 DEF SweepOne, NotThere, TakeExpired, TakeText, Chmod, Remove, Goto, story, Base, Typed, OpType
  <2> QED BY <2>1, ForgetLive
<1>2. CASE QuotaRemains
  <2>1. /\ \E s \in known : Forget(s)
        /\ pc = "quota" /\ pc' = "unlink_side" /\ op'.ask = op.ask
        /\ UNCHANGED <<disk, what, stuck, unread>>
    BY <1>2 DEF QuotaRemains, Remove, Goto, story, Base, Typed, OpType
  <2> QED BY <2>1, ForgetLive DEF Asking
<1> QED BY <1>1, <1>2

LEMMA FoundRemainsLive == ASSUME Base, Base', Live, FoundRemains PROVE Live'
<1>1. /\ pc' = "unlink_side" /\ op'.ask = op.ask /\ UNCHANGED <<disk, what, stuck, unread>>
      /\ known' = known \ {Keyed} /\ idem' = [idem EXCEPT ![AskKey] = NoShare]
  BY DEF FoundRemains, Goto, story, Base, Typed, OpType
<1>2. pc = "lookup" /\ op.ask.session \in Session /\ op.ask \in AskType /\ Keyed # NoShare
  BY DEF FoundRemains, Base, Form, Putting, Typed, OpType
<1>3. AskKey \in IdemKeys /\ Keyed = idem[AskKey] /\ AskKey = <<op.ask.session, op.ask.key>>
  BY <1>2 DEF Keyed, AskType, AskKey, IdemKeys
<1>4. NoShare \notin known
  BY Bounds DEF Base, Typed
<1>5. \A k \in IdemKeys : idem'[k] = IF idem[k] \in known' THEN idem[k] ELSE NoShare
  BY <1>1, <1>2, <1>3, <1>4 DEF Live, Indexed, Base, Typed
<1>6. idem'[<<op'.ask.session, op'.ask.key>>] = NoShare
  BY <1>1, <1>3 DEF Base, Typed
<1> QED BY <1>1, <1>5, <1>6, LiveKept

LEMMA TakeFaultLive == ASSUME Base, Base', Live, TakeFault PROVE Live'
<1>1. UNCHANGED <<disk, what, stuck, unread>>
  BY DEF TakeFault, story
<1>2. CASE Forget(op.share) /\ pc' = "unlink_side" /\ op'.next = "answer"
  BY <1>1, <1>2, ForgetLive
<1>3. CASE pc' = "answer" /\ UNCHANGED <<known, idem>>
  BY <1>1, <1>3, LiveStays DEF Asking, Unlinking
<1> QED BY <1>2, <1>3 DEF TakeFault, Remove, Goto, Base, Typed, OpType

LEMMA UnlinkLive == ASSUME Base, Base', Live, UnlinkSidecar \/ UnlinkData PROVE Live'
<1>1. PICK file \in {"side", "data"}, last \in BOOLEAN :
         /\ Unlink(file, last) /\ pc \in {"unlink_side", "unlink_data"}
         /\ pc' = "unlink_data" \/ pc' = op.next
  BY DEF UnlinkSidecar, UnlinkData, Goto
<1>2. /\ op'.ask = op.ask /\ op'.next = op.next /\ stuck \subseteq stuck'
      /\ \A s \in Share : disk'[s] \subseteq disk[s]
      /\ UNCHANGED <<what, known, idem, unread>>
  <2>1. /\ op'.ask = op.ask /\ op'.next = op.next /\ stuck \subseteq stuck'
        /\ \A s \in Share : disk'[s] \subseteq disk[s]
    BY <1>1, UnlinkStep DEF Base, Typed, OpType
  <2> QED BY <1>1, <2>1 DEF Unlink, memory
<1>3. op.next \in {"sweep", "quota", "removed", "answer"}
  BY <1>1 DEF Base, Form
<1> QED BY <1>1, <1>2, <1>3, LiveStays DEF Asking, Unlinking

LEMMA SweepRestLive == ASSUME Base, Base', Live, SweepRest PROVE Live'
<1>1. /\ op' = op /\ pc' = op.then /\ op.then \in {"idle", "lookup", "stage", "answer"} /\ known' \subseteq known
      /\ UNCHANGED <<what, unread>>
  BY DEF SweepRest, Goto, Base, Form
<1>2. NoShare \notin known
  BY Bounds DEF Base, Typed
<1>3. \A k \in IdemKeys : idem'[k] = IF idem[k] \in known' THEN idem[k] ELSE NoShare
  BY <1>2 DEF SweepRest, Live, Indexed
<1> QED BY <1>1, <1>3, SweptFiles, LiveKept DEF Asking, Unlinking

LEMMA SweepPastLive == ASSUME Base, Base', Live, SweepPast PROVE Live'
<1>1. /\ pc' = op.then /\ op.then \in {"idle", "lookup", "stage", "answer"}
      /\ UNCHANGED <<what, stuck, unread>>
  BY DEF SweepPast, Goto, story, Base, Form
<1>2. NoShare \notin known
  BY Bounds DEF Base, Typed
<1>3. /\ known' \subseteq known /\ \A s \in Share : disk'[s] \subseteq disk[s]
      /\ \A k \in IdemKeys : idem'[k] = IF idem[k] \in known' THEN idem[k] ELSE NoShare
  BY <1>2, PastFiles DEF Live, Indexed
<1> QED BY <1>1, <1>3, LiveKept DEF Asking, Unlinking

LEMMA TakeUnreadLive == ASSUME Base, Base', Live, NEW s \in Share, NEW session \in Session, TakeUnread(s, session)
                        PROVE Live'
<1>1. pc' = "read" /\ UNCHANGED <<disk, what, known, idem, stuck, unread>>
  BY DEF TakeUnread, Goto, memory, story
<1> QED BY <1>1, LiveStays DEF Asking, Unlinking

LEMMA CrashLive == ASSUME Base, Base', Live, Crash PROVE Live'
<1>1. /\ pc' = "idle" /\ known' = {} /\ idem' = [k \in IdemKeys |-> NoShare]
      /\ UNCHANGED <<disk, what, stuck, unread>>
  BY DEF Crash, Goto, story
<1> QED BY <1>1, LiveKept DEF Asking, Unlinking

\* The key of a share with a sidecar, when it has one.
LEMMA KeyOf == ASSUME Base, NEW s \in Share, "side" \in disk[s], what[s].key # NoKey
               PROVE Used(s) /\ IdemKey(s) \in IdemKeys
<1>1. Used(s)
  BY DEF Base, Fresh, Untouched
<1>2. what[s].session \in Session /\ what[s].key \in Key
  BY <1>1 DEF Base, Fresh, Typed, What
<1> QED BY <1>1, <1>2 DEF IdemKey, IdemKeys

LEMMA OpenLive == ASSUME Base, Base', Live, Open PROVE Live'
<1>0. PICK skipped \in SUBSET Sidecars :
         /\ known' = Sidecars \ skipped /\ unread' = unread \cup skipped
         /\ idem' = [k \in IdemKeys |-> Youngest(LoadedFor(k) \ skipped)]
  BY DEF Open
<1>1. pc' = "sweep" /\ UNCHANGED <<disk, what, stuck>>
  BY DEF Open, Sweep, Goto
<1>2. \A k \in IdemKeys : /\ LoadedFor(k) \ skipped \in SUBSET Share
                          /\ LoadedFor(k) \ skipped = {s \in known' : IdemKey(s) = k}
  BY <1>0 DEF LoadedFor, Sidecars
<1>3. Indexed'
  <2> SUFFICES ASSUME NEW k \in IdemKeys, idem'[k] # NoShare
               PROVE idem'[k] \in known' /\ IdemKey(idem'[k]) = k
    BY <1>1 DEF Indexed, IdemKey
  <2>1. idem'[k] = Youngest(LoadedFor(k) \ skipped)
    BY <1>0
  <2>2. idem'[k] \in LoadedFor(k) \ skipped
    BY <1>2, <2>1, YoungestIs
  <2> QED BY <1>0, <2>2 DEF LoadedFor
<1>4. InQuota'
  <2>1. \A session \in Session : Counted(session)' \subseteq Counted(session)
    BY <1>0, <1>1, CountedShrinks DEF Sidecars
  <2> QED BY <1>1, <2>1, QuotaKept DEF Live
<1>5. Found'
  <2>1. ASSUME NEW s \in known', what[s].key # NoKey, "data" \in disk[s], ~Astray(s)'
        PROVE idem'[IdemKey(s)] = s
    <3>1. s \in Share /\ "side" \in disk[s] /\ ~Astray(s)
      BY <1>0, <1>1, <2>1 DEF Sidecars, Astray
    <3>2. IdemKey(s) \in IdemKeys
      BY <2>1, <3>1, KeyOf
    <3>3. PICK y : y = Youngest(LoadedFor(IdemKey(s)) \ skipped)
      OBVIOUS
    <3>4. s \in LoadedFor(IdemKey(s)) \ skipped /\ LoadedFor(IdemKey(s)) \ skipped \in SUBSET Share
      BY <1>2, <2>1, <3>1, <3>2
    <3>5. y \in LoadedFor(IdemKey(s)) \ skipped /\ s <= y
      BY <3>3, <3>4, YoungestIs
    <3>6. y \in Share /\ "side" \in disk[y] /\ IdemKey(y) = IdemKey(s) /\ what[y].key # NoKey
      BY <2>1, <3>5 DEF LoadedFor, Sidecars, IdemKey
    <3>7. Used(y)
      BY <3>6, KeyOf
    <3>8. y = s
      <4> SUFFICES ASSUME s < y PROVE FALSE
        BY <3>1, <3>5, <3>6 DEF Share
      <4> QED BY <2>1, <3>1, <3>6, <3>7 DEF Live, Found, Both
    <3> QED BY <1>0, <3>2, <3>3, <3>8
  <2>2. \A s, t \in Share : s < t /\ Used(t)' /\ what'[s].key # NoKey /\ IdemKey(s)' = IdemKey(t)' /\ Both(s)'
                            => Astray(s)'
    BY <1>0, <1>1 DEF Live, Found, Used, IdemKey, Both, Astray
  <2>3. ~Asking'
    BY <1>1 DEF Asking, Unlinking
  <2> QED BY <1>1, <2>1, <2>2, <2>3 DEF Found, IdemKey
<1> QED BY <1>3, <1>4, <1>5 DEF Live

LEMMA BeginTakeLive == ASSUME Base, Base', Live, NEW s \in Share, NEW session \in Session, BeginTake(s, session)
                       PROVE Live'
<1>1. /\ pc = "idle" /\ opened /\ pc' \in {"sweep", "read"} /\ UNCHANGED <<disk, what, stuck, unread>>
  BY DEF BeginTake, Ready, Sweep, Goto, story
<1>2. CASE UNCHANGED <<known, idem>>
  BY <1>1, <1>2, LiveStays DEF Asking, Unlinking
<1>3. CASE s \notin known /\ "side" \in disk[s] /\ LoadSidecar(s)
  <2>1. known' = known \cup {s}
    BY <1>3 DEF LoadSidecar
  <2>2. what[s].key # NoKey => IdemKey(s) \in IdemKeys /\ Used(s)
    BY <1>3, KeyOf
  <2>3. "data" \notin disk[s] \/ Astray(s)
    BY <1>1, <1>3 DEF Base, Away, Remains, Astray
  <2>4. PICK c : c = idem[IdemKey(s)]
    OBVIOUS
  <2>5. \/ idem' = idem /\ (what[s].key = NoKey \/ (c \in known /\ ~(c <= s)))
        \/ /\ what[s].key # NoKey /\ idem' = [idem EXCEPT ![IdemKey(s)] = s]
           /\ c \in known => c <= s
    BY <1>3, <2>4 DEF LoadSidecar
  <2>6. Indexed'
    <3> SUFFICES ASSUME NEW k \in IdemKeys, idem'[k] # NoShare PROVE idem'[k] \in known' /\ IdemKey(idem'[k]) = k
      BY <1>1 DEF Indexed, IdemKey
    <3>1. idem'[k] = idem[k] \/ (idem'[k] = s /\ k = IdemKey(s))
      BY <2>2, <2>5 DEF Base, Typed
    <3> QED BY <2>1, <3>1 DEF Live, Indexed
  <2>7. InQuota'
    <3>1. \A x \in Session : Counted(x)' \subseteq Counted(x)
      BY <1>1, <1>3, <2>1, CountedShrinks
    <3> QED BY <1>1, <3>1, QuotaKept DEF Live
  <2>8. ASSUME NEW t \in known', what[t].key # NoKey, "data" \in disk[t], ~Astray(t)
        PROVE idem'[IdemKey(t)] = t
    <3>1. t \in known /\ t # s /\ t \in Share /\ idem[IdemKey(t)] = t
      BY <1>3, <2>1, <2>3, <2>8 DEF Live, Found, Base, Typed
    <3>2. "side" \in disk[t]
      BY <3>1 DEF Base, Whole
    <3>3. IdemKey(t) \in IdemKeys
      BY <2>8, <3>1, <3>2, KeyOf
    <3>4. ASSUME IdemKey(t) = IdemKey(s), idem' # idem PROVE FALSE
      <4>1. c = t /\ t <= s /\ t < s
        BY <2>4, <2>5, <3>1, <3>4 DEF Share
      <4>2. what[s].key # NoKey
        BY <2>5, <3>4
      <4> QED BY <2>2, <2>8, <3>1, <3>2, <3>4, <4>1, <4>2 DEF Live, Found, Both
    <3> QED BY <2>5, <3>1, <3>3, <3>4 DEF Base, Typed
  <2>9. \A t, u \in Share : t < u /\ Used(u)' /\ what'[t].key # NoKey /\ IdemKey(t)' = IdemKey(u)' /\ Both(t)'
                            => Astray(t)'
    BY <1>1 DEF Live, Found, Used, IdemKey, Both, Astray
  <2>10. Found'
    BY <1>1, <2>8, <2>9 DEF Found, IdemKey, Astray, Asking, Unlinking
  <2> QED BY <2>6, <2>7, <2>10 DEF Live
<1> QED BY <1>2, <1>3 DEF BeginTake, LoadSidecar

LEMMA FreshSharesLive == ASSUME Base, Base', Live, NEW s \in Share, ~Used(s), Used(s)',
                                \A t \in Share \ {s} : what'[t] = what[t] /\ disk'[t] = disk[t],
                                UNCHANGED <<known, idem, stuck, unread>>, "data" \notin disk'[s],
                                what'[s].key = NoKey \/ \A t \in Share : ~(Both(t) /\ ~Astray(t) /\ IdemKey(t) = IdemKey(s)')
                         PROVE /\ Indexed' /\ \A session \in Session : Counted(session)' \subseteq Counted(session)
                               /\ (Asking' /\ op'.ask.key # NoKey => idem'[AskKey'] = NoShare) => Found'
<1>1. s \notin known /\ \A t \in Share : s < t => ~Used(t)
  BY DEF Base, Fresh, Untouched
<1>2. known \subseteq Share /\ NoShare \notin Share
  BY Bounds DEF Base, Typed
<1>3. Indexed'
  BY <1>1, <1>2 DEF Live, Indexed, IdemKey
<1>4. \A session \in Session : Counted(session)' \subseteq Counted(session)
  BY DEF Counted, Astray
<1>5. \A t \in known' : what'[t].key # NoKey /\ "data" \in disk'[t] /\ ~Astray(t)' => idem'[IdemKey(t)'] = t
  BY <1>1, <1>2 DEF Live, Found, IdemKey, Astray
<1>6. ASSUME NEW t \in Share, NEW u \in Share, t < u, Used(u)', what'[t].key # NoKey, IdemKey(t)' = IdemKey(u)', Both(t)'
      PROVE Astray(t)'
  <2>1. t # s
    BY <1>6 DEF Both
  <2>2. what'[t] = what[t] /\ disk'[t] = disk[t] /\ Both(t)
    BY <1>6, <2>1 DEF Both
  <2>3. CASE u = s
    BY <1>6, <2>2, <2>3 DEF IdemKey, Astray
  <2>4. CASE u # s
    BY <1>6, <2>2, <2>4 DEF Live, Found, IdemKey, Astray, Used
  <2> QED BY <2>3, <2>4
<1> QED BY <1>3, <1>4, <1>5, <1>6 DEF Found, IdemKey, AskKey

LEMMA StageWriteLive == ASSUME Base, Base', Live, StageWrite PROVE Live'
<1>1. CASE pc' = "answer" /\ UNCHANGED <<disk, what, op>>
  BY <1>1, LiveStays DEF StageWrite, memory, story, Asking, Unlinking
<1>2. CASE ~(pc' = "answer" /\ UNCHANGED <<disk, what, op>>)
  <2>1. PICK s \in Share : /\ ~Used(s) /\ what' = [what EXCEPT ![s] = [Frame EXCEPT !.born = clock]]
                           /\ disk' = [disk EXCEPT ![s] = {"claimed.part"}] /\ pc' = "staged"
    BY <1>2 DEF StageWrite, Goto
  <2>2. what'[s].key = NoKey /\ Used(s)' /\ "data" \notin disk'[s]
    BY <2>1, Bounds DEF Base, Typed, Used, Frame, Nothing
  <2>3. UNCHANGED <<known, idem, stuck, unread>>
    BY DEF StageWrite, memory, story
  <2>4. \A t \in Share \ {s} : what'[t] = what[t] /\ disk'[t] = disk[t]
    BY <2>1 DEF Base, Typed
  <2>5. ~Asking'
    BY <2>1 DEF Asking, Unlinking
  <2>6. Indexed' /\ (\A session \in Session : Counted(session)' \subseteq Counted(session)) /\ Found'
    BY <2>1, <2>2, <2>3, <2>4, <2>5, FreshSharesLive
  <2> QED BY <2>1, <2>6, QuotaKept DEF Live
<1> QED BY <1>1, <1>2

LEMMA AllocateLive == ASSUME Base, Base', Live, Allocate PROVE Live'
<1>1. /\ pc = "quota" /\ opened /\ op.ask.session \in Session /\ op.ask \in AskType
      /\ UNCHANGED <<disk, known, idem, stuck, unread>>
  BY DEF Allocate, Base, Form, Putting, Typed, OpType, memory, story
<1>2. CASE op' = [op EXCEPT !.out = "quota"] /\ pc' = "answer" /\ UNCHANGED what
  BY <1>1, <1>2, LiveStays DEF Asking, Unlinking
<1>3. CASE ~(op' = [op EXCEPT !.out = "quota"] /\ pc' = "answer" /\ UNCHANGED what)
  <2>1. PICK s \in Share : /\ ~Used(s) /\ ~OverQuota(op.ask.session)
                           /\ what' = [what EXCEPT ![s] = [op.ask EXCEPT !.born = op.now]]
                           /\ op' = [op EXCEPT !.share = s, !.step = 1] /\ pc' = "publish"
    BY <1>3 DEF Allocate, Goto
  <2>2. /\ what'[s].key = op.ask.key /\ what'[s].session = op.ask.session /\ Used(s)' /\ disk[s] = {}
        /\ IdemKey(s)' = AskKey /\ op'.share = s /\ op'.ask = op.ask
    <3>1. what'[s] = [op.ask EXCEPT !.born = op.now]
      BY <2>1 DEF Base, Typed
    <3>2. what'[s].key = op.ask.key /\ what'[s].session = op.ask.session
      BY <1>1, <3>1 DEF AskType
    <3>3. Used(s)'
      BY <1>1, <3>2, Bounds DEF Used, Nothing
    <3>4. op'.share = s /\ op'.ask = op.ask
      BY <2>1 DEF Base, Typed, OpType
    <3> QED BY <2>1, <3>2, <3>3, <3>4 DEF IdemKey, AskKey, Base, Fresh, Untouched
  <2>3. \A t \in Share : "side" \in disk[t] /\ t \notin known /\ "data" \in disk[t] => Astray(t)
    BY <1>1 DEF Base, Away, Remains, Astray
  <2>4. op.ask.key # NoKey => \A t \in Share : ~(Both(t) /\ ~Astray(t) /\ IdemKey(t) = AskKey)
    <3> SUFFICES ASSUME op.ask.key # NoKey, NEW t \in Share, Both(t), ~Astray(t), IdemKey(t) = AskKey PROVE FALSE
      OBVIOUS
    <3>1. t \in known
      BY <2>3 DEF Both
    <3>2. what[t].key = op.ask.key
      BY DEF IdemKey, AskKey
    <3>3. idem[AskKey] = t
      BY <3>1, <3>2 DEF Live, Found, Both
    <3>4. idem[AskKey] = NoShare
      BY <1>1 DEF Live, Found, Asking
    <3> QED BY <3>3, <3>4, Bounds
  <2>5. \A t \in Share \ {s} : what'[t] = what[t]
    BY <2>1 DEF Base, Typed
  <2>6. op'.ask.key # NoKey => idem'[AskKey'] = NoShare
    BY <1>1, <2>2 DEF Live, Found, Asking, AskKey
  <2>7. Indexed' /\ (\A session \in Session : Counted(session)' \subseteq Counted(session)) /\ Found'
    BY <1>1, <2>1, <2>2, <2>4, <2>5, <2>6, FreshSharesLive
  <2>8. PICK x \in Session : x = op.ask.session
    BY <1>1
  <2>9. Cardinality(Counted(x)' \cup {s}) <= MaxLive
    <3>1. Counted(x) \subseteq LiveOf(x)
      BY <2>3 DEF Counted, LiveOf
    <3>2. LiveOf(x) \in SUBSET Share /\ s \notin LiveOf(x)
      BY <2>1 DEF LiveOf, Base, Typed, Fresh, Untouched
    <3>3. IsFiniteSet(LiveOf(x)) /\ Cardinality(LiveOf(x)) \in Nat
      BY <3>2, CountedFinite
    <3>4. Cardinality(LiveOf(x)) < MaxLive
      BY <2>1, <2>8, <3>3, ShareConstants DEF OverQuota
    <3>5. Cardinality(LiveOf(x) \cup {s}) = Cardinality(LiveOf(x)) + 1
      BY <3>2, <3>3, FS_AddElement
    <3>6. Cardinality(LiveOf(x) \cup {s}) <= MaxLive
      BY <3>3, <3>4, <3>5, ShareConstants
    <3>7. LiveOf(x) \cup {s} \in SUBSET Share /\ Counted(x)' \cup {s} \in SUBSET (LiveOf(x) \cup {s})
      BY <2>7, <3>1, <3>2
    <3> QED BY <3>6, <3>7, CardinalityFits
  <2>10. InQuota'
    <3>1. \A session \in Session : Cardinality(Counted(session)') <= MaxLive
      <4> SUFFICES ASSUME NEW session \in Session PROVE Cardinality(Counted(session)') <= MaxLive
        OBVIOUS
      <4>1. Counted(session) \in SUBSET Share /\ Counted(session)' \in SUBSET Counted(session)
        BY <2>7 DEF Counted
      <4> QED BY <4>1, CardinalityFits DEF Live, InQuota
    <3> QED BY <2>2, <2>8, <2>9, <3>1 DEF InQuota, Counted
  <2> QED BY <2>7, <2>10 DEF Live
<1> QED BY <1>2, <1>3

LEMMA PublishLive == ASSUME Base, Base', Live, Publish PROVE Live'
<1>1. /\ pc = "publish" /\ op.share \in Share /\ op.share \notin known
      /\ op'.share = op.share /\ op'.ask = op.ask
      /\ what[op.share].session = op.ask.session /\ op.ask.session \in Session
      /\ \A t \in Share : op.share < t => ~Used(t)
      /\ UNCHANGED <<what, known, idem, stuck, unread>>
  BY WrittenFiles DEF Base, Form, Publishing, Putting, Typed, OpType, memory, story
<1>2. \A s \in Share \ {op.share} : disk'[s] = disk[s]
  BY WrittenFiles
<1>3. Indexed'
  BY <1>1 DEF Live, Indexed, IdemKey
<1>4. \A s \in known' : what'[s].key # NoKey /\ "data" \in disk'[s] /\ ~Astray(s)' => idem'[IdemKey(s)'] = s
  BY <1>1, <1>2 DEF Live, Found, IdemKey, Astray, Base, Typed
<1>5. \A s, t \in Share : s < t /\ Used(t)' /\ what'[s].key # NoKey /\ IdemKey(s)' = IdemKey(t)' /\ Both(s)'
                          => Astray(s)'
  BY <1>1, <1>2 DEF Live, Found, Used, IdemKey, Both, Astray
<1>6. Found'
  BY <1>1, <1>4, <1>5 DEF Found, IdemKey, Live, Asking, AskKey, Unlinking
<1>7. PICK x \in Session : x = op.ask.session
  BY <1>1
<1>8. Cardinality(Counted(x)' \cup {op.share}) <= MaxLive
  <2>1. Counted(x)' \cup {op.share} \in SUBSET (Counted(x) \cup {op.share})
    BY <1>1, <1>2 DEF Counted, Astray
  <2>2. Counted(x) \cup {op.share} \in SUBSET Share
    BY <1>1 DEF Counted
  <2>3. Cardinality(Counted(x) \cup {op.share}) <= MaxLive
    BY <1>1, <1>7 DEF Live, InQuota
  <2> QED BY <2>1, <2>2, <2>3, CardinalityFits
<1>9. ASSUME NEW y \in Session PROVE Cardinality(Counted(y)') <= MaxLive
  <2>1. CASE y = x
    <3>1. Counted(x)' \cup {op.share} \in SUBSET Share /\ Counted(x)' \in SUBSET (Counted(x)' \cup {op.share})
      BY <1>1 DEF Counted
    <3> QED BY <1>8, <2>1, <3>1, CardinalityFits
  <2>2. CASE y # x
    <3>1. Counted(y)' \in SUBSET Counted(y) /\ Counted(y) \in SUBSET Share
      BY <1>1, <1>2, <1>7, <2>2 DEF Counted, Astray
    <3>2. Cardinality(Counted(y)) <= MaxLive
      BY DEF Live, InQuota
    <3> QED BY <3>1, <3>2, CardinalityFits
  <2> QED BY <2>1, <2>2
<1>10. InQuota'
  BY <1>1, <1>7, <1>8, <1>9 DEF InQuota, Counted
<1> QED BY <1>3, <1>6, <1>10 DEF Live

LEMMA PublishedLive == ASSUME Base, Base', Live, Published PROVE Live'
<1>1. /\ pc = "publish" /\ pc' = "answer" /\ op.share \in Share /\ op.share \notin known
      /\ what[op.share].key = op.ask.key /\ what[op.share].session = op.ask.session
      /\ disk[op.share] = {"data", "side"} /\ known' = known \cup {op.share}
      /\ idem' = IF op.ask.key = NoKey THEN idem ELSE [idem EXCEPT ![AskKey] = op.share]
      /\ UNCHANGED <<disk, what, stuck, unread>>
  BY DEF Published, Goto, Base, Form, Publishing, story
<1>2. AskKey = IdemKey(op.share) /\ "side" \in disk[op.share]
  BY <1>1 DEF AskKey, IdemKey
<1>3. op.ask.key # NoKey => AskKey \in IdemKeys /\ idem[AskKey] = NoShare
  BY <1>1, <1>2, KeyOf DEF Live, Found, Asking
<1>4. NoShare \notin Share
  BY Bounds
<1>5. Indexed'
  BY <1>1, <1>2, <1>3 DEF Live, Indexed, IdemKey, Base, Typed
<1>6. InQuota'
  <2>1. \A x \in Session : Counted(x)' \subseteq Counted(x)
    BY <1>1, CountedShrinks
  <2> QED BY <1>1, <2>1, QuotaKept DEF Live
<1>7. ASSUME NEW s \in known', what[s].key # NoKey, "data" \in disk[s], ~Astray(s)
      PROVE idem'[IdemKey(s)] = s
  <2>1. CASE s = op.share
    BY <1>1, <1>2, <1>3, <1>7, <2>1 DEF Base, Typed
  <2>2. CASE s # op.share
    <3>1. s \in known /\ s \in Share /\ idem[IdemKey(s)] = s
      BY <1>1, <1>7, <2>2 DEF Live, Found, Base, Typed
    <3>2. IdemKey(s) \in IdemKeys
      BY <1>7, <3>1, KeyOf DEF Base, Whole
    <3>3. op.ask.key # NoKey => IdemKey(s) # AskKey
      BY <1>3, <1>4, <3>1
    <3> QED BY <1>1, <3>1, <3>2, <3>3 DEF Base, Typed
  <2> QED BY <2>1, <2>2
<1>8. \A s, t \in Share : s < t /\ Used(t)' /\ what'[s].key # NoKey /\ IdemKey(s)' = IdemKey(t)' /\ Both(s)'
                          => Astray(s)'
  BY <1>1 DEF Live, Found, Used, IdemKey, Both, Astray
<1>9. Found'
  BY <1>1, <1>7, <1>8 DEF Found, IdemKey, Astray, Asking, Unlinking
<1> QED BY <1>5, <1>6, <1>9 DEF Live

LEMMA InitLive == Init => Live
<1> SUFFICES ASSUME Init PROVE Live
  OBVIOUS
<1>1. Indexed /\ Found
  BY DEF Init, Indexed, Found, Asking, Unlinking, Both
<1>2. \A x \in Session : Counted(x) = {}
  BY DEF Init, Counted
<1>3. Cardinality({}) = 0
  BY FS_EmptySet
<1>4. pc # "publish" /\ MaxLive \in Nat
  BY ShareConstants DEF Init
<1>5. InQuota
  BY <1>2, <1>3, <1>4 DEF InQuota
<1> QED BY <1>1, <1>5 DEF Live

LEMMA StepLive == Base /\ Base' /\ Live /\ [Next]_vars => Live'
<1> SUFFICES ASSUME Base, Base', Live, [Next]_vars PROVE Live'
  OBVIOUS
<1>1. CASE UNCHANGED vars
  BY <1>1, LiveStays DEF vars, memory, bounds, story, Asking, Unlinking
<1>2. CASE Call
  BY <1>2, QuietLive, BeginTakeLive, TakeUnreadLive DEF Call
<1>3. CASE Proceed
  BY <1>3, QuietLive, DroppingLive, UnlinkLive, SweepRestLive, SweepPastLive, FoundRemainsLive, AllocateLive, PublishLive,
     PublishedLive, TakeFaultLive, StageWriteLive DEF Proceed
<1> QED BY <1>1, <1>2, <1>3, OpenLive, CrashLive, QuietLive DEF Next

-----------------------------------------------------------------------------
(* Claimed files: the first part of the layer above Live.                   *)

\* A step that leaves the claimed files, their owners and what is in flight.
LEMMA OwnersKept == ASSUME Base, Owners, UNCHANGED <<owned, up>>,
                           \A s \in Share : /\ disk'[s] \cap Claims = disk[s] \cap Claims
                                            /\ "data" \in disk'[s] => "data" \in disk[s],
                           \A s \in Share, f \in Claims : <<s, f>> \in stuck' <=> <<s, f>> \in stuck,
                           \/ pc # "staged" /\ pc' # "staged" /\ ~Claiming /\ ~Claiming'
                           \/ /\ op'.share = op.share /\ (pc' = "staged" <=> pc = "staged")
                              /\ Claiming' <=> Claiming,
                           Giving' => op'.share \notin owned
                    PROVE Owners'
<1>1. \A s \in Share : InFlight(s)' <=> InFlight(s)
  BY DEF InFlight
<1>2. \A s \in Share : disk'[s] \cap Claims # {} \/ (\E f \in Claims : <<s, f>> \in stuck')
                       => "data" \notin disk'[s]
  BY DEF Owners
<1>3. \A s \in owned' : disk'[s] \cap Claims = {"claimed"} /\ <<s, "claimed">> \notin stuck' /\ ~InFlight(s)'
  BY <1>1 DEF Owners, Base, Typed, Claims
<1>4. up' => \A s \in Share \ owned' : \A f \in disk'[s] \cap Claims : <<s, f>> \in stuck' \/ InFlight(s)'
  BY <1>1 DEF Owners
<1>5. Claiming' => disk'[op'.share] \cap Claims = {"claimed"} /\ <<op'.share, "claimed">> \notin stuck'
  <2> SUFFICES ASSUME Claiming' PROVE disk'[op.share] \cap Claims = {"claimed"}
                                      /\ <<op.share, "claimed">> \notin stuck' /\ op'.share = op.share
    OBVIOUS
  <2>1. Claiming /\ op'.share = op.share /\ op.share \in Share
    BY DEF Base, Form, Claiming
  <2> QED BY <2>1 DEF Owners, Claims
<1> QED BY <1>2, <1>3, <1>4, <1>5 DEF Owners

\* The steps of a call that touch no file.
LEMMA QuietOwners == ASSUME Base, Owners,
                            \/ BeginSweep \/ BeginStage \/ (\E ask \in Asks : BeginPut(ask))
                            \/ (\E s \in Share, session \in Session :
                                    BeginTake(s, session) \/ TakeUnread(s, session))
                            \/ TakeMismatch \/ FoundAlready \/ NotFound \/ Answer \/ SweepOne \/ QuotaRemains
                            \/ NotThere \/ TakeExpired \/ TakeText \/ FoundRemains \/ TakeFault \/ Allocate
                            \/ Published \/ Open
                     PROVE Owners'
<1>1. UNCHANGED <<disk, stuck, owned, up>>
  BY DEF BeginSweep, BeginStage, BeginPut, BeginTake, TakeUnread, TakeMismatch, FoundAlready, NotFound, Answer, SweepOne,
     QuotaRemains, NotThere, TakeExpired, TakeText, FoundRemains, TakeFault, Allocate, Published, Open, story
<1>2. pc \in {"idle", "read", "lookup", "answer", "sweep", "quota", "publish"}
  BY DEF BeginSweep, BeginStage, BeginPut, BeginTake, TakeUnread, TakeMismatch, FoundAlready, NotFound, Answer, SweepOne,
     QuotaRemains, NotThere, TakeExpired, TakeText, FoundRemains, TakeFault, Matches, Allocate, Published, Open, Ready
<1>3. \/ pc' \in {"idle", "sweep", "read", "answer", "quota", "publish"}
      \/ pc' = "unlink_side" /\ op'.next # "removed"
      \/ pc' = "unlink_side" /\ op'.out # "claimed"
  <2>1. CASE SweepOne \/ QuotaRemains \/ NotThere \/ TakeExpired \/ TakeFault \/ FoundRemains
    BY <2>1 DEF SweepOne, QuotaRemains, NotThere, TakeExpired, TakeFault, FoundRemains, Remove, Goto,
       Base, Typed, OpType
  <2>2. CASE TakeText
    BY <2>2 DEF TakeText, Remove, Goto, Base, Typed, OpType
  <2>3. CASE ~(SweepOne \/ QuotaRemains \/ NotThere \/ TakeExpired \/ TakeFault \/ FoundRemains \/ TakeText)
    BY <2>3 DEF BeginSweep, BeginStage, BeginPut, BeginTake, TakeUnread, TakeMismatch, FoundAlready, NotFound, Answer,
       Allocate, Published, Open, Sweep, Goto
  <2> QED BY <2>1, <2>2, <2>3
<1>4. Giving' => op'.share \notin owned
  <2> SUFFICES ASSUME Giving' PROVE op'.share \notin owned
    OBVIOUS
  <2>1. /\ pc = "read" /\ op'.share = op.share /\ op.share \in Share /\ "data" \in disk[op.share]
    <3>1. TakeText
      BY <1>3 DEF SweepOne, QuotaRemains, NotThere, TakeExpired, TakeFault, FoundRemains, Remove, Goto,
         Giving, Unlinking, Base, Typed, OpType, BeginSweep, BeginStage, BeginPut, BeginTake, TakeUnread, TakeMismatch,
         FoundAlready, NotFound, Answer, Allocate, Published, Open, Sweep
    <3> QED BY <3>1 DEF TakeText, Matches, Kept, Remove, Base, Form, Typed, OpType
  <2> QED BY <2>1 DEF Owners
<1> QED BY <1>1, <1>2, <1>3, <1>4, OwnersKept DEF Claiming, Giving, Unlinking

LEMMA MovingOwners == ASSUME Base, Owners, UnlinkSidecar \/ UnlinkData \/ Chmod \/ Tick PROVE Owners'
<1>1. CASE UnlinkSidecar \/ UnlinkData
  <2>1. PICK file \in {"side", "data"}, last \in BOOLEAN :
           /\ Unlink(file, last) /\ pc \in {"unlink_side", "unlink_data"}
           /\ pc' = IF file = "side" THEN "unlink_data" ELSE op.next
    BY <1>1 DEF UnlinkSidecar, UnlinkData, Goto
  <2>2. /\ op'.share = op.share /\ op'.next = op.next /\ op'.out = op.out /\ op.rm \in Share
        /\ op.next \in {"sweep", "quota", "removed", "answer"}
        /\ \A s \in Share : disk'[s] \in {disk[s], disk[s] \ {file}}
        /\ stuck' \in {stuck, stuck \cup {<<op.rm, file>>}}
    BY <2>1, UnlinkStep DEF Base, Typed, Form, OpType
  <2>3. UNCHANGED <<owned, up>> /\ file \notin Claims
    BY <2>1 DEF Unlink, Claims
  <2>4. (Claiming' <=> Claiming) /\ (Giving' <=> Giving)
    BY <2>1, <2>2 DEF Claiming, Giving, Unlinking
  <2> QED BY <2>1, <2>2, <2>3, <2>4, OwnersKept DEF Owners
<1>2. CASE Chmod
  <2>1. /\ pc = "chmod" /\ pc' = "unlink_side" /\ op'.share = op.share /\ op'.next = "removed" /\ op'.out = op.out
        /\ UNCHANGED <<disk, stuck, owned, up>>
    BY <1>2 DEF Chmod, Remove, Goto, story, Base, Typed, OpType
  <2>2. (Claiming' <=> Claiming) /\ Giving
    BY <2>1 DEF Claiming, Giving, Unlinking
  <2> QED BY <2>1, <2>2, OwnersKept DEF Owners
<1>3. CASE Tick
  <2>1. UNCHANGED <<disk, stuck, owned, up, pc, op>>
    BY <1>3 DEF Tick, story
  <2> QED BY <2>1, OwnersKept DEF Owners, Claiming, Giving, Unlinking
<1> QED BY <1>1, <1>2, <1>3

LEMMA PublishOwners == ASSUME Base, Owners, Publish \/ PublishFault PROVE Owners'
<1>1. /\ pc = "publish" /\ pc' \in {"publish", "answer"} /\ op.share \in Share
      /\ disk[op.share] \cap Claims = {} /\ disk'[op.share] \cap Claims = {}
      /\ (\A f \in File : <<op.share, f>> \notin stuck) /\ op.share \notin owned
      /\ \A s \in Share \ {op.share} : disk'[s] = disk[s]
      /\ \A s \in Share, f \in Claims : <<s, f>> \in stuck' <=> <<s, f>> \in stuck
      /\ UNCHANGED <<owned, up>>
  <2>1. /\ pc = "publish" /\ op.share \in Share /\ disk[op.share] \cap Claims = {}
        /\ (\A f \in File : <<op.share, f>> \notin stuck) /\ op.share \notin owned
    BY DEF Publish, PublishFault, Base, Form, Publishing, Claims
  <2>2. CASE Publish
    BY <2>1, <2>2, WrittenFiles DEF Claims, story
  <2>3. CASE PublishFault
    <3>1. PICK kept \in SUBSET disk[op.share] :
             /\ disk' = [disk EXCEPT ![op.share] = kept] /\ stuck' = stuck \cup ({op.share} \X kept)
      BY <2>3 DEF PublishFault, Unpublished, Left
    <3>2. \A f \in Claims : f \notin kept
      BY <2>1, <3>1
    <3> QED BY <2>1, <2>3, <3>1, <3>2 DEF PublishFault, Goto, Base, Typed
  <2> QED BY <2>1, <2>2, <2>3
<1>2. Claims \subseteq File
  BY DEF Claims, File
<1>3. ~Claiming /\ ~Claiming' /\ ~Giving' /\ \A s \in Share : ~InFlight(s) /\ ~InFlight(s)'
  BY <1>1 DEF Claiming, Giving, Unlinking, InFlight
<1> QED BY <1>1, <1>2, <1>3 DEF Owners, Base, Typed

LEMMA SweepRestOwners == ASSUME Base, Owners, SweepRest PROVE Owners'
<1>1. /\ pc = "sweep" /\ pc' \in {"idle", "lookup", "stage", "answer"} /\ UNCHANGED <<owned, up>>
  BY DEF SweepRest, Goto, Base, Form
<1>2. \A s \in Share : Litter(s) \cap Claims = {}
  BY DEF Litter, Claims
<1>3. \A s \in Share : disk'[s] \cap Claims = disk[s] \cap Claims /\ ("data" \in disk'[s] => "data" \in disk[s])
  BY <1>2, SweptFiles
<1>4. \A s \in Share, f \in Claims : <<s, f>> \in stuck' <=> <<s, f>> \in stuck
  BY <1>2, SweptFiles DEF Claims, File
<1> QED BY <1>1, <1>3, <1>4, OwnersKept DEF Claiming, Giving, Unlinking

LEMMA SweepPastOwners == ASSUME Base, Owners, SweepPast PROVE Owners'
<1>1. /\ pc = "sweep" /\ pc' \in {"idle", "lookup", "stage", "answer"} /\ UNCHANGED <<owned, up, stuck>>
  BY DEF SweepPast, Goto, Base, Form, story
<1>2. \A s \in Share : disk'[s] \cap Claims = disk[s] \cap Claims /\ ("data" \in disk'[s] => "data" \in disk[s])
  <2>1. \A s \in Share : Litter(s) \cap Claims = {}
    BY DEF Litter, Claims
  <2>2. PICK missed \in SUBSET (Share \X File) : disk' = [s \in Share |-> disk[s] \ Seen(s, missed)]
    BY PastFiles
  <2>3. \A s \in Share : Seen(s, missed) \subseteq Litter(s)
    BY DEF Seen
  <2> QED BY <2>1, <2>2, <2>3
<1> QED BY <1>1, <1>2, OwnersKept DEF Claiming, Giving, Unlinking

\* A step after which one share's claimed file is as said, and others' stay.
LEMMA TakeBinaryOwners == ASSUME Base, Owners, TakeBinary PROVE Owners'
<1>1. /\ pc = "read" /\ pc' = "chmod" /\ op'.share = op.share /\ op'.out = "claimed" /\ op.share \in Share
      /\ "data" \in disk[op.share] /\ disk' = [disk EXCEPT ![op.share] = (@ \ {"data"}) \cup {"claimed"}]
      /\ UNCHANGED <<owned, up, stuck>>
  BY DEF TakeBinary, Matches, Kept, Goto, Base, Form, Typed, OpType, story
<1>2. Claiming' /\ ~Claiming
  BY <1>1 DEF Claiming, Giving, Unlinking
<1>3. op.share \notin owned /\ disk[op.share] \cap Claims = {} /\ \A f \in Claims : <<op.share, f>> \notin stuck
  BY <1>1 DEF Owners, Claims
<1>4. disk'[op.share] \cap Claims = {"claimed"} /\ "data" \notin disk'[op.share]
  BY <1>1, <1>3 DEF Base, Typed, Claims
<1>5. \A s \in Share \ {op.share} : disk'[s] = disk[s]
  BY <1>1 DEF Base, Typed
<1>6. \A s \in Share : ~InFlight(s) /\ (InFlight(s)' <=> s = op.share)
  BY <1>1, <1>2 DEF InFlight
<1>7. \A s \in owned : s \in Share /\ s # op.share
  BY <1>3 DEF Base, Typed
<1>8. "claimed" \in Claims
  BY DEF Claims
<1> QED BY <1>1, <1>2, <1>3, <1>4, <1>5, <1>6, <1>7, <1>8 DEF Owners

LEMMA ClaimEnds == ASSUME Base, Owners, UNCHANGED up, op.share \in Share, op.share \notin owned,
                          \A s \in Share \ {op.share} : disk'[s] = disk[s] /\ ~InFlight(s),
                          \A s \in Share \ {op.share}, f \in Claims : <<s, f>> \in stuck' <=> <<s, f>> \in stuck,
                          ~Giving', pc' # "staged", "data" \notin disk'[op.share],
                          \/ (\A f \in disk'[op.share] \cap Claims : <<op.share, f>> \in stuck') /\ owned' = owned
                          \/ /\ disk'[op.share] \cap Claims = {"claimed"} /\ <<op.share, "claimed">> \notin stuck'
                             /\ owned' = owned \cup {op.share}
                   PROVE Owners'
<1>1. ~Claiming' /\ \A s \in Share : ~InFlight(s)'
  BY DEF InFlight, Claiming
<1>2. \A s \in Share \ {op.share} : s \in owned' <=> s \in owned
  OBVIOUS
<1>3. "claimed" \in Claims
  BY DEF Claims
<1> QED BY <1>1, <1>2, <1>3 DEF Owners, Base, Typed

LEMMA ClaimEndsOwners == ASSUME Base, Owners, ChmodFault \/ Removed \/ StageDone PROVE Owners'
<1>0. Claims \subseteq File
  BY DEF Claims, File
<1>1. CASE ChmodFault
  <2>1. /\ pc = "chmod" /\ pc' = "answer" /\ op.share \in Share /\ op.out = "claimed"
        /\ Left(op.share, disk[op.share] \ {"claimed"}) /\ UNCHANGED <<up, owned>>
    BY <1>1 DEF ChmodFault, Goto, Base, Form, Giving
  <2>2. Claiming /\ ~Giving' /\ \A s \in Share : InFlight(s) <=> s = op.share
    BY <2>1 DEF Claiming, Giving, Unlinking, InFlight
  <2>3. /\ disk[op.share] \cap Claims = {"claimed"} /\ "data" \notin disk[op.share] /\ op.share \notin owned
    BY <2>1, <2>2 DEF Owners, Claiming
  <2>4. "data" \notin disk'[op.share] /\ \A f \in disk'[op.share] \cap Claims : <<op.share, f>> \in stuck'
    <3>1. disk'[op.share] \subseteq disk[op.share] /\ "data" \notin disk'[op.share]
      BY <2>1, <2>3, Leaves
    <3>2. \A f \in disk'[op.share] \cap Claims : f = "claimed"
      BY <2>3, <3>1
    <3>3. "claimed" \in disk'[op.share] => <<op.share, "claimed">> \in stuck'
      BY <2>1, Leaves
    <3> QED BY <3>1, <3>2, <3>3
  <2> QED BY <1>0, <2>1, <2>2, <2>3, <2>4, Leaves, ClaimEnds
<1>2. CASE Removed /\ op.failed
  <2>1. /\ pc = "removed" /\ pc' = "answer" /\ op.share \in Share /\ op.share \notin owned
        /\ Left(op.share, disk[op.share] \ {"claimed"}) /\ UNCHANGED <<up, owned>>
    BY <1>2 DEF Removed, Compensated, Goto, Base, Form, Giving, Owners
  <2>2. ~Giving' /\ \A s \in Share : InFlight(s) => s = op.share
    BY <2>1 DEF Claiming, Giving, Unlinking, InFlight
  <2>3. CASE "data" \in disk'[op.share]
    <3>1. disk[op.share] \cap Claims = {} /\ \A f \in Claims : <<op.share, f>> \notin stuck
      BY <2>1, <2>3, Leaves DEF Owners
    <3>2. disk'[op.share] \cap Claims = {} /\ \A s \in Share, f \in Claims : <<s, f>> \in stuck' <=> <<s, f>> \in stuck
      BY <1>0, <2>1, <3>1, Leaves
    <3>3. ~Claiming
      BY <3>1 DEF Owners
    <3>4. ~Claiming' /\ \A s \in Share : ~InFlight(s) /\ ~InFlight(s)'
      BY <2>1, <2>2, <3>3 DEF Claiming, InFlight
    <3> QED BY <2>1, <2>2, <3>1, <3>2, <3>3, <3>4, Leaves, OwnersKept
  <2>4. CASE "data" \notin disk'[op.share]
    <3>1. \A f \in disk'[op.share] \cap Claims : <<op.share, f>> \in stuck'
      <4>1. CASE Claiming
        <5>1. disk[op.share] \cap Claims = {"claimed"}
          BY <4>1 DEF Owners
        <5>2. \A f \in disk'[op.share] \cap Claims : f = "claimed"
          BY <2>1, <5>1, Leaves
        <5> QED BY <2>1, <5>2, Leaves
      <4>2. CASE ~Claiming
        <5>1. ~InFlight(op.share) /\ up
          BY <2>1, <4>2 DEF InFlight, Base, Form
        <5>2. \A f \in disk[op.share] \cap Claims : <<op.share, f>> \in stuck
          BY <2>1, <5>1 DEF Owners
        <5> QED BY <2>1, <5>2, Leaves
      <4> QED BY <4>1, <4>2
    <3> QED BY <1>0, <2>1, <2>2, <2>4, <3>1, Leaves, ClaimEnds
  <2> QED BY <2>3, <2>4
<1>3. CASE Removed /\ ~op.failed
  <2>1. /\ pc = "removed" /\ pc' = "sweep" /\ op.share \in Share /\ UNCHANGED <<up, disk, op, stuck>>
        /\ owned' = IF op.out = "claimed" THEN owned \cup {op.share} ELSE owned
        /\ op.share \notin owned
    BY <1>3 DEF Removed, Goto, Base, Form, Giving, Owners
  <2>2. ~Giving' /\ ~Claiming' /\ \A s \in Share : (InFlight(s) <=> s = op.share /\ Claiming) /\ ~InFlight(s)'
    BY <2>1 DEF Claiming, Giving, Unlinking, InFlight
  <2>3. CASE op.out = "claimed"
    <3>1. Claiming
      BY <2>1, <2>3 DEF Claiming, Giving
    <3>2. /\ disk[op.share] \cap Claims = {"claimed"} /\ <<op.share, "claimed">> \notin stuck
          /\ "data" \notin disk[op.share]
      BY <2>1, <3>1 DEF Owners
    <3> QED BY <2>1, <2>2, <2>3, <3>2, ClaimEnds
  <2>4. CASE op.out # "claimed"
    <3>1. ~Claiming
      BY <2>4 DEF Claiming
    <3> QED BY <2>1, <2>2, <2>4, <3>1, OwnersKept
  <2> QED BY <2>3, <2>4
<1>4. CASE StageDone
  <2>1. /\ pc = "staged" /\ pc' = "answer" /\ op.share \in Share /\ UNCHANGED up /\ op.share \notin owned
        /\ \A f \in File : <<op.share, f>> \notin stuck
    BY <1>4 DEF StageDone, Goto, Base, Form, Publishing
  <2>2. ~Giving' /\ \A s \in Share : InFlight(s) => s = op.share
    BY <2>1 DEF Giving, Unlinking, InFlight
  <2>3. "data" \notin disk'[op.share] /\ "claimed" \in Claims /\ Claims \cap {"claimed"} = {"claimed"}
    BY <1>4, StagedFiles DEF Claims
  <2> QED BY <1>0, <1>4, <2>1, <2>2, <2>3, StagedFiles, ClaimEnds
<1> QED BY <1>1, <1>2, <1>3, <1>4

LEMMA StageWriteOwners == ASSUME Base, Owners, StageWrite PROVE Owners'
<1>1. pc = "stage" /\ pc' \in {"answer", "staged"} /\ UNCHANGED <<owned, up, stuck>>
  BY DEF StageWrite, Goto, story
<1>2. ~Claiming /\ ~Giving' /\ ~Claiming' /\ \A s \in Share : ~InFlight(s)
  BY <1>1 DEF Claiming, Giving, Unlinking, InFlight
<1>3. CASE pc' = "answer" /\ UNCHANGED <<disk, what, op>>
  BY <1>1, <1>2, <1>3, OwnersKept
<1>4. CASE ~(pc' = "answer" /\ UNCHANGED <<disk, what, op>>)
  <2>1. PICK s \in Share : /\ ~Used(s) /\ disk' = [disk EXCEPT ![s] = {"claimed.part"}]
                           /\ op' = [op EXCEPT !.share = s] /\ pc' = "staged"
    BY <1>4 DEF StageWrite, Goto
  <2>2. s \notin owned /\ op'.share = s /\ InFlight(s)'
    BY <2>1 DEF Base, Fresh, Untouched, Typed, OpType, InFlight
  <2>3. "data" \notin disk'[s] /\ \A t \in Share \ {s} : disk'[t] = disk[t] /\ ~InFlight(t)'
    BY <2>1, <2>2 DEF Base, Typed, InFlight
  <2> QED BY <1>1, <1>2, <2>2, <2>3 DEF Owners, Base, Typed
<1> QED BY <1>3, <1>4

LEMMA CrashOwners == ASSUME Base, Owners, Crash PROVE Owners'
<1>1. ~up' /\ owned' = {} /\ pc' = "idle" /\ UNCHANGED <<disk, stuck>>
  BY DEF Crash, Goto, story
<1> QED BY <1>1 DEF Owners, Claiming, Giving, Unlinking

LEMMA JobEndsOwners == ASSUME Base, Owners, NEW s \in Share, JobEnds(s) PROVE Owners'
<1>1. /\ s \in owned /\ owned' = owned \ {s} /\ UNCHANGED <<up, pc, op>>
      /\ \/ disk' = [disk EXCEPT ![s] = @ \ {"claimed"}] /\ UNCHANGED stuck
         \/ stuck' = stuck \cup {<<s, "claimed">>} /\ UNCHANGED disk
  BY DEF JobEnds
<1>2. /\ disk[s] \cap Claims = {"claimed"} /\ ~InFlight(s) /\ "data" \notin disk[s]
  BY <1>1 DEF Owners
<1>3. \A t \in Share : InFlight(t)' <=> InFlight(t)
  BY <1>1 DEF InFlight, Claiming, Giving, Unlinking
<1>4. (Giving' <=> Giving) /\ (Claiming' <=> Claiming) /\ (Claiming => InFlight(op.share) /\ op.share \in Share)
  BY <1>1 DEF Claiming, Giving, Unlinking, InFlight, Base, Form
<1>5. \A t \in Share \ {s} : disk'[t] = disk[t] /\ \A f \in Claims : <<t, f>> \in stuck' <=> <<t, f>> \in stuck
  BY <1>1 DEF Base, Typed
<1>6. /\ "data" \notin disk'[s]
      /\ \A f \in disk'[s] \cap Claims : <<s, f>> \in stuck'
  BY <1>1, <1>2 DEF Base, Typed, Claims
<1>7. "claimed" \in Claims
  BY DEF Claims
<1>8. \A t \in Share : disk'[t] \cap Claims # {} \/ (\E f \in Claims : <<t, f>> \in stuck') => "data" \notin disk'[t]
  BY <1>5, <1>6 DEF Owners
<1>9. \A t \in owned' : /\ disk'[t] \cap Claims = {"claimed"} /\ <<t, "claimed">> \notin stuck' /\ ~InFlight(t)'
  BY <1>1, <1>3, <1>5, <1>7 DEF Owners, Base, Typed
<1>10. up' => \A t \in Share \ owned' : \A f \in disk'[t] \cap Claims : <<t, f>> \in stuck' \/ InFlight(t)'
  BY <1>1, <1>3, <1>5, <1>6 DEF Owners
<1>11. Claiming' => disk'[op'.share] \cap Claims = {"claimed"} /\ <<op'.share, "claimed">> \notin stuck'
  BY <1>1, <1>2, <1>4, <1>5, <1>7 DEF Owners
<1> QED BY <1>1, <1>4, <1>8, <1>9, <1>10, <1>11 DEF Owners

LEMMA RestartOwners == ASSUME Base, Owners, Restart PROVE Owners'
<1>1. ~up /\ owned = {} /\ owned' = {} /\ pc = "idle" /\ UNCHANGED <<pc, op>>
  BY DEF Restart, Base, Form
<1>2. \A s \in Share : \A f \in disk'[s] \cap Claims : <<s, f>> \in stuck'
  BY DEF Restart, Orphans, Claims, Base, Typed
<1>3. \A s \in Share, f \in File : <<s, f>> \in stuck' \ stuck => f \in Claims /\ f \in disk[s]
  BY <1>1, ClaimsGo
<1>4. \A s \in Share : disk'[s] \subseteq disk[s]
  BY ClaimsGo
<1>5. \A s \in Share : disk'[s] \cap Claims # {} \/ (\E f \in Claims : <<s, f>> \in stuck') => "data" \notin disk'[s]
  <2>1. Claims \subseteq File
    BY DEF Claims, File
  <2> QED BY <1>3, <1>4, <2>1 DEF Owners
<1> QED BY <1>1, <1>2, <1>5 DEF Owners, Claiming, Giving, Unlinking

LEMMA InitOwners == Init => Owners
BY DEF Init, Owners, Claiming, Giving, Unlinking

LEMMA StepOwners == Base /\ Owners /\ [Next]_vars => Owners'
<1> SUFFICES ASSUME Base, Owners, [Next]_vars PROVE Owners'
  OBVIOUS
<1>1. CASE UNCHANGED vars
  BY <1>1, OwnersKept DEF vars, memory, bounds, story, Owners, Claiming, Giving, Unlinking
<1>2. CASE Call
  BY <1>2, QuietOwners DEF Call
<1>3. CASE Proceed
  BY <1>3, QuietOwners, MovingOwners, PublishOwners, SweepRestOwners, SweepPastOwners, TakeBinaryOwners, ClaimEndsOwners,
     StageWriteOwners DEF Proceed
<1> QED BY <1>1, <1>2, <1>3, QuietOwners, CrashOwners, RestartOwners, JobEndsOwners, MovingOwners DEF Next

-----------------------------------------------------------------------------
(* What was handed out and what was refused.                                *)

LEMMA Ages == ASSUME Base
              PROVE /\ clock \in Nat /\ op.now \in Nat /\ op.now <= clock
                    /\ \A s \in Share : /\ what[s].born \in Nat /\ Age(s) \in Int /\ AgeNow(s) \in Int
                                        /\ AgeNow(s) <= Age(s)
<1>1. clock \in Nat /\ op.now \in Nat /\ op.now <= clock
  BY DEF Base, Typed, Form, OpType
<1>2. \A s \in Share : what[s].born \in Nat
  BY DEF Base, Typed, What
<1> QED BY <1>1, <1>2 DEF Age, AgeNow

LEMMA Gave == ASSUME Base, NEW i \in 1 .. Len(given)
              PROVE given[i].share \in Share /\ given[i].at \in Nat /\ Used(given[i].share)
                    /\ Given(given[i].share)
<1>1. given[i] \in Gift
  BY DEF Base, Typed
<1> QED BY <1>1 DEF Gift, Given, Base, Fresh, Untouched

\* A step that hands out and refuses nothing: what expires was known, and a
\* share handed out stays away.
LEMMA HistoryKept == ASSUME Base, Base', History, UNCHANGED <<given, refused>>,
                            \A s \in Share : Used(s) => what'[s] = what[s],
                            clock <= clock',
                            \A s \in gone' : s \in gone \/ (s \in known /\ Age(s) >= Ttl),
                            \A s \in Share : Given(s) => /\ s \notin known'
                                                         /\ disk'[s] \cap {"side", "data"} \subseteq disk[s]
                     PROVE History'
<1>1. ASSUME NEW s \in gone' \cup refused' PROVE Age(s)' >= Ttl /\ ~Given(s)'
  <2>1. s \in Share /\ (s \in gone \cup refused \/ (s \in known /\ Age(s) >= Ttl))
    BY <1>1 DEF Base, Typed
  <2>2. Age(s) >= Ttl /\ ~Given(s)
    <3>1. CASE s \in gone \cup refused
      BY <3>1 DEF History
    <3>2. CASE s \in known /\ Age(s) >= Ttl
      BY <3>2 DEF History, Given
    <3> QED BY <2>1, <3>1, <3>2
  <2>3. Used(s)
    BY <2>1 DEF Base, Fresh, Untouched
  <2>4. clock \in Nat /\ clock' \in Nat /\ what[s].born \in Nat /\ what'[s].born = what[s].born
    BY <2>1, <2>3, Ages DEF Base, Typed
  <2>5. Age(s)' >= Ttl
    BY <2>2, <2>4, Bounds DEF Age
  <2> QED BY <2>2, <2>5 DEF Given
<1>2. ASSUME NEW i \in 1 .. Len(given)
      PROVE /\ given[i].share \notin known' /\ disk'[given[i].share] \cap {"side", "data"} = {}
            /\ given[i].to = what'[given[i].share].session
            /\ given[i].at - what'[given[i].share].born < Ttl
            /\ \A j \in 1 .. i - 1 : given[j].share # given[i].share
  <2>1. given[i].share \in Share /\ Used(given[i].share) /\ Given(given[i].share)
    BY Gave
  <2> QED BY <2>1 DEF History
<1> QED BY <1>1, <1>2 DEF History

LEMMA PlainHistory == ASSUME Base, Base', History,
                             \/ BeginSweep \/ BeginStage \/ (\E ask \in Asks : BeginPut(ask))
                             \/ TakeMismatch \/ FoundAlready \/ NotFound \/ QuotaRemains
                             \/ NotThere \/ TakeText \/ FoundRemains \/ TakeFault
                             \/ UnlinkSidecar \/ UnlinkData \/ SweepRest \/ SweepPast \/ Crash \/ Restart
                             \/ (\E s \in Share : JobEnds(s)) \/ Tick \/ Chmod \/ ChmodFault \/ TakeBinary
                             \/ Removed \/ PublishFault
                      PROVE History'
<1>1. /\ UNCHANGED <<given, refused, what>> /\ clock <= clock' /\ gone' \subseteq gone /\ known' \subseteq known
  <2>1. UNCHANGED <<given, refused, what>> /\ clock' \in {clock, clock + 1} /\ gone' \subseteq gone
    BY DEF BeginSweep, BeginStage, BeginPut, TakeMismatch, FoundAlready, NotFound, QuotaRemains, NotThere, TakeText,
       FoundRemains, TakeFault, UnlinkSidecar, UnlinkData, Unlink, SweepRest, SweepPast, Crash, Restart, JobEnds, Tick, Chmod,
       ChmodFault, TakeBinary, Removed, PublishFault, memory, bounds, story
  <2>2. known' \subseteq known
    BY DEF BeginSweep, BeginStage, BeginPut, TakeMismatch, FoundAlready, NotFound, QuotaRemains, NotThere, TakeText,
       FoundRemains, TakeFault, UnlinkSidecar, UnlinkData, Unlink, SweepRest, SweepPast, Crash, Restart, JobEnds, Tick, Chmod,
       ChmodFault, TakeBinary, Removed, PublishFault, memory, Remove, Forget
  <2> QED BY <2>1, <2>2, Ages
<1>2. \A s \in Share : disk'[s] \cap {"side", "data"} \subseteq disk[s]
  <2>1. CASE UnlinkSidecar \/ UnlinkData
    <3>1. PICK file \in {"side", "data"}, last \in BOOLEAN :
             Unlink(file, last) /\ pc \in {"unlink_side", "unlink_data"}
      BY <2>1 DEF UnlinkSidecar, UnlinkData
    <3> QED BY <3>1, UnlinkStep
  <2>2. CASE SweepRest \/ SweepPast
    BY <2>2, SweptFiles, PastFiles
  <2>3. CASE Restart \/ \E s \in Share : JobEnds(s)
    BY <2>3, ClaimsGo
  <2>4. CASE ChmodFault \/ TakeBinary \/ Removed \/ PublishFault
    BY <2>4 DEF ChmodFault, TakeBinary, Removed, PublishFault, Left, Compensated, Unpublished, Base, Typed
  <2>5. CASE \/ BeginSweep \/ BeginStage \/ (\E ask \in Asks : BeginPut(ask))
             \/ TakeMismatch \/ FoundAlready \/ NotFound \/ QuotaRemains \/ NotThere \/ TakeText
             \/ FoundRemains \/ TakeFault \/ Crash \/ Tick \/ Chmod
    BY <2>5 DEF BeginSweep, BeginStage, BeginPut, TakeMismatch, FoundAlready, NotFound, QuotaRemains, NotThere, TakeText,
       FoundRemains, TakeFault, Crash, Tick, Chmod
  <2> QED BY <2>1, <2>2, <2>3, <2>4, <2>5
<1>3. \A s \in Share : Given(s) => s \notin known
  BY DEF History, Given
<1> QED BY <1>1, <1>2, <1>3, HistoryKept

LEMMA ExpiringHistory == ASSUME Base, Base', History, SweepOne \/ TakeExpired PROVE History'
<1>1. /\ UNCHANGED <<given, refused, what, disk, clock>> /\ known' \subseteq known
      /\ \A s \in gone' : s \in gone \/ (s \in known /\ Age(s) >= Ttl)
  <2>1. CASE SweepOne
    <3>1. PICK s \in Share : /\ Due(s) /\ known' \subseteq known
                             /\ gone' \subseteq gone \cup {s}
      BY <2>1 DEF SweepOne, Remove, Forget
    <3>2. s \in known /\ Age(s) >= Ttl
      <4>1. s \in known /\ AgeNow(s) >= Ttl
        BY <3>1 DEF Due
      <4> QED BY <4>1, Ages, Bounds
    <3> QED BY <2>1, <3>1, <3>2 DEF SweepOne, bounds, story
  <2>2. CASE TakeExpired
    BY <2>2 DEF TakeExpired, Kept, Expired, Remove, Forget, bounds, story
  <2> QED BY <2>1, <2>2
<1>2. \A s \in Share : Given(s) => s \notin known
  BY DEF History, Given
<1> QED BY <1>1, <1>2, Ages, HistoryKept

\* A share handed out is not loaded again, nor published again.
LEMMA LoadingHistory == ASSUME Base, Base', History,
                               \/ Open \/ Publish \/ Published \/ Allocate \/ StageWrite \/ StageDone
                               \/ (\E s \in Share, session \in Session :
                                       BeginTake(s, session) \/ TakeUnread(s, session))
                        PROVE History'
<1>1. \A s \in Share : Given(s) => s \notin known /\ "side" \notin disk[s] /\ Used(s)
  BY Gave DEF History, Given
<1>2. UNCHANGED <<given, refused, gone, clock>>
  BY DEF Open, Publish, Published, Allocate, StageWrite, StageDone, BeginTake, TakeUnread, memory, bounds, story
<1>3. \A s \in Share : Used(s) => what'[s] = what[s]
  BY DEF Open, Publish, Published, Allocate, StageWrite, StageDone, BeginTake, TakeUnread, Base, Typed
<1>4. \A s \in Share : Given(s) => s \notin known'
  <2>1. CASE Published
    BY <1>1, <2>1 DEF Published, Base, Publishing, Given
  <2>2. CASE Open
    BY <1>1, <2>2 DEF Open, Sidecars
  <2>3. CASE \E s \in Share, session \in Session : BeginTake(s, session) \/ TakeUnread(s, session)
    BY <1>1, <2>3 DEF BeginTake, TakeUnread, LoadSidecar, memory
  <2>4. CASE Publish \/ Allocate \/ StageWrite \/ StageDone
    BY <1>1, <2>4 DEF Publish, Allocate, StageWrite, StageDone, memory
  <2> QED BY <2>1, <2>2, <2>3, <2>4
<1>5. \A s \in Share : Given(s) => disk'[s] \cap {"side", "data"} \subseteq disk[s]
  <2>1. CASE Publish
    BY <2>1, WrittenFiles DEF Base, Publishing, Given
  <2>2. CASE StageWrite
    BY <1>1, <2>2 DEF StageWrite, Base, Typed
  <2>3. CASE StageDone
    BY <2>3, StagedFiles DEF Claims
  <2>4. CASE Open \/ Published \/ Allocate \/ \E s \in Share, session \in Session :
                                                 BeginTake(s, session) \/ TakeUnread(s, session)
    BY <2>4 DEF Open, Published, Allocate, BeginTake, TakeUnread
  <2> QED BY <2>1, <2>2, <2>3, <2>4
<1> QED BY <1>2, <1>3, <1>4, <1>5, Ages, HistoryKept

LEMMA AnswerHistory == ASSUME Base, Base', History, Pending, Answer PROVE History'
<1>1. /\ pc = "answer" /\ UNCHANGED <<disk, what, known, gone, clock>>
      /\ refused' = IF op.out = "expired" THEN refused \cup {op.share} ELSE refused
      /\ given' = IF Handing THEN Append(given, [share |-> op.share, to |-> op.session, at |-> op.now])
                  ELSE given
  BY DEF Answer, Handing, memory, bounds
<1>2. \A i \in 1 .. Len(given) : given[i] \in Gift
  BY DEF Base, Typed
<1>3. op.share \in Share \/ op.out \notin {"expired", "delivered", "claimed"}
  BY <1>1 DEF Base, Form, Answers
<1>4. CASE Handing
  <2> DEFINE g == [share |-> op.share, to |-> op.session, at |-> op.now]
  <2>1. /\ ~Given(op.share) /\ op.share \notin gone \cup refused
        /\ op.session = what[op.share].session /\ AgeNow(op.share) < Ttl
        /\ op.share \notin known /\ disk[op.share] \cap {"side", "data"} = {}
    BY <1>1, <1>4 DEF Pending, Answers
  <2>2. /\ g.share = op.share /\ g.to = op.session /\ g.at = op.now
    OBVIOUS
  <2> HIDE DEF g
  <2>3. Len(given) \in Nat /\ given' = Append(given, g) /\ refused' = refused
    BY <1>1, <1>4 DEF Base, Typed, Handing, g
  <2>4. /\ Len(given') = Len(given) + 1 /\ given'[Len(given) + 1] = g
        /\ \A i \in 1 .. Len(given) : given'[i] = given[i]
    BY <2>3 DEF Base, Typed
  <2>5. \A s \in Share : Given(s)' => Given(s) \/ s = op.share
    BY <2>2, <2>3, <2>4 DEF Given
  <2>6. \A s \in gone' \cup refused' : Age(s)' >= Ttl /\ ~Given(s)'
    BY <1>1, <2>1, <2>3, <2>5 DEF History, Age, Base, Typed
  <2>7. ASSUME NEW i \in 1 .. Len(given')
        PROVE /\ given'[i].share \notin known' /\ disk'[given'[i].share] \cap {"side", "data"} = {}
              /\ given'[i].to = what'[given'[i].share].session
              /\ given'[i].at - what'[given'[i].share].born < Ttl
              /\ \A j \in 1 .. i - 1 : given'[j].share # given'[i].share
    <3>1. CASE i \in 1 .. Len(given)
      <4>1. given'[i] = given[i] /\ \A j \in 1 .. i - 1 : j \in 1 .. Len(given) /\ given'[j] = given[j]
        BY <2>3, <2>4, <3>1
      <4> QED BY <1>1, <3>1, <4>1 DEF History
    <3>2. CASE i = Len(given) + 1
      <4>1. \A j \in 1 .. i - 1 : given'[j].share # op.share
        BY <2>1, <2>3, <2>4, <3>2 DEF Given
      <4>2. given'[i] = g
        BY <2>4, <3>2
      <4>3. op.now - what[op.share].born < Ttl
        BY <2>1 DEF AgeNow
      <4>4. known' = known /\ disk' = disk /\ what' = what
        BY <1>1
      <4>5. /\ g.share \notin known' /\ disk'[g.share] \cap {"side", "data"} = {}
            /\ g.to = what'[g.share].session /\ g.at - what'[g.share].born < Ttl
            /\ \A j \in 1 .. i - 1 : given'[j].share # g.share
        BY <2>1, <2>2, <4>1, <4>3, <4>4
      <4> QED BY <4>2, <4>5
    <3>3. i \in 1 .. Len(given) \/ i = Len(given) + 1
      BY <2>3, <2>4
    <3> QED BY <3>1, <3>2, <3>3
  <2> QED BY <2>6, <2>7 DEF History
<1>5. CASE ~Handing /\ op.out = "expired"
  <2>1. op.share \in Share /\ Age(op.share) >= Ttl /\ ~Given(op.share)
    BY <1>1, <1>3, <1>5 DEF Pending, Answers
  <2> QED BY <1>1, <1>5, <2>1 DEF History, Age, Given
<1>6. CASE ~Handing /\ op.out # "expired"
  BY <1>1, <1>6 DEF History, Age, Given
<1> QED BY <1>4, <1>5, <1>6

LEMMA StepHistory == Base /\ Base' /\ History /\ Pending /\ [Next]_vars => History'
<1> SUFFICES ASSUME Base, Base', History, Pending, [Next]_vars PROVE History'
  OBVIOUS
<1>1. CASE UNCHANGED vars
  BY <1>1 DEF vars, memory, bounds, story, History, Age, Given
<1>2. CASE Call
  BY <1>2, PlainHistory, LoadingHistory DEF Call
<1>3. CASE Proceed
  BY <1>3, PlainHistory, ExpiringHistory, LoadingHistory, AnswerHistory DEF Proceed
<1> QED BY <1>1, <1>2, <1>3, PlainHistory, LoadingHistory DEF Next

-----------------------------------------------------------------------------
(* What the call in progress is about to answer.                            *)

\* A call that has nothing to hand out or refuse.
LEMMA NothingPending == ASSUME ~(Giving \/ Answers)' \/ op'.out \notin {"delivered", "claimed", "expired"},
                               ~Giving'
                        PROVE Pending'
BY DEF Pending, Giving, Handing, Unlinking

LEMMA IdlePending == ASSUME Base, Pending,
                            \/ BeginSweep \/ BeginStage \/ (\E ask \in Asks : BeginPut(ask)) \/ TakeMismatch
                            \/ FoundAlready \/ NotFound \/ FoundRemains \/ QuotaRemains \/ Allocate \/ Publish
                            \/ PublishFault \/ Published \/ NotThere \/ TakeFault \/ ChmodFault \/ StageWrite
                            \/ StageDone \/ Answer \/ Open \/ Crash
                            \/ (\E s \in Share, session \in Session : TakeUnread(s, session))
                     PROVE Pending'
<1>1. CASE \/ BeginSweep \/ BeginStage \/ (\E ask \in Asks : BeginPut(ask)) \/ Open
  <2>1. pc' = "sweep" /\ op'.out = "none"
    BY <1>1, Starting DEF BeginSweep, BeginStage, BeginPut, Open, Sweep, Goto, Base, OpType
  <2> QED BY <2>1, NothingPending DEF Giving, Unlinking
<1>2. CASE \/ TakeMismatch \/ FoundAlready \/ PublishFault \/ Published \/ NotThere \/ ChmodFault
  <2>1. /\ pc' \in {"sweep", "answer"} \/ (pc' = "unlink_side" /\ op'.next # "removed")
        /\ op'.out \in {"mismatch", "staged", "conflict", "error", "missing"}
    BY <1>2 DEF TakeMismatch, FoundAlready, PublishFault, Published, NotThere, ChmodFault, Sweep, Remove, Goto,
       Base, Typed, OpType
  <2> QED BY <2>1, NothingPending DEF Giving, Unlinking
<1>3. CASE TakeFault
  <2>1. /\ pc' = "answer" \/ (pc' = "unlink_side" /\ op'.next # "removed")
        /\ op'.out \in {"error", "missing"}
    BY <1>3 DEF TakeFault, Remove, Goto, Base, Typed, OpType
  <2> QED BY <2>1, NothingPending DEF Giving, Unlinking
<1>4. CASE \/ NotFound \/ FoundRemains \/ QuotaRemains \/ Publish \/ Answer \/ Crash
  <2>1. \/ pc' \in {"quota", "publish", "idle"}
        \/ pc' = "unlink_side" /\ op'.next = "quota"
    BY <1>4 DEF NotFound, FoundRemains, QuotaRemains, Publish, Answer, Crash, Remove, Goto, Base, Typed, OpType
  <2> QED BY <2>1, NothingPending DEF Giving, Answers, Unlinking, Sweeping
<1>5. CASE Allocate
  <2>1. pc' = "publish" \/ (pc' = "answer" /\ op'.out = "quota")
    BY <1>5 DEF Allocate, Goto, Base, Typed, OpType
  <2> QED BY <2>1, NothingPending DEF Giving, Answers, Unlinking, Sweeping
<1>6. CASE StageWrite \/ StageDone
  <2>1. pc \in {"stage", "staged"} /\ op.out = "none"
    BY <1>6 DEF StageWrite, StageDone, Base, Form, Giving, Answers, Unlinking, Sweeping
  <2>2. pc' \in {"staged", "answer"} /\ op'.out = "none"
    BY <1>6, <2>1 DEF StageWrite, StageDone, Goto, Base, Typed, OpType
  <2> QED BY <2>2, NothingPending DEF Giving, Unlinking
<1>7. CASE \E s \in Share, session \in Session : TakeUnread(s, session)
  <2>1. pc' = "read"
    BY <1>7 DEF TakeUnread, Goto
  <2> QED BY <2>1, NothingPending DEF Giving, Answers, Unlinking, Sweeping
<1> QED BY <1>1, <1>2, <1>3, <1>4, <1>5, <1>6, <1>7

\* A share that is there and younger than its time to live has neither been
\* handed out nor refused.
LEMMA Matching == ASSUME Base, History, Matches
                  PROVE /\ op.share \in Share /\ op.share \in known /\ ~Given(op.share)
                        /\ op.share \notin gone \cup refused
                        /\ op.session = what[op.share].session /\ Age(op.share) < Ttl /\ pc = "read"
<1>1. op.share \in Share /\ op.share \in known /\ ~(Age(op.share) >= Ttl) /\ pc = "read"
      /\ op.session = what[op.share].session
  BY DEF Matches, Kept, Expired, Base, Form
<1>2. ~Given(op.share)
  BY <1>1 DEF History, Given
<1>3. op.share \notin gone \cup refused
  BY <1>1 DEF History
<1>4. Age(op.share) \in Int
  BY <1>1, Ages
<1>5. Ttl \in Int
  BY Bounds
<1> QED BY <1>1, <1>2, <1>3, <1>4, <1>5

LEMMA TakePending == ASSUME Base, History, Pending, TakeText \/ TakeBinary PROVE Pending'
<1>1. /\ op'.share = op.share /\ op'.session = op.session /\ op'.now = clock
      /\ op'.out \in {"delivered", "rejected", "claimed"}
      /\ pc' = "chmod" \/ (pc' = "unlink_side" /\ op'.next = "removed" /\ op.share \notin known')
      /\ UNCHANGED <<what, given, gone, refused>> /\ Matches
  <2>1. CASE TakeText
    BY <2>1 DEF TakeText, Remove, Forget, Goto, story, Base, Typed, OpType
  <2>2. CASE TakeBinary
    BY <2>2 DEF TakeBinary, Goto, memory, story, Base, Typed, OpType
  <2> QED BY <2>1, <2>2
<1>2. AgeNow(op.share)' < Ttl
  BY <1>1, Matching DEF AgeNow, Age
<1> QED BY <1>1, Matching DEF Pending, Given, AgeNow, Age, Giving, Answers, Unlinking, Sweeping

\* A step of a call that has its answer, and of the clock.
LEMMA PendingKept == ASSUME Base, Base', Pending, op'.share = op.share, op'.session = op.session, op'.out = op.out,
                            op'.now = op.now, UNCHANGED <<given, refused>>,
                            \A s \in Share : Used(s) => what'[s] = what[s],
                            clock <= clock',
                            (Giving \/ Answers)' => Giving \/ Answers,
                            Answers' /\ op.out = "expired" => Answers,
                            Handing /\ (Giving \/ Answers)' => op.share \notin gone',
                            (Unlinking("removed") \/ pc = "removed")' => op.share \notin known',
                            (pc = "unlink_data" /\ op.next = "removed" /\ ~op.failed)' => "side" \notin disk'[op.share],
                            (pc = "removed" /\ ~op.failed)' => disk'[op.share] \cap {"side", "data"} = {},
                            Answers' /\ Handing => op.share \notin known' /\ disk'[op.share] \cap {"side", "data"} = {}
                     PROVE Pending'
<1>2. ASSUME (Giving \/ Answers)', op.out \in {"expired", "delivered", "claimed"}
      PROVE op.share \in Share /\ Used(op.share) /\ what'[op.share] = what[op.share]
  BY <1>2 DEF Base, Form
<1>3. PICK x : x = op.share
  OBVIOUS
<1>4. Given(x)' <=> Given(x)
  BY DEF Given
<1>5. ((Giving \/ Answers) /\ Handing =>
          /\ ~Given(x) /\ x \notin gone \cup refused
          /\ op.session = what[x].session /\ op.now - what[x].born < Ttl)'
  BY <1>2, <1>3, <1>4 DEF Pending, Handing, AgeNow
<1>6. ASSUME Answers', op.out = "expired" PROVE (clock - what[x].born >= Ttl)' /\ ~Given(x)'
  <2>1. clock - what[x].born >= Ttl /\ ~Given(x)
    BY <1>3, <1>6 DEF Pending, Age
  <2>2. what'[x] = what[x] /\ what[x].born \in Nat /\ clock \in Nat /\ clock' \in Nat
    BY <1>2, <1>3, <1>6, Ages DEF Base, Typed
  <2> QED BY <1>4, <2>1, <2>2, Bounds
<1>7. op'.share = x
  BY <1>3
<1> QED BY <1>3, <1>5, <1>6, <1>7 DEF Pending, Given, Age, AgeNow, Handing

LEMMA RefusalPending == ASSUME Base, History, Pending,
                               TakeExpired \/ \E s \in Share, session \in Session : BeginTake(s, session)
                        PROVE Pending'
<1>1. CASE TakeExpired
  <2>1. /\ pc' = "unlink_side" /\ op'.next = "sweep" /\ op'.share = op.share /\ op'.out = "expired"
        /\ op.share \in known /\ Age(op.share) >= Ttl /\ UNCHANGED <<clock, what, given>>
    BY <1>1 DEF TakeExpired, Kept, Expired, Remove, Goto, bounds, story, Base, Typed, OpType
  <2>2. ~Given(op.share)
    BY <2>1 DEF History, Given
  <2> QED BY <2>1, <2>2 DEF Pending, Giving, Unlinking, Handing, Age, Given
<1>2. CASE \E s \in Share, session \in Session : BeginTake(s, session)
  <2>1. PICK s \in Share, session \in Session : BeginTake(s, session)
    BY <1>2
  <2>2. \/ pc' = "read"
        \/ pc' = "sweep" /\ op'.out = "expired" /\ op'.share = s /\ s \in gone
    BY <2>1, Starting DEF BeginTake, Sweep, Goto, Base, OpType
  <2>3. s \in gone => Age(s) >= Ttl /\ ~Given(s)
    BY DEF History
  <2>4. UNCHANGED <<clock, what, given>>
    BY <2>1 DEF BeginTake, bounds, story
  <2> QED BY <2>2, <2>3, <2>4 DEF Pending, Giving, Answers, Sweeping, Unlinking, Handing, Age, Given
<1> QED BY <1>1, <1>2

LEMMA SweepPending == ASSUME Base, Base', Pending, SweepOne \/ SweepRest \/ SweepPast PROVE Pending'
<1>1. CASE SweepOne
  <2>1. PICK s \in Share : Due(s) /\ Remove(op, s, FALSE, "sweep") /\ gone' \subseteq gone \cup {s}
    BY <1>1 DEF SweepOne
  <2>2. /\ pc = "sweep" /\ pc' = "unlink_side" /\ op'.next = "sweep" /\ op'.then = op.then
        /\ op'.share = op.share /\ op'.session = op.session /\ op'.out = op.out /\ op'.now = op.now
        /\ s \in known /\ known' \subseteq known /\ UNCHANGED <<disk, what, clock, given, refused, unread>>
    BY <1>1, <2>1 DEF SweepOne, Due, Remove, Forget, Goto, bounds, story, Base, Typed, OpType
  <2>3. ~Giving /\ ~Giving' /\ (Answers' <=> Answers)
    BY <2>2 DEF Giving, Answers, Sweeping, Unlinking
  <2>4. Answers /\ Handing => op.share \notin known /\ disk[op.share] \cap {"side", "data"} = {}
                              /\ op.share \notin gone
    BY DEF Pending
  <2> QED BY <2>1, <2>2, <2>3, <2>4, Ages, PendingKept DEF Unlinking
<1>2. CASE SweepRest
  <2>1. /\ pc = "sweep" /\ pc' = op.then /\ op' = op /\ op.then \in {"idle", "lookup", "stage", "answer"}
        /\ gone' \subseteq gone /\ known' \subseteq known /\ UNCHANGED <<what, clock, given, refused, unread>>
    BY <1>2 DEF SweepRest, Goto, Base, Form
  <2>2. ~Giving' /\ (Answers' => Answers)
    BY <2>1 DEF Giving, Answers, Sweeping, Unlinking
  <2>3. Answers /\ Handing => op.share \notin known /\ disk[op.share] \cap {"side", "data"} = {}
                              /\ op.share \notin gone /\ op.share \in Share
    BY DEF Pending, Base, Form, Handing
  <2>4. \A s \in Share : disk'[s] \subseteq disk[s]
    BY <1>2, SweptFiles
  <2> QED BY <2>1, <2>2, <2>3, <2>4, Ages, PendingKept DEF Unlinking
<1>3. CASE SweepPast
  <2>0. /\ op' = [op EXCEPT !.missed = op'.missed] /\ gone' \subseteq gone /\ known' \subseteq known
        /\ \A s \in Share : disk'[s] \subseteq disk[s]
    <3>1. PICK missed \in SUBSET (Share \X File) : op' = [op EXCEPT !.missed = missed]
      BY <1>3, PastFiles
    <3>2. op' = [op EXCEPT !.missed = op'.missed]
      BY <3>1 DEF Base, Typed, OpType
    <3> QED BY <1>3, <3>2, PastFiles
  <2>1. /\ pc = "sweep" /\ pc' = op.then /\ op.then \in {"idle", "lookup", "stage", "answer"}
        /\ op'.share = op.share /\ op'.session = op.session /\ op'.out = op.out /\ op'.now = op.now
        /\ op'.then = op.then /\ UNCHANGED <<what, clock, given, refused>>
    BY <1>3, <2>0 DEF SweepPast, Goto, Base, Form, Typed, OpType, story
  <2>2. ~Giving' /\ (Answers' => Answers)
    BY <2>1 DEF Giving, Answers, Sweeping, Unlinking
  <2>3. Answers /\ Handing => op.share \notin known /\ disk[op.share] \cap {"side", "data"} = {}
                              /\ op.share \notin gone /\ op.share \in Share
    BY DEF Pending, Base, Form, Handing
  <2> QED BY <2>0, <2>1, <2>2, <2>3, Ages, PendingKept DEF Unlinking
<1> QED BY <1>1, <1>2, <1>3

LEMMA UnlinkPending == ASSUME Base, Base', Pending, UnlinkSidecar \/ UnlinkData PROVE Pending'
<1>1. PICK file \in {"side", "data"}, last \in BOOLEAN :
         /\ Unlink(file, last) /\ pc = IF file = "side" THEN "unlink_side" ELSE "unlink_data"
         /\ pc' = IF file = "side" THEN "unlink_data" ELSE op.next
  BY DEF UnlinkSidecar, UnlinkData, Goto
<1>2. pc \in {"unlink_side", "unlink_data"}
  BY <1>1
<1>3. /\ op'.share = op.share /\ op'.session = op.session /\ op'.out = op.out /\ op'.now = op.now
      /\ op'.next = op.next /\ op'.then = op.then /\ (op.failed => op'.failed)
      /\ op.rm \in Share /\ op.next \in {"sweep", "quota", "removed", "answer"}
      /\ op.strict <=> op.next = "removed"
      /\ op.next = "removed" => op.share = op.rm
      /\ \A s \in Share : disk'[s] \subseteq disk[s]
      /\ file \in disk'[op.rm] /\ op.strict => op'.failed
  <2>1. op.next = "removed" => op.share = op.rm
    BY <1>2 DEF Base, Form, Giving, Unlinking
  <2>2. op.rm \in Share /\ op.next \in {"sweep", "quota", "removed", "answer"} /\ (op.strict <=> op.next = "removed")
    BY <1>2 DEF Base, Form
  <2>3. /\ op' = [op EXCEPT !.rm = IF last THEN NoShare ELSE @, !.failed = op'.failed] /\ (op.failed => op'.failed)
        /\ \A s \in Share : disk'[s] \subseteq disk[s]
        /\ file \in disk'[op.rm] /\ op.strict => op'.failed
    BY <1>1, <1>2, UnlinkStep
  <2>4. /\ op'.share = op.share /\ op'.session = op.session /\ op'.out = op.out /\ op'.now = op.now
        /\ op'.next = op.next /\ op'.then = op.then
    BY <2>3 DEF Base, Typed, OpType
  <2> QED BY <2>1, <2>2, <2>3, <2>4
<1>4. UNCHANGED <<what, clock, given, refused, gone, known>>
  BY <1>1 DEF Unlink, memory
<1>5. ((Giving \/ Answers)' => Giving \/ Answers) /\ (Answers' => Answers)
  BY <1>1, <1>2, <1>3 DEF Giving, Answers, Sweeping, Unlinking
<1>6. Handing /\ (Giving \/ Answers) => op.share \notin gone /\ op.share \in Share
  BY DEF Pending, Base, Form, Handing
<1>7. (Unlinking("removed") \/ pc = "removed")' => op.share \notin known'
  BY <1>1, <1>2, <1>3, <1>4 DEF Pending, Unlinking
<1>8. (pc = "unlink_data" /\ op.next = "removed" /\ ~op.failed)' => "side" \notin disk'[op.share]
  BY <1>1, <1>3
<1>9. (pc = "removed" /\ ~op.failed)' => disk'[op.share] \cap {"side", "data"} = {}
  BY <1>1, <1>3 DEF Pending
<1>10. Answers' /\ Handing => op.share \notin known' /\ disk'[op.share] \cap {"side", "data"} = {}
  BY <1>3, <1>4, <1>5, <1>6 DEF Pending
<1> QED BY <1>3, <1>4, <1>5, <1>6, <1>7, <1>8, <1>9, <1>10, Ages, PendingKept

LEMMA GivingPending == ASSUME Base, Base', Pending, Chmod \/ Removed PROVE Pending'
<1>1. CASE Chmod
  <2>1. /\ pc = "chmod" /\ pc' = "unlink_side" /\ op'.next = "removed"
        /\ op'.share = op.share /\ op'.session = op.session /\ op'.out = op.out /\ op'.now = op.now
        /\ known' = known \ {op.share} /\ UNCHANGED <<disk, what, clock, given, refused, gone>>
    BY <1>1 DEF Chmod, Remove, Forget, Goto, bounds, story, Base, Typed, OpType
  <2>2. Giving /\ ~Answers'
    BY <2>1 DEF Giving, Answers, Sweeping, Unlinking
  <2>3. Handing => op.share \notin gone
    BY <2>2 DEF Pending
  <2> QED BY <2>1, <2>2, <2>3, Ages, PendingKept
<1>2. CASE Removed
  <2>1. pc = "removed" /\ op.out \in {"delivered", "rejected", "claimed"} /\ op.then = "answer"
        /\ UNCHANGED <<what, clock, given, refused, gone, known>>
    BY <1>2 DEF Removed, Base, Form, Giving, memory, bounds, story
  <2>2. CASE pc' = "answer" /\ op' = [op EXCEPT !.out = "error"]
    <3>1. op'.out = "error"
      BY <2>2 DEF Base, Typed, OpType
    <3> QED BY <2>2, <3>1, NothingPending DEF Giving, Unlinking
  <2>3. CASE ~op.failed /\ pc' = "sweep" /\ UNCHANGED <<disk, op, stuck>>
    <3>1. Giving /\ ~Giving'
      BY <2>1, <2>3 DEF Giving, Unlinking
    <3>2. Handing => op.share \notin gone
      BY <3>1 DEF Pending
    <3>3. op.share \notin known /\ disk[op.share] \cap {"side", "data"} = {}
      BY <2>1, <2>3 DEF Pending
    <3> QED BY <2>1, <2>3, <3>1, <3>2, <3>3, Ages, PendingKept DEF Unlinking
  <2> QED BY <1>2, <2>2, <2>3 DEF Removed, Goto
<1> QED BY <1>1, <1>2

LEMMA AroundPending == ASSUME Base, Base', Pending, Tick \/ Restart \/ \E s \in Share : JobEnds(s) PROVE Pending'
<1>1. /\ UNCHANGED <<what, known, gone, pc, op, given, refused, unread>> /\ clock <= clock'
      /\ \A s \in Share : disk'[s] \subseteq disk[s]
  <2>1. CASE Tick
    BY <2>1, Ages DEF Tick, memory, story
  <2>2. CASE Restart \/ \E s \in Share : JobEnds(s)
    BY <2>2, ClaimsGo, Ages DEF memory
  <2> QED BY <2>1, <2>2
<1>2. (Giving' <=> Giving) /\ (Answers' <=> Answers)
  BY <1>1 DEF Giving, Answers, Sweeping, Unlinking
<1>3. Giving \/ (Answers /\ Handing) => op.share \in Share
  BY DEF Base, Form, Handing
<1>4. Unlinking("removed") \/ pc = "removed" => Giving
  BY DEF Giving
<1>5. pc = "unlink_data" /\ op.next = "removed" => Giving
  BY DEF Giving, Unlinking
<1> QED BY <1>1, <1>2, <1>3, <1>4, <1>5, PendingKept DEF Pending, Unlinking

LEMMA StepPending == Base /\ Base' /\ History /\ Pending /\ [Next]_vars => Pending'
<1> SUFFICES ASSUME Base, Base', History, Pending, [Next]_vars PROVE Pending'
  OBVIOUS
<1>1. CASE UNCHANGED vars
  BY <1>1 DEF vars, memory, bounds, story, Pending, Giving, Answers, Sweeping, Unlinking, Handing, Age, AgeNow, Given
<1>2. CASE Call
  BY <1>2, IdlePending, RefusalPending DEF Call
<1>3. CASE Proceed
  BY <1>3, IdlePending, TakePending, RefusalPending, SweepPending, UnlinkPending, GivingPending DEF Proceed
<1> QED BY <1>1, <1>2, <1>3, IdlePending, AroundPending DEF Next

-----------------------------------------------------------------------------
(* What a sweep leaves, and the theorems.                                   *)

LEMMA SweepClears == ASSUME Base, SweepRest \/ SweepPast, op.then = "lookup" PROVE SweptClean'
<1>1. /\ pc = "sweep" /\ op.exclude = NoShare /\ opened /\ op'.now = op.now
      /\ UNCHANGED <<what, unread>> /\ stuck \subseteq stuck'
      /\ op.missed \subseteq op'.missed \/ SweepPast
  <2>1. CASE SweepRest
    BY <2>1, SweptFiles DEF SweepRest, Base, Form, Sweeping
  <2>2. CASE SweepPast
    <3>1. op'.now = op.now
      BY <2>2, PastFiles DEF Base, Typed, OpType
    <3> QED BY <2>2, <3>1 DEF SweepPast, Base, Form, Sweeping, story
  <2> QED BY <2>1, <2>2
<1>2. /\ known' \subseteq known /\ \A s \in gone' : ~Stale(s)
      /\ \A s \in known : ~(AgeNow(s) >= Ttl)
  <2>1. \A s \in known : ~(AgeNow(s) >= Ttl)
    BY <1>1, Bounds DEF SweepRest, SweepPast, Due, Base, Typed
  <2>2. CASE SweepRest
    BY <2>1, <2>2 DEF SweepRest
  <2>3. CASE SweepPast
    BY <2>1, <2>3, PastFiles
  <2> QED BY <2>1, <2>2, <2>3
<1>3. \A s \in Share : /\ disk'[s] \subseteq disk[s]
                      /\ \A f \in disk'[s] \cap Litter(s) : <<s, f>> \in stuck' \cup op'.missed
  <2>1. CASE SweepRest
    BY <2>1, SweptFiles
  <2>2. CASE SweepPast
    <3>1. PICK missed \in SUBSET (Share \X File) :
             disk' = [s \in Share |-> disk[s] \ Seen(s, missed)] /\ op' = [op EXCEPT !.missed = missed]
      BY <2>2, PastFiles
    <3>2. op'.missed = missed
      BY <3>1 DEF Base, Typed, OpType
    <3> QED BY <3>1, <3>2 DEF Seen
  <2> QED BY <2>1, <2>2
<1>4. ASSUME NEW s \in Share, "side" \in disk'[s], s \notin known PROVE <<s, "side">> \in stuck' \/ s \in unread
  <2>1. "side" \in disk[s] /\ stuck \subseteq stuck'
    BY <1>1, <1>3, <1>4
  <2>2. <<s, "side">> \in stuck \/ s \in unread
    BY <1>1, <1>4, <2>1 DEF Base, Away, Remains
  <2> QED BY <2>1, <2>2
<1>5. ASSUME NEW s \in Share
      PROVE LET left == {f \in disk'[s] : <<s, f>> \notin stuck' \cup op'.missed}
            IN /\ left \cap {"data.part", "side.part"} = {}
               /\ Used(s)' /\ AgeNow(s)' >= Ttl => s \notin known' /\ ("side" \in left => s \in unread')
               /\ Stale(s)' => s \notin gone' /\ left \cap {"data", "side"} = {}
  <2> DEFINE left == {f \in disk'[s] : <<s, f>> \notin stuck' \cup op'.missed}
  <2>1. /\ (Used(s)' <=> Used(s)) /\ AgeNow(s)' = AgeNow(s) /\ (Stale(s)' <=> Stale(s))
    BY <1>1 DEF Used, AgeNow, Stale
  <2>2. Litter(s) \cap left = {}
    BY <1>3
  <2>3. left \cap {"data.part", "side.part"} = {}
    BY <2>2 DEF Litter
  <2>4. Used(s) /\ AgeNow(s) >= Ttl => s \notin known' /\ ("side" \in left => s \in unread')
    BY <1>1, <1>2, <1>4
  <2>5. Stale(s) => s \notin gone' /\ left \cap {"data", "side"} = {}
    BY <1>2, <2>2 DEF Litter
  <2> QED BY <2>1, <2>3, <2>4, <2>5
<1> QED BY <1>5 DEF SweptClean

LEMMA SweptStays == ASSUME SweptClean, pc' = "lookup" => pc = "lookup", UNCHANGED <<what, known, gone, op, unread>>,
                           stuck \subseteq stuck', \A s \in Share : disk'[s] \subseteq disk[s]
                    PROVE SweptClean'
BY DEF SweptClean, Used, AgeNow, Stale

LEMMA NotLooking == ASSUME Base, Next, pc' = "lookup"
                    PROVE \/ (SweepRest \/ SweepPast) /\ op.then = "lookup"
                          \/ Tick \/ Restart \/ \E s \in Share : JobEnds(s)
<1>1. CASE Call
  BY <1>1 DEF Call, BeginPut, BeginTake, TakeUnread, BeginSweep, BeginStage, Sweep, Goto
<1>2. CASE \/ UnlinkSidecar \/ UnlinkData
  <2>1. op.next # "lookup" \/ ~(pc \in {"unlink_side", "unlink_data"})
    BY DEF Base, Form
  <2> QED BY <1>2, <2>1 DEF UnlinkSidecar, UnlinkData, Goto
<1>3. CASE SweepRest \/ SweepPast
  BY <1>3 DEF SweepRest, SweepPast, Goto
<1>4. CASE Proceed /\ ~(UnlinkSidecar \/ UnlinkData \/ SweepRest \/ SweepPast)
  BY <1>4 DEF Proceed, SweepOne, Answer, FoundAlready, FoundRemains, NotFound, QuotaRemains, Allocate, Publish,
     PublishFault, Published, NotThere, TakeExpired, TakeMismatch, TakeText, TakeBinary, TakeFault, Chmod,
     ChmodFault, Removed, StageWrite, StageDone, Sweep, Remove, Goto
<1>5. CASE Open \/ Crash
  BY <1>5 DEF Open, Crash, Sweep, Goto
<1> QED BY <1>1, <1>2, <1>3, <1>4, <1>5 DEF Next

LEMMA StepSwept == Base /\ SweptClean /\ [Next]_vars => SweptClean'
<1> SUFFICES ASSUME Base, SweptClean, [Next]_vars PROVE SweptClean'
  OBVIOUS
<1>1. CASE UNCHANGED vars
  BY <1>1, SweptStays DEF vars, memory, story
<1>2. CASE Next /\ pc' # "lookup"
  BY <1>2 DEF SweptClean
<1>3. CASE Next /\ pc' = "lookup"
  <2>1. CASE (SweepRest \/ SweepPast) /\ op.then = "lookup"
    BY <2>1, SweepClears
  <2>2. CASE Tick
    BY <2>2, SweptStays DEF Tick, memory, story
  <2>3. CASE Restart \/ \E s \in Share : JobEnds(s)
    BY <2>3, ClaimsGo, SweptStays DEF memory
  <2> QED BY <1>3, <2>1, <2>2, <2>3, NotLooking
<1> QED BY <1>1, <1>2, <1>3

-----------------------------------------------------------------------------
\* The invariant holds throughout: what the call in progress carries, what the
\* files of a share can be at each step of a publication, a removal or a take,
\* what counts against the quota, and what has been handed out.
THEOREM Invariance == Spec => []IInv
<1>1. Init => IInv
  <2>1. Init => History /\ Pending /\ SweptClean
    BY DEF Init, History, Pending, SweptClean, Giving, Answers, Sweeping, Unlinking
  <2> QED BY <2>1, InitBase, InitLive, InitOwners DEF IInv, Handed
<1>2. IInv /\ [Next]_vars => IInv'
  BY StepBase, StepLive, StepOwners, StepHistory, StepPending, StepSwept DEF IInv, Handed
<1> QED BY <1>1, <1>2, PTL DEF Spec

\* Every variable keeps its type, and a sidecar found on disk, at whatever moment
\* the process was killed, was published after its data.
THEOREM TypeCorrect == Spec => []TypeOK
<1>1. IInv => TypeOK
  <2>1. Base => /\ known \cup gone \cup owned \cup refused \subseteq Share
                /\ {up, opened, sweeping} \subseteq BOOLEAN
    BY DEF Base, Typed
  <2> QED BY <2>1 DEF IInv, Base, Typed, Whole, TypeOK
<1> QED BY <1>1, Invariance, PTL

\* No session ever holds more live shares than its quota, although only a put
\* counts them, and although a kill, a reload or a failing removal can change
\* what is counted; a share a start could not read, or neither of whose files
\* could be unlinked, is not counted.
THEOREM WithinQuota == Spec => []QuotaHeld
<1>1. IInv => QuotaHeld
  <2> SUFFICES ASSUME IInv, NEW session \in Session
               PROVE Cardinality({s \in LiveOf(session) : "data" \in disk[s] /\ ~Astray(s)}) <= MaxLive
    BY DEF QuotaHeld
  <2>1. {s \in LiveOf(session) : "data" \in disk[s] /\ ~Astray(s)} \in SUBSET Counted(session)
    BY DEF IInv, Base, Typed, LiveOf, Counted
  <2>2. Counted(session) \in SUBSET Share /\ Cardinality(Counted(session)) <= MaxLive
    BY DEF IInv, Live, InQuota, Counted
  <2> QED BY <2>1, <2>2, CardinalityFits
<1> QED BY <1>1, Invariance, PTL

\* A share is handed out at most once, to the session it was staged for, in time
\* and never after it was refused; one live share answers to a key, but for one a
\* start could not read or neither of whose files could be unlinked; and between
\* calls a claimed file has an owner, and an owner its file.
THEOREM HandedOutOnce == Spec => []DeliveredOnce
<1>1. IInv => DeliveredAsStaged
  <2> SUFFICES ASSUME IInv, NEW i \in 1 .. Len(given)
               PROVE LET g == given[i]
                     IN /\ g.to = what[g.share].session
                        /\ g.at - what[g.share].born < Ttl
                        /\ g.share \notin refused
                        /\ \A j \in 1 .. i - 1 : given[j].share # g.share
    BY DEF DeliveredAsStaged
  <2>1. Given(given[i].share)
    BY DEF Given
  <2>2. given[i].share \notin refused
    BY <2>1 DEF IInv, Handed, History
  <2> QED BY <2>2 DEF IInv, Handed, History
<1>2. IInv => OneSharePerKey
  BY DEF IInv, Base, Live, Found, OneSharePerKey, Kept
<1>3. IInv => ClaimedIsOwned
  <2> SUFFICES ASSUME IInv, up, pc = "idle", NEW s \in Share
               PROVE s \in owned <=> {f \in disk[s] \cap {"claimed", "claimed.part"} : <<s, f>> \notin stuck} # {}
    BY DEF ClaimedIsOwned
  <2>1. \A t \in Share : ~InFlight(t)
    BY DEF InFlight, Claiming, Giving, Unlinking
  <2>2. CASE s \in owned
    BY <2>2 DEF IInv, Handed, Owners, Claims
  <2>3. CASE s \notin owned
    BY <2>1, <2>3 DEF IInv, Handed, Owners, Claims
  <2> QED BY <2>2, <2>3
<1> QED BY <1>1, <1>2, <1>3, Invariance, PTL DEF DeliveredOnce

\* What a restart would load is what the process knows, but for a sidecar it could
\* not read or unlink, and a sweep leaves no litter, no expired sidecar and nothing
\* older than the grace, but for what it could not see, read or unlink.
THEOREM RestartSafe == Spec => []SurvivesRestart
<1>1. IInv => RestartIsTransparent
  <2> SUFFICES ASSUME IInv, Idle, NEW s \in Share, <<s, "side">> \notin stuck
               PROVE (s \in known => s \in Sidecars) /\ (s \in Sidecars => s \in known \cup unread)
    BY DEF RestartIsTransparent, Sidecars, IInv, Base, Typed
  <2>1. s \in known => "side" \in disk[s]
    BY DEF IInv, Base, Whole
  <2>2. "side" \in disk[s] => s \in known \cup unread
    BY DEF IInv, Base, Away, Remains, Idle
  <2> QED BY <2>1, <2>2 DEF Sidecars
<1>2. IInv => SweptClean
  BY DEF IInv, Handed
<1> QED BY <1>1, <1>2, Invariance, PTL DEF SurvivesRestart
==============================================================================
