------------------------- MODULE PairingStoreProofs -------------------------
(* Proofs about PairingStore, for every number of processes, threads, pids   *)
(* and issues, every number of kills and of disk faults.                     *)
EXTENDS PairingStore, FiniteSetTheorems, TLAPS

-----------------------------------------------------------------------------
(* Types: first the control moves every action is built from.               *)

LEMMA FinishTyped ==
    ASSUME LockOK, ThreadOK, NEW a \in Actor, NEW result \in Answers,
           Finish(a, result)
    PROVE  LockOK' /\ ThreadOK'
<1>1. NoLocal \in LocalType
  BY SMT, ConstantsOK DEF NoLocal, Local, LocalType, Time
<1>2. "idle" \in PCs /\ "idle" \notin AtPid
  BY DEF PCs, AtPid
<1>3. LockOK'
  BY ConstantsOK DEF LockOK, Finish
<1> QED BY <1>1, <1>2, <1>3 DEF ThreadOK, Finish

LEMMA GotoTyped ==
    ASSUME LockOK, ThreadOK, NEW a \in Actor, NEW label \in PCs,
           NEW l \in LocalType, label \in AtPid => l.pid \in Pid,
           Goto(a, label, l)
    PROVE  LockOK' /\ ThreadOK'
BY DEF LockOK, ThreadOK, Goto

LEMMA BeginTyped ==
    ASSUME LockOK, ThreadOK, NEW a \in Actor, NEW label \in PCs,
           NEW l \in LocalType, label \in AtPid => l.pid \in Pid,
           Begin(a, label, l)
    PROVE  LockOK' /\ ThreadOK'
BY DEF LockOK, ThreadOK, Begin, Answers
LEMMA BoundsAreNat ==
    /\ Grace \in Nat /\ MaxTime \in Nat /\ MaxIssues \in Nat
    /\ MaxFaults \in Nat /\ MaxCrashes \in Nat
BY ConstantsOK

LEMMA CountTyped ==
    ASSUME NEW f \in [Secret -> Nat], NEW s
    PROVE  [f EXCEPT ![s] = @ + 1] \in [Secret -> Nat]
<1> DEFINE g == [f EXCEPT ![s] = @ + 1]
<1>1. \A t \in Secret : g[t] = IF t = s THEN f[t] + 1 ELSE f[t]
  OBVIOUS
<1>2. \A t \in Secret : f[t] \in Nat
  OBVIOUS
<1>3. \A t \in Secret : g[t] \in Nat
  <2> HIDE DEF g
  <2> QED BY <1>1, <1>2
<1>4. g = [t \in Secret |-> g[t]]
  OBVIOUS
<1> HIDE DEF g
<1> QED BY <1>3, <1>4 DEF g

LEMMA FullTyped ==
    ASSUME NEW s \in 0 .. MaxIssues, NEW created \in Time, NEW count \in Nat,
           NEW total \in Nat, NEW until \in Nat
    PROVE  Full(s, created, count, total, until) \in RecordFile
BY DEF Full, RecordFile

LEMMA NoRecTyped == NoRec \in RecordFile /\ Torn \in RecordFile
BY ConstantsOK DEF NoRec, Torn, Full, RecordFile, Time

LEMMA TombTyped ==
    ASSUME NEW kind \in {"absent", "torn", "full"},
           NEW state \in {"none", "consumed", "expired"}, NEW exp \in Nat
    PROVE  Tomb(kind, state, exp) \in TombFile
BY DEF Tomb, TombFile

LEMMA LocalTyped ==
    ASSUME NEW op \in {"none", "claim", "issue", "revoke", "sweep", "start"},
           NEW p \in Pid \cup {NoPid}, NEW s \in 0 .. MaxIssues,
           NEW e \in BOOLEAN, NEW now \in Time
    PROVE  Local(op, p, s, e, now) \in LocalType
BY DEF Local, LocalType

LEMMA NoLocalTyped == NoLocal \in LocalType /\ 0 \in Time
<1>1. 0 \in Time /\ 0 \in 0 .. MaxIssues
  BY BoundsAreNat DEF Time
<1> QED BY <1>1, LocalTyped DEF NoLocal

LEMMA BumpedTyped ==
    ASSUME NEW r \in RecordFile, NEW now \in Time
    PROVE  Bumped(r, now) \in RecordFile
<1>1. Lockout \in Nat /\ now \in Nat
  BY ConstantsOK DEF Time
<1> QED BY <1>1 DEF Bumped, RecordFile, Full

LEMMA ExpiryTyped == ASSUME NEW r \in RecordFile PROVE Expiry(r) \in Nat
BY ConstantsOK DEF Expiry, RecordFile, Time

LEMMA UnlinkTyped ==
    ASSUME DiskOK, LockOK, ThreadOK, NEW a \in Actor, NEW l \in LocalType,
           NEW p \in Pid, NEW state \in {"consumed", "expired"},
           UnlinkFor(a, l, p, state), UNCHANGED <<part, tomb>>
    PROVE  DiskOK' /\ LockOK' /\ ThreadOK'
<1> DEFINE m == [l EXCEPT !.pid = p, !.state = state, !.exp = Expiry(rec[p])]
<1>1. Expiry(rec[p]) \in Nat
  BY ExpiryTyped DEF DiskOK
<1>2. m \in LocalType /\ m.pid = p
  BY <1>1 DEF LocalType
<1>3. Goto(a, "t_create", m) /\ "t_create" \in PCs
  BY DEF UnlinkFor, PCs, Holding
<1>4. LockOK' /\ ThreadOK'
  <2> HIDE DEF m
  <2> QED BY <1>2, <1>3, GotoTyped
<1>5. DiskOK'
  BY NoRecTyped DEF DiskOK, UnlinkFor
<1> QED BY <1>4, <1>5

-----------------------------------------------------------------------------
(* Types, action by action.                                                 *)

LEMMA FaultTyped ==
    ASSUME WorldOK, Fault, UNCHANGED <<clock, issues, pidOf, shown, crashes>>
    PROVE  WorldOK'
BY BoundsAreNat DEF Fault, WorldOK

LEMMA ClaimTyped ==
    ASSUME TypeOK, NEW a \in Actor,
           \/ BeginClaim(a) \/ CheckTombstone(a) \/ CheckRecord(a)
           \/ ExpireUnderLock(a) \/ ConsumeUnderLock(a) \/ CreateTombstone(a)
           \/ FillTombstone(a) \/ ReturnCredential(a)
           \/ UnlinkFault(a) \/ TombstoneFault(a) \/ ReturnFault(a) \/ ReadFault(a)
    PROVE  TypeOK'
<1> USE DEF TypeOK
<1>1. loc[a] \in LocalType /\ (pc[a] \in AtPid => loc[a].pid \in Pid)
  BY DEF ThreadOK
<1>2. CASE BeginClaim(a)
  <2>1. PICK p \in Pid, e \in BOOLEAN, s \in 0 .. MaxIssues :
            Begin(a, "c_tomb", Local("claim", p, s, e, clock))
    <3>1. 0 \in 0 .. MaxIssues
      BY BoundsAreNat
    <3>2. \A s \in shown : s \in 0 .. MaxIssues
      BY DEF WorldOK
    <3> QED BY <1>2, <3>1, <3>2 DEF BeginClaim
  <2>2. Local("claim", p, s, e, clock) \in LocalType
    BY LocalTyped DEF WorldOK
  <2>3. Local("claim", p, s, e, clock).pid = p /\ "c_tomb" \in PCs
    BY DEF Local, PCs
  <2>4. LockOK' /\ ThreadOK'
    BY <2>1, <2>2, <2>3, BeginTyped
  <2> QED BY <1>2, <2>4
        DEF BeginClaim, disk, ghost, world, DiskOK, WorldOK, GhostOK
<1>3. CASE CheckTombstone(a)
  <2>1. LockOK' /\ ThreadOK'
    <3>1. CASE Finish(a, TombAnswer(loc[a].pid))
      BY <3>1, FinishTyped DEF TombAnswer, Answers
    <3>2. CASE Goto(a, "c_read", loc[a])
      BY <3>2, <1>1, <1>3, GotoTyped DEF CheckTombstone, AtPid, PCs
    <3> QED BY <1>3, <3>1, <3>2 DEF CheckTombstone
  <2> QED BY <1>3, <2>1
        DEF CheckTombstone, disk, ghost, world, DiskOK, WorldOK, GhostOK
<1>4. CASE CheckRecord(a)
  <2>0. loc[a].pid \in Pid
    BY <1>1, <1>4 DEF CheckRecord, AtPid
  <2>1. LockOK' /\ ThreadOK'
    <3>1. CASE Finish(a, "Invalid") \/ Finish(a, "RateLimited")
      BY <3>1, FinishTyped DEF Answers
    <3>2. CASE \E w \in {"w_expire", "w_claim", "w_fail"} : Goto(a, w, loc[a])
      BY <3>2, <2>0, <1>1, GotoTyped DEF PCs, Waiting, Critical
    <3> QED BY <1>4, <3>1, <3>2 DEF CheckRecord
  <2> QED BY <1>4, <2>1
        DEF CheckRecord, disk, ghost, world, DiskOK, WorldOK, GhostOK
<1>5. CASE ExpireUnderLock(a)
  <2>0. loc[a].pid \in Pid /\ UNCHANGED <<part, tomb, ghost, world>>
    BY <1>1, <1>5 DEF ExpireUnderLock, AtPid
  <2>1. CASE UnlinkFor(a, loc[a], loc[a].pid, "expired")
    BY <2>0, <2>1, <1>1, UnlinkTyped DEF ghost, world, WorldOK, GhostOK
  <2>2. CASE UNCHANGED rec /\ (Finish(a, "Invalid")
                               \/ Finish(a, GoneAnswer(loc[a].pid)))
    <3>1. LockOK' /\ ThreadOK'
      BY <2>2, FinishTyped DEF Answers, GoneAnswer, TombAnswer
    <3> QED BY <2>0, <2>2, <3>1 DEF ghost, world, DiskOK, WorldOK, GhostOK
  <2> QED BY <1>5, <2>1, <2>2 DEF ExpireUnderLock
<1>6. CASE ConsumeUnderLock(a)
  <2>0. loc[a].pid \in Pid /\ UNCHANGED <<part, tomb, ghost, world>>
    BY <1>1, <1>6 DEF ConsumeUnderLock, AtPid
  <2>1. CASE UnlinkFor(a, loc[a], loc[a].pid, "consumed")
    BY <2>0, <2>1, <1>1, UnlinkTyped DEF ghost, world, WorldOK, GhostOK
  <2>2. CASE /\ UNCHANGED rec /\ Finish(a, Recheck(loc[a]))
             /\ Recheck(loc[a]) # "consume"
    <3>1. Recheck(loc[a]) \in Answers
      BY <2>2 DEF Recheck, TombAnswer, Answers
    <3>2. LockOK' /\ ThreadOK'
      BY <2>2, <3>1, FinishTyped
    <3> QED BY <2>0, <2>2, <3>2 DEF ghost, world, DiskOK, WorldOK, GhostOK
  <2> QED BY <1>6, <2>1, <2>2 DEF ConsumeUnderLock
<1>7. CASE CreateTombstone(a)
  <2>0. loc[a].pid \in Pid
    BY <1>1, <1>7 DEF CreateTombstone, AtPid
  <2>1. DiskOK'
    BY <1>7, TombTyped DEF CreateTombstone, TornTomb, DiskOK
  <2>2. LockOK' /\ ThreadOK'
    BY <1>7, <1>1, <2>0, GotoTyped DEF CreateTombstone, PCs, Holding
  <2> QED BY <1>7, <2>1, <2>2 DEF CreateTombstone, ghost, world, WorldOK, GhostOK
<1>8. CASE FillTombstone(a)
  <2>0. loc[a].pid \in Pid
    BY <1>1, <1>8 DEF FillTombstone, AtPid
  <2>1. DiskOK'
    <3>1. Tomb("full", loc[a].state, loc[a].exp) \in TombFile
      BY <1>1, TombTyped DEF LocalType
    <3> QED BY <1>8, <3>1 DEF FillTombstone, DiskOK
  <2>2. LockOK' /\ ThreadOK'
    <3> DEFINE m == [loc[a] EXCEPT !.pid = NoPid, !.state = "none", !.exp = 0]
    <3>1. CASE Goto(a, "sweep", m)
      <4>1. m \in LocalType
        BY <1>1 DEF LocalType
      <4> HIDE DEF m
      <4> QED BY <3>1, <4>1, GotoTyped DEF PCs, Holding, AtPid
    <3>2. CASE Finish(a, "Expired")
      BY <3>2, FinishTyped DEF Answers
    <3>3. CASE Goto(a, "c_return", loc[a])
      BY <3>3, <1>1, <2>0, GotoTyped DEF PCs, Holding
    <3> QED BY <1>8, <3>1, <3>2, <3>3 DEF FillTombstone
  <2> QED BY <1>8, <2>1, <2>2 DEF FillTombstone, ghost, world, WorldOK, GhostOK
<1>9. CASE ReturnCredential(a)
  <2>1. LockOK' /\ ThreadOK'
    BY <1>9, FinishTyped DEF ReturnCredential, Answers
  <2>2. GhostOK'
    BY <1>9, CountTyped DEF ReturnCredential, GhostOK
  <2> QED BY <1>9, <2>1, <2>2 DEF ReturnCredential, disk, world, DiskOK, WorldOK
<1>10. CASE UnlinkFault(a) \/ ReturnFault(a)
  <2>1. LockOK' /\ ThreadOK'
    BY <1>10, FinishTyped DEF UnlinkFault, ReturnFault, Answers
  <2>2. UNCHANGED <<disk, ghost>>
    BY <1>10 DEF UnlinkFault, ReturnFault
  <2>3. WorldOK'
    <3>1. Fault /\ UNCHANGED <<clock, issues, pidOf, shown, crashes>>
      BY <1>10 DEF UnlinkFault, ReturnFault
    <3> QED BY <3>1, FaultTyped
  <2> QED BY <2>1, <2>2, <2>3 DEF disk, ghost, DiskOK, GhostOK
<1>11. CASE TombstoneFault(a)
  <2>1. LockOK' /\ ThreadOK'
    BY <1>11, FinishTyped DEF TombstoneFault, Answers
  <2>2. DiskOK'
    <3>1. loc[a].pid \in Pid /\ Tomb("full", loc[a].state, loc[a].exp) \in TombFile
      BY <1>1, <1>11, TombTyped DEF TombstoneFault, AtPid, LocalType
    <3> QED BY <1>11, <3>1 DEF TombstoneFault, DiskOK
  <2>3. WorldOK'
    BY <1>11, FaultTyped DEF TombstoneFault
  <2> QED BY <1>11, <2>1, <2>2, <2>3 DEF TombstoneFault, ghost, GhostOK
<1>12. CASE ReadFault(a)
  <2>1. LockOK' /\ ThreadOK'
    <3>1. CASE Goto(a, "c_read", loc[a]) /\ pc[a] = "c_tomb"
      BY <1>1, <3>1, GotoTyped DEF PCs, AtPid
    <3>2. CASE Finish(a, "Invalid")
      BY <3>2, FinishTyped DEF Answers
    <3> QED BY <1>12, <3>1, <3>2 DEF ReadFault
  <2>2. GhostOK'
    <3>1. CASE UNCHANGED misses
      BY <1>12, <3>1 DEF ReadFault, GhostOK
    <3>2. CASE Miss(loc[a].pid)
      BY <1>12, <3>2, CountTyped DEF Miss, ReadFault, GhostOK
    <3> QED BY <1>12, <3>1, <3>2 DEF ReadFault
  <2>3. WorldOK'
    BY <1>12, FaultTyped DEF ReadFault
  <2> QED BY <1>12, <2>1, <2>2, <2>3 DEF ReadFault, disk, DiskOK
<1> QED BY <1>2, <1>3, <1>4, <1>5, <1>6, <1>7, <1>8, <1>9, <1>10, <1>11, <1>12

LEMMA FailureTyped ==
    ASSUME TypeOK, NEW a \in Actor,
           \/ FailUnderLock(a) \/ ReplacePart(a)
           \/ ReplaceFault(a) \/ ReplacedFault(a)
    PROVE  TypeOK'
<1> USE DEF TypeOK
<1>1. loc[a] \in LocalType /\ loc[a].pid \in Pid
  BY DEF ThreadOK, FailUnderLock, ReplacePart, ReplaceFault, ReplacedFault, AtPid
<1>2. ASSUME Miss(loc[a].pid) PROVE misses' \in [Secret -> Nat]
  BY <1>2, CountTyped DEF Miss, GhostOK
<1>3. CASE FailUnderLock(a)
  <2>1. misses' \in [Secret -> Nat]
    BY <1>2, <1>3 DEF FailUnderLock, GhostOK
  <2>2. DiskOK'
    <3>1. Bumped(rec[loc[a].pid], loc[a].now) \in RecordFile
      BY <1>1, BumpedTyped DEF DiskOK, LocalType
    <3> QED BY <1>3, <3>1, NoRecTyped DEF FailUnderLock, DiskOK
  <2>3. LockOK' /\ ThreadOK'
    <3>1. CASE Finish(a, "Invalid") \/ Finish(a, "RateLimited")
      BY <3>1, FinishTyped DEF Answers
    <3>2. CASE Goto(a, "f_replace", loc[a])
      BY <3>2, <1>1, GotoTyped DEF PCs, Holding
    <3> QED BY <1>3, <3>1, <3>2 DEF FailUnderLock
  <2> QED BY <1>3, <2>1, <2>2, <2>3 DEF FailUnderLock, world, WorldOK, GhostOK
<1>4. CASE ReplacePart(a)
  <2>1. LockOK' /\ ThreadOK'
    BY <1>4, FinishTyped DEF ReplacePart, Answers
  <2>2. DiskOK'
    BY <1>1, <1>4, NoRecTyped DEF ReplacePart, DiskOK
  <2> QED BY <1>2, <1>4, <2>1, <2>2 DEF ReplacePart, world, WorldOK, GhostOK
<1>5. CASE ReplaceFault(a)
  <2>1. LockOK' /\ ThreadOK'
    BY <1>5, FinishTyped DEF ReplaceFault, Answers
  <2>2. DiskOK'
    BY <1>1, <1>5, NoRecTyped DEF ReplaceFault, DiskOK
  <2>3. WorldOK'
    BY <1>5, BoundsAreNat DEF ReplaceFault, Fault, WorldOK
  <2> QED BY <1>2, <1>5, <2>1, <2>2, <2>3 DEF ReplaceFault, GhostOK
<1>6. CASE ReplacedFault(a)
  <2>1. LockOK' /\ ThreadOK'
    BY <1>6, FinishTyped DEF ReplacedFault, Answers
  <2>2. DiskOK'
    BY <1>1, <1>6, NoRecTyped DEF ReplacedFault, DiskOK
  <2>3. WorldOK'
    BY <1>6, FaultTyped DEF ReplacedFault
  <2> QED BY <1>2, <1>6, <2>1, <2>2, <2>3 DEF ReplacedFault, GhostOK
<1> QED BY <1>3, <1>4, <1>5, <1>6

LEMMA OtherRecordsTyped ==
    ASSUME NEW keep
    PROVE  OtherRecords(keep) \subseteq {"part", "rec", "tomb"} \X Pid
BY DEF OtherRecords, Records

LEMMA IssueTyped ==
    ASSUME TypeOK, NEW a \in Actor,
           \/ BeginIssue(a) \/ AllocateRecord(a) \/ NoFreePid(a)
           \/ FillRecord(a) \/ IssueFault(a) \/ FillFault(a)
    PROVE  TypeOK'
<1> USE DEF TypeOK
<1>1. loc[a] \in LocalType
  BY DEF ThreadOK
<1>2. CASE BeginIssue(a)
  <2>1. issues + 1 \in 0 .. MaxIssues /\ 0 \in Time
    BY <1>2, BoundsAreNat DEF BeginIssue, WorldOK, Time
  <2>2. Local("issue", NoPid, issues + 1, FALSE, 0) \in LocalType
    BY <2>1, LocalTyped
  <2>3. LockOK' /\ ThreadOK'
    BY <1>2, <2>2, BeginTyped DEF BeginIssue, PCs, Waiting, Critical, AtPid
  <2> QED BY <1>2, <2>1, <2>3
        DEF BeginIssue, disk, ghost, DiskOK, WorldOK, GhostOK
<1>3. CASE AllocateRecord(a)
  <2>1. PICK p \in Pid :
            /\ rec' = [rec EXCEPT ![p] = Torn]
            /\ pidOf' = [pidOf EXCEPT ![loc[a].secret] = p]
            /\ Goto(a, "i_fill", [loc[a] EXCEPT !.pid = p, !.now = clock])
    BY <1>3 DEF AllocateRecord, FreePids
  <2> DEFINE m == [loc[a] EXCEPT !.pid = p, !.now = clock]
  <2>2. m \in LocalType /\ m.pid \in Pid
    BY <1>1 DEF LocalType, WorldOK
  <2>3. LockOK' /\ ThreadOK'
    <3> HIDE DEF m
    <3>1. Goto(a, "i_fill", m)
      BY <2>1 DEF m
    <3> QED BY <2>2, <3>1, GotoTyped DEF PCs, Holding
  <2>4. DiskOK' /\ pidOf' \in [Secret -> Pid \cup {NoPid}]
    BY <1>3, <2>1, NoRecTyped DEF AllocateRecord, DiskOK, WorldOK
  <2> QED BY <1>3, <2>3, <2>4 DEF AllocateRecord, ghost, WorldOK, GhostOK
<1>4. CASE NoFreePid(a)
  <2>1. LockOK' /\ ThreadOK'
    BY <1>4, FinishTyped DEF NoFreePid, Answers
  <2> QED BY <1>4, <2>1 DEF NoFreePid, disk, ghost, world, DiskOK, WorldOK, GhostOK
<1>5. CASE FillRecord(a)
  <2> DEFINE m == [loc[a] EXCEPT !.todo = OtherRecords(loc[a].pid)]
  <2>1. m \in LocalType
    BY <1>1, OtherRecordsTyped DEF LocalType
  <2>2. LockOK' /\ ThreadOK'
    <3> HIDE DEF m
    <3>1. Goto(a, "remove", m)
      BY <1>5 DEF m, FillRecord
    <3> QED BY <2>1, <3>1, GotoTyped DEF PCs, Holding, AtPid
  <2>3. Full(loc[a].secret, loc[a].now, 0, 0, 0) \in RecordFile
    BY <1>1, FullTyped DEF LocalType
  <2>4. DiskOK'
    BY <1>5, <2>3 DEF FillRecord, DiskOK
  <2> QED BY <1>5, <2>2, <2>4 DEF FillRecord, ghost, world, WorldOK, GhostOK
<1>6. CASE IssueFault(a)
  <2>1. LockOK' /\ ThreadOK'
    BY <1>6, FinishTyped DEF IssueFault, Answers
  <2>2. DiskOK'
    BY <1>6, NoRecTyped DEF IssueFault, DiskOK
  <2>3. WorldOK'
    BY <1>6, BoundsAreNat DEF IssueFault, Fault, WorldOK
  <2> QED BY <1>6, <2>1, <2>2, <2>3 DEF IssueFault, ghost, GhostOK
<1>7. CASE FillFault(a)
  <2>1. LockOK' /\ ThreadOK'
    BY <1>7, FinishTyped DEF FillFault, Answers
  <2>2. Full(loc[a].secret, loc[a].now, 0, 0, 0) \in RecordFile
    BY <1>1, FullTyped DEF LocalType
  <2>3. DiskOK'
    BY <1>7, <2>2 DEF FillFault, DiskOK
  <2>4. WorldOK'
    BY <1>7, FaultTyped DEF FillFault
  <2> QED BY <1>7, <2>1, <2>3, <2>4 DEF FillFault, ghost, GhostOK
<1> QED BY <1>2, <1>3, <1>4, <1>5, <1>6, <1>7

LEMMA KeepTyped ==
    ASSUME LockOK, ThreadOK, NEW a \in Actor, NEW skip \in SUBSET Pid,
           KeepNewest(a, skip)
    PROVE  LockOK' /\ ThreadOK'
<1>1. loc[a] \in LocalType
  BY DEF ThreadOK
<1>2. PICK m \in LocalType : Goto(a, "remove", m)
  <2>1. CASE Goto(a, "remove", [loc[a] EXCEPT !.todo = {}, !.skip = skip])
    <3>1. [loc[a] EXCEPT !.todo = {}, !.skip = skip] \in LocalType
      BY <1>1 DEF LocalType
    <3> QED BY <2>1, <3>1
  <2>2. CASE \E n \in LiveRecords \ skip :
                Goto(a, "remove",
                     [loc[a] EXCEPT !.todo = {"rec"} \X ((LiveRecords \ skip) \ {n}),
                                    !.skip = skip])
    <3>1. PICK n \in LiveRecords \ skip :
                Goto(a, "remove",
                     [loc[a] EXCEPT !.todo = {"rec"} \X ((LiveRecords \ skip) \ {n}),
                                    !.skip = skip])
      BY <2>2
    <3>2. {"rec"} \X ((LiveRecords \ skip) \ {n}) \subseteq {"part", "rec", "tomb"} \X Pid
      BY DEF LiveRecords
    <3>3. [loc[a] EXCEPT !.todo = {"rec"} \X ((LiveRecords \ skip) \ {n}),
                         !.skip = skip] \in LocalType
      BY <1>1, <3>2 DEF LocalType
    <3> QED BY <3>1, <3>3
  <2> QED BY <2>1, <2>2 DEF KeepNewest
<1> QED BY <1>2, GotoTyped DEF PCs, Holding, AtPid

LEMMA DueTyped ==
    ASSUME LockOK, ThreadOK, NEW a \in Actor, NEW skip,
           Goto(a, "sweep", [loc[a] EXCEPT !.todo = SweepDue(skip)])
    PROVE  LockOK' /\ ThreadOK'
<1> DEFINE m == [loc[a] EXCEPT !.todo = SweepDue(skip)]
<1>1. SweepDue(skip) \subseteq {"part", "rec", "tomb"} \X Pid
  BY DEF SweepDue, LiveRecords
<1>2. m \in LocalType
  BY <1>1 DEF ThreadOK, LocalType
<1>3. Goto(a, "sweep", m)
  OBVIOUS
<1> HIDE DEF m
<1> QED BY <1>2, <1>3, GotoTyped DEF PCs, Holding, AtPid

LEMMA RemoveTyped ==
    ASSUME TypeOK, NEW a \in Actor,
           \/ BeginRevoke(a) \/ RevokeScan(a) \/ StartupScan(a)
           \/ RemoveNext(a) \/ RemoveDone(a) \/ RemoveFault(a) \/ Restart(a)
    PROVE  TypeOK'
<1> USE DEF TypeOK
<1>1. loc[a] \in LocalType /\ 0 \in Time /\ 0 \in 0 .. MaxIssues
  BY BoundsAreNat DEF ThreadOK, Time
<1>2. ASSUME NEW m \in LocalType, Goto(a, "remove", m)
      PROVE  LockOK' /\ ThreadOK'
  BY <1>2, GotoTyped DEF PCs, Holding, AtPid
<1>3. CASE BeginRevoke(a)
  <2>1. LockOK' /\ ThreadOK'
    BY <1>1, <1>3, LocalTyped, BeginTyped
       DEF BeginRevoke, PCs, Waiting, Critical, AtPid
  <2> QED BY <1>3, <2>1 DEF BeginRevoke, disk, ghost, world, DiskOK, WorldOK, GhostOK
<1>4. CASE RevokeScan(a)
  <2> DEFINE m == [loc[a] EXCEPT !.todo = OtherRecords(NoPid)]
  <2>1. m \in LocalType
    BY <1>1, OtherRecordsTyped DEF LocalType
  <2>2. LockOK' /\ ThreadOK'
    <3> HIDE DEF m
    <3>1. Goto(a, "remove", m)
      BY <1>4 DEF m, RevokeScan
    <3> QED BY <1>2, <2>1, <3>1
  <2> QED BY <1>4, <2>2 DEF RevokeScan, disk, ghost, world, DiskOK, WorldOK, GhostOK
<1>5. CASE StartupScan(a)
  <2>1. LockOK' /\ ThreadOK'
    BY <1>5, KeepTyped DEF StartupScan
  <2> QED BY <1>5, <2>1 DEF StartupScan, disk, ghost, world, DiskOK, WorldOK, GhostOK
<1>6. CASE RemoveNext(a)
  <2>1. PICK f \in loc[a].todo :
            /\ rec' = [rec EXCEPT ![f[2]] = NoRec]
            /\ Goto(a, "remove", [loc[a] EXCEPT !.todo = @ \ {f}])
    BY <1>6 DEF RemoveNext
  <2> DEFINE m == [loc[a] EXCEPT !.todo = @ \ {f}]
  <2>2. m \in LocalType
    BY <1>1 DEF LocalType
  <2>3. LockOK' /\ ThreadOK'
    <3> HIDE DEF m
    <3>1. Goto(a, "remove", m)
      BY <2>1 DEF m
    <3> QED BY <1>2, <2>2, <3>1
  <2>4. DiskOK'
    BY <1>6, <2>1, NoRecTyped DEF RemoveNext, DiskOK
  <2> QED BY <1>6, <2>3, <2>4 DEF RemoveNext, ghost, world, WorldOK, GhostOK
<1>7. CASE RemoveDone(a)
  <2>1. LockOK' /\ ThreadOK'
    BY <1>7, FinishTyped DEF RemoveDone, Answers
  <2>2. shown' \subseteq 0 .. MaxIssues
    BY <1>1, <1>7 DEF RemoveDone, WorldOK, LocalType
  <2> QED BY <1>7, <2>1, <2>2 DEF RemoveDone, disk, ghost, DiskOK, WorldOK, GhostOK
<1>8. CASE RemoveFault(a)
  <2>1. LockOK' /\ ThreadOK'
    BY <1>8, FinishTyped DEF RemoveFault, Answers
  <2>2. WorldOK'
    BY <1>8, BoundsAreNat DEF RemoveFault, Fault, WorldOK
  <2> QED BY <1>8, <2>1, <2>2 DEF RemoveFault, disk, ghost, DiskOK, GhostOK
<1>9. CASE Restart(a)
  <2>1. Local("start", NoPid, 0, FALSE, 0) \in LocalType
    BY <1>1, LocalTyped
  <2>2. LockOK' /\ ThreadOK'
    BY <1>9, <2>1 DEF Restart, LockOK, ThreadOK, PCs, Waiting, Critical, AtPid, Answers
  <2> QED BY <1>9, <2>2 DEF Restart, disk, ghost, world, DiskOK, WorldOK, GhostOK
<1> QED BY <1>3, <1>4, <1>5, <1>6, <1>7, <1>8, <1>9
LEMMA SweepTyped ==
    ASSUME TypeOK, NEW a \in Actor,
           \/ BeginSweep(a) \/ SweepScan(a) \/ SweepNext(a) \/ SweepDone(a)
           \/ SweepFault(a) \/ ScanFault(a)
    PROVE  TypeOK'
<1> USE DEF TypeOK
<1>1. loc[a] \in LocalType /\ 0 \in Time /\ 0 \in 0 .. MaxIssues
  BY BoundsAreNat DEF ThreadOK, Time
<1>2. ASSUME NEW m \in LocalType, Goto(a, "sweep", m)
      PROVE  LockOK' /\ ThreadOK'
  BY <1>2, GotoTyped DEF PCs, Holding, AtPid
<1>3. CASE BeginSweep(a)
  <2>1. LockOK' /\ ThreadOK'
    BY <1>1, <1>3, LocalTyped, BeginTyped
       DEF BeginSweep, PCs, Waiting, Critical, AtPid
  <2> QED BY <1>3, <2>1 DEF BeginSweep, disk, ghost, world, DiskOK, WorldOK, GhostOK
<1>4. CASE SweepScan(a)
  <2>1. LockOK' /\ ThreadOK'
    BY <1>4, DueTyped DEF SweepScan
  <2> QED BY <1>4, <2>1 DEF SweepScan, disk, ghost, world, DiskOK, WorldOK, GhostOK
<1>5. CASE SweepNext(a)
  <2>1. PICK f \in loc[a].todo :
          LET p == f[2]
              l == [loc[a] EXCEPT !.todo = @ \ {f}]
          IN \/ /\ part' = [part EXCEPT ![p] = NoRec]
                /\ Goto(a, "sweep", l)
                /\ UNCHANGED <<rec, tomb>>
             \/ /\ tomb' = [tomb EXCEPT ![p] = NoTomb]
                /\ Goto(a, "sweep", l)
                /\ UNCHANGED <<rec, part>>
             \/ /\ UnlinkFor(a, l, p, "expired")
                /\ UNCHANGED <<part, tomb>>
    BY <1>5 DEF SweepNext
  <2> DEFINE m == [loc[a] EXCEPT !.todo = @ \ {f}]
  <2>2. m \in LocalType /\ f[2] \in Pid
    BY <1>1 DEF LocalType
  <2>3. DiskOK' /\ LockOK' /\ ThreadOK'
    <3> HIDE DEF m
    <3>1. CASE /\ part' = [part EXCEPT ![f[2]] = NoRec]
               /\ Goto(a, "sweep", m)
               /\ UNCHANGED <<rec, tomb>>
      BY <1>2, <2>2, <3>1, NoRecTyped DEF DiskOK
    <3>2. CASE /\ tomb' = [tomb EXCEPT ![f[2]] = NoTomb]
               /\ Goto(a, "sweep", m)
               /\ UNCHANGED <<rec, part>>
      BY <1>2, <2>2, <3>2, TombTyped DEF DiskOK, NoTomb
    <3>3. CASE /\ UnlinkFor(a, m, f[2], "expired")
               /\ UNCHANGED <<part, tomb>>
      BY <2>2, <3>3, UnlinkTyped
    <3> QED BY <2>1, <3>1, <3>2, <3>3 DEF m
  <2> QED BY <1>5, <2>3 DEF SweepNext, ghost, world, WorldOK, GhostOK
<1>6. CASE SweepDone(a)
  <2>1. LockOK' /\ ThreadOK'
    BY <1>6, FinishTyped DEF SweepDone, Answers
  <2> QED BY <1>6, <2>1 DEF SweepDone, disk, ghost, world, DiskOK, WorldOK, GhostOK
<1>7. CASE SweepFault(a)
  <2>1. LockOK' /\ ThreadOK'
    BY <1>7, FinishTyped DEF SweepFault, Answers
  <2>2. WorldOK'
    BY <1>7, BoundsAreNat DEF SweepFault, Fault, WorldOK
  <2> QED BY <1>7, <2>1, <2>2 DEF SweepFault, disk, ghost, DiskOK, GhostOK
<1>8. CASE ScanFault(a)
  <2>1. PICK skip \in SUBSET Pid :
            \/ KeepNewest(a, skip)
            \/ Goto(a, "sweep", [loc[a] EXCEPT !.todo = SweepDue(skip)])
    BY <1>8 DEF ScanFault
  <2>2. LockOK' /\ ThreadOK'
    BY <2>1, KeepTyped, DueTyped
  <2>3. WorldOK'
    BY <1>8, FaultTyped DEF ScanFault
  <2> QED BY <1>8, <2>2, <2>3 DEF ScanFault, disk, ghost, DiskOK, GhostOK
<1> QED BY <1>3, <1>4, <1>5, <1>6, <1>7, <1>8

LEMMA LockTyped ==
    ASSUME TypeOK, NEW a \in Actor, Acquire(a) \/ LockTimeout(a)
    PROVE  TypeOK'
<1> USE DEF TypeOK
<1>1. CASE Acquire(a)
  <2>1. /\ Critical[pc[a]] \in PCs
        /\ Critical[pc[a]] \in AtPid => pc[a] \in AtPid
    BY <1>1 DEF Acquire, PCs, Holding, Waiting, Critical, AtPid
  <2> QED BY <1>1, <2>1 DEF Acquire, disk, ghost, world, DiskOK, ThreadOK,
                            LockOK, WorldOK, GhostOK
<1>2. CASE LockTimeout(a)
  <2>1. LockOK' /\ ThreadOK'
    BY <1>2, FinishTyped DEF LockTimeout, Answers
  <2> QED BY <1>2, <2>1 DEF LockTimeout, disk, ghost, world, DiskOK, WorldOK, GhostOK
<1> QED BY <1>1, <1>2

LEMMA CrashTyped == ASSUME TypeOK, NEW c \in Proc, Crash(c) PROVE TypeOK'
<1> USE DEF TypeOK
<1>1. NoLocal \in LocalType /\ 0 \in Time
  BY NoLocalTyped
<1>2. ThreadOK'
  BY <1>1 DEF Crash, ThreadOK, PCs, AtPid, Answers
<1>3. LockOK'
  BY DEF Crash, LockOK
<1>4. WorldOK'
  <2>1. crashes' \in 0 .. MaxCrashes
    BY BoundsAreNat DEF Crash, WorldOK
  <2> QED BY <2>1 DEF Crash, WorldOK
<1> QED BY <1>2, <1>3, <1>4 DEF Crash, disk, ghost, DiskOK, GhostOK

\* Every variable always has its type.
THEOREM TypeCorrect == Spec => []TypeOK
<1>1. Init => TypeOK
  <2> SUFFICES ASSUME Init PROVE TypeOK
    OBVIOUS
  <2>1. NoLocal \in LocalType /\ 0 \in Time
    BY NoLocalTyped
  <2>2. DiskOK
    BY NoRecTyped, TombTyped DEF Init, DiskOK, NoTomb
  <2>3. ThreadOK /\ LockOK
    BY <2>1 DEF Init, ThreadOK, LockOK, PCs, AtPid, Answers
  <2>4. WorldOK
    <3>1. /\ 0 \in 0 .. MaxIssues /\ 0 \in 0 .. MaxFaults
          /\ 0 \in 0 .. MaxCrashes
      BY BoundsAreNat
    <3> QED BY <2>1, <3>1 DEF Init, WorldOK
  <2>5. GhostOK
    BY DEF Init, GhostOK
  <2> QED BY <2>2, <2>3, <2>4, <2>5 DEF TypeOK
<1>2. TypeOK /\ [Next]_vars => TypeOK'
  <2> SUFFICES ASSUME TypeOK, [Next]_vars PROVE TypeOK'
    OBVIOUS
  <2>1. ASSUME NEW a \in Actor,
               Step(a) \/ BeginCall(a) \/ DiskFault(a) \/ Restart(a)
        PROVE  TypeOK'
    BY <2>1, LockTyped, ClaimTyped, FailureTyped, IssueTyped, RemoveTyped,
       SweepTyped DEF Step, BeginCall, DiskFault
  <2>2. CASE Tick
    BY <2>2, BoundsAreNat DEF Tick, TypeOK, disk, thread, ghost, Time, DiskOK,
                              ThreadOK, LockOK, WorldOK, GhostOK
  <2>3. CASE UNCHANGED vars
    BY <2>3 DEF vars, TypeOK, DiskOK, ThreadOK, LockOK, WorldOK, GhostOK
  <2> QED BY <2>1, <2>2, <2>3, CrashTyped DEF Next
<1> QED BY <1>1, <1>2, PTL DEF Spec
-----------------------------------------------------------------------------
(* The flock: it is held exactly by the thread that is inside a critical     *)
(* section.                                                                 *)

LEMMA FinishKeepsLock ==
    ASSUME TypeOK, LockExclusive, NEW a \in Actor, NEW result, Finish(a, result)
    PROVE  LockExclusive'
<1>1. "idle" \notin Holding
  BY DEF Holding, Waiting, Critical
<1>2. pc \in [Actor -> PCs] /\ NoActor \notin Actor
  BY ConstantsOK DEF TypeOK, ThreadOK
<1> QED BY <1>1, <1>2 DEF LockExclusive, Finish

LEMMA GotoKeepsLock ==
    ASSUME TypeOK, LockExclusive, NEW a \in Actor, NEW label, NEW l,
           pc[a] \in Holding <=> label \in Holding, Goto(a, label, l)
    PROVE  LockExclusive'
BY DEF TypeOK, ThreadOK, LockExclusive, Goto

LEMMA BeginKeepsLock ==
    ASSUME TypeOK, LockExclusive, NEW a \in Actor, NEW label, NEW l,
           label \notin Holding, Begin(a, label, l)
    PROVE  LockExclusive'
<1>1. "idle" \notin Holding
  BY DEF Holding, Waiting, Critical
<1> QED BY <1>1 DEF TypeOK, ThreadOK, LockExclusive, Begin

LEMMA HoldingStates ==
    /\ {"x_expire", "x_fail", "x_claim", "x_issue", "x_revoke", "x_sweep",
        "x_start", "f_replace", "t_create", "t_fill", "c_return", "i_fill",
        "remove", "sweep"} \subseteq Holding
    /\ {"idle", "c_tomb", "c_read"} \cap Holding = {}
    /\ Waiting \cap Holding = {}
    /\ {"w_expire", "w_fail", "w_claim", "w_issue", "w_revoke", "w_sweep",
        "w_start"} = Waiting
    /\ \A w \in Waiting : Critical[w] \in Holding
BY DEF Holding, Waiting, Critical

LEMMA LockStep ==
    ASSUME TypeOK, LockExclusive, [Next]_vars
    PROVE  LockExclusive'
<1>1. ASSUME NEW a \in Actor, Acquire(a) PROVE LockExclusive'
  <2>1. Critical[pc[a]] \in Holding /\ pc[a] \notin Holding
    BY <1>1, HoldingStates DEF Acquire
  <2>2. NoActor \notin Actor
    BY ConstantsOK
  <2> QED BY <1>1, <2>1, <2>2
        DEF Acquire, LockFree, LockExclusive, TypeOK, ThreadOK
<1>2. ASSUME NEW a \in Actor,
             \/ LockTimeout(a) \/ ReturnCredential(a)
             \/ UnlinkFault(a) \/ TombstoneFault(a) \/ ReturnFault(a)
             \/ ReplacePart(a) \/ ReplaceFault(a) \/ ReplacedFault(a)
             \/ NoFreePid(a) \/ FillFault(a) \/ IssueFault(a) \/ RemoveDone(a) \/ RemoveFault(a)
             \/ SweepDone(a) \/ SweepFault(a)
      PROVE  LockExclusive'
  <2>1. \E result : Finish(a, result)
    BY <1>2 DEF LockTimeout, ReturnCredential, UnlinkFault, TombstoneFault,
                ReturnFault, ReplacePart, ReplaceFault, ReplacedFault, NoFreePid,
                FillFault, IssueFault, RemoveDone, RemoveFault,
                SweepDone, SweepFault
  <2> QED BY <2>1, FinishKeepsLock
<1>3. ASSUME NEW a \in Actor,
             \/ CheckTombstone(a) \/ CheckRecord(a) \/ ExpireUnderLock(a)
             \/ ConsumeUnderLock(a) \/ FailUnderLock(a) \/ CreateTombstone(a)
             \/ FillTombstone(a) \/ AllocateRecord(a) \/ FillRecord(a)
             \/ RevokeScan(a) \/ StartupScan(a) \/ RemoveNext(a)
             \/ SweepScan(a) \/ SweepNext(a) \/ ReadFault(a) \/ ScanFault(a)
      PROVE  LockExclusive'
  <2>1. \/ \E result : Finish(a, result)
        \/ \E label, l : /\ pc[a] \in Holding <=> label \in Holding
                         /\ Goto(a, label, l)
    <3>1. CASE CheckTombstone(a) \/ CheckRecord(a)
      BY <3>1, HoldingStates DEF CheckTombstone, CheckRecord
    <3>2. CASE ExpireUnderLock(a) \/ ConsumeUnderLock(a) \/ FailUnderLock(a)
      BY <3>2, HoldingStates
         DEF ExpireUnderLock, ConsumeUnderLock, FailUnderLock, UnlinkFor
    <3>3. CASE CreateTombstone(a) \/ FillTombstone(a)
      BY <3>3, HoldingStates DEF CreateTombstone, FillTombstone
    <3>4. CASE AllocateRecord(a) \/ FillRecord(a)
      BY <3>4, HoldingStates DEF AllocateRecord, FillRecord
    <3>5. CASE RevokeScan(a) \/ StartupScan(a) \/ RemoveNext(a)
      BY <3>5, HoldingStates DEF RevokeScan, StartupScan, RemoveNext, KeepNewest
    <3>6. CASE SweepScan(a) \/ SweepNext(a)
      BY <3>6, HoldingStates DEF SweepScan, SweepNext, UnlinkFor
    <3>7. CASE ReadFault(a)
      BY <3>7, HoldingStates DEF ReadFault
    <3>8. CASE ScanFault(a)
      BY <3>8, HoldingStates DEF ScanFault, KeepNewest
    <3> QED BY <1>3, <3>1, <3>2, <3>3, <3>4, <3>5, <3>6, <3>7, <3>8
  <2> QED BY <2>1, FinishKeepsLock, GotoKeepsLock
<1>4. ASSUME NEW a \in Actor, BeginCall(a) PROVE LockExclusive'
  <2>1. \E label, l : label \notin Holding /\ Begin(a, label, l)
    BY <1>4, HoldingStates
       DEF BeginCall, BeginClaim, BeginIssue, BeginRevoke, BeginSweep
  <2> QED BY <2>1, BeginKeepsLock
<1>5. ASSUME NEW a \in Actor, Restart(a) PROVE LockExclusive'
  BY <1>5, HoldingStates DEF Restart, LockExclusive, TypeOK, ThreadOK
<1>6. ASSUME NEW c \in Proc, Crash(c) PROVE LockExclusive'
  <2>1. "idle" \notin Holding /\ NoActor \notin Actor
    BY HoldingStates, ConstantsOK
  <2> QED BY <1>6, <2>1 DEF Crash, LockExclusive
<1>7. CASE Tick \/ UNCHANGED vars
  BY <1>7 DEF Tick, thread, vars, LockExclusive
<1> QED BY <1>1, <1>2, <1>3, <1>4, <1>5, <1>6, <1>7
        DEF Next, Step, DiskFault

\* No two threads are ever inside critical sections, and none leaves one
\* without releasing the flock.
THEOREM LockSafety == Spec => []LockExclusive
<1>1. Init => LockExclusive
  BY ConstantsOK, HoldingStates DEF Init, LockExclusive
<1>2. TypeOK /\ LockExclusive /\ [Next]_vars => LockExclusive'
  BY LockStep
<1> QED BY <1>1, <1>2, TypeCorrect, PTL DEF Spec
-----------------------------------------------------------------------------
(* At most once.  The invariant that is inductive says who may hold a secret *)
(* at a time: the issuer that has not written it yet, its one record, or     *)
(* the one claimant that has unlinked it; and that a secret granted is held  *)
(* by none of them.                                                         *)

Issuing(a) == pc[a] \in {"w_issue", "x_issue", "i_fill"}

SecretsOwned ==
    \A p \in Pid : Valid(rec[p]) =>
        rec[p].secret \in 1 .. issues /\ pidOf[rec[p].secret] = p

PartKeepsSecret ==
    \A a \in Actor : pc[a] = "f_replace" =>
        LET p == loc[a].pid
        IN Valid(rec[p]) /\ Valid(part[p]) /\ part[p].secret = rec[p].secret

IssuersHold ==
    \A a \in Actor : Issuing(a) =>
        /\ loc[a].secret \in 1 .. issues
        /\ ~Live(loc[a].secret) /\ grants[loc[a].secret] = 0
        /\ pc[a] = "i_fill" => pidOf[loc[a].secret] = loc[a].pid
        /\ \A b \in Actor \ {a} : Issuing(b) \/ Taking(b) =>
                                   loc[b].secret # loc[a].secret

TakersHold ==
    \A a \in Actor :
        /\ pc[a] = "c_return" => Taking(a)
        /\ Taking(a) => /\ loc[a].secret \in 1 .. issues
                        /\ ~Live(loc[a].secret)
                        /\ grants[loc[a].secret] = 0

GrantedIsSpent ==
    \A s \in Secret : /\ grants[s] <= 1
                      /\ grants[s] > 0 => ~Live(s) /\ s <= issues

OneHolder == SecretsOwned /\ PartKeepsSecret /\ IssuersHold /\ TakersHold
             /\ GrantedIsSpent
\* A step of thread a that only takes records away and holds no new secret.
Quiet(a) ==
    /\ \A p \in Pid : Valid(rec'[p]) => rec'[p] = rec[p]
    /\ UNCHANGED <<issues, pidOf, grants>>
    /\ \A b \in Actor \ {a} : pc'[b] = pc[b] /\ loc'[b] = loc[b]
    /\ pc[a] \in Holding \/ UNCHANGED <<rec, part>>
    /\ pc'[a] \notin {"f_replace", "i_fill"}
    /\ pc'[a] \in {"w_issue", "x_issue"} =>
          pc[a] = "w_issue" /\ loc'[a].secret = loc[a].secret
    /\ Taking(a)' => Taking(a) /\ loc'[a].secret = loc[a].secret
    /\ pc'[a] = "c_return" => Taking(a)'

LEMMA QuietKeeps ==
    ASSUME TypeOK, LockExclusive, OneHolder, NEW a \in Actor, Quiet(a)
    PROVE  OneHolder'
<1> USE DEF OneHolder
<1>1. \A s : Live(s)' => Live(s)
  BY DEF Quiet, Live, LiveRecords
<1>2. SecretsOwned'
  BY DEF SecretsOwned, Quiet
<1>3. PartKeepsSecret'
  <2> SUFFICES ASSUME NEW b \in Actor, pc'[b] = "f_replace"
               PROVE  LET p == loc'[b].pid
                      IN /\ Valid(rec'[p]) /\ Valid(part'[p])
                         /\ part'[p].secret = rec'[p].secret
    BY DEF PartKeepsSecret
  <2>1. b # a /\ pc[b] = "f_replace" /\ loc'[b] = loc[b]
    BY DEF Quiet
  <2>2. pc[a] \notin Holding
    BY <2>1, HoldingStates DEF LockExclusive
  <2> QED BY <2>1, <2>2 DEF Quiet, PartKeepsSecret
<1>4. \A b \in Actor : Issuing(b)' => /\ Issuing(b)
                                      /\ loc'[b].secret = loc[b].secret
                                      /\ pc'[b] = "i_fill" =>
                                           pc[b] = "i_fill" /\ loc'[b] = loc[b]
  BY DEF Quiet, Issuing
<1>5. \A b \in Actor : Taking(b)' => Taking(b) /\ loc'[b].secret = loc[b].secret
  BY DEF Quiet, Taking
<1>6. IssuersHold'
  BY <1>1, <1>4, <1>5 DEF IssuersHold, Quiet
<1>7. TakersHold'
  BY <1>1, <1>5 DEF TakersHold, Quiet, Taking
<1>8. GrantedIsSpent'
  BY <1>1 DEF GrantedIsSpent, Quiet
<1> QED BY <1>2, <1>3, <1>6, <1>7, <1>8

LEMMA NoRecInvalid == ~Valid(NoRec) /\ ~Valid(Torn)
BY DEF Valid, NoRec, Torn, Full

LEMMA FinishQuiet ==
    ASSUME TypeOK, NEW a \in Actor, NEW result, Finish(a, result),
           \A p \in Pid : Valid(rec'[p]) => rec'[p] = rec[p],
           pc[a] \in Holding \/ UNCHANGED <<rec, part>>,
           UNCHANGED <<issues, pidOf, grants>>
    PROVE  Quiet(a)
BY DEF Finish, Quiet, Taking, TypeOK, ThreadOK

LEMMA GotoQuiet ==
    ASSUME TypeOK, NEW a \in Actor, NEW label, NEW l, Goto(a, label, l),
           label \in {"c_read", "w_expire", "w_fail", "w_claim", "remove", "sweep"},
           \A p \in Pid : Valid(rec'[p]) => rec'[p] = rec[p],
           pc[a] \in Holding \/ UNCHANGED <<rec, part>>,
           UNCHANGED <<issues, pidOf, grants>>
    PROVE  Quiet(a)
BY DEF Goto, Quiet, Taking, TypeOK, ThreadOK

LEMMA BeginQuiet ==
    ASSUME TypeOK, NEW a \in Actor, NEW label, NEW l, Begin(a, label, l),
           label \in {"c_tomb", "w_revoke", "w_sweep"},
           UNCHANGED <<rec, part, issues, pidOf, grants>>
    PROVE  Quiet(a)
BY DEF Begin, Quiet, Taking, TypeOK, ThreadOK

LEMMA RemovalValid ==
    ASSUME TypeOK, NEW q, rec' = [rec EXCEPT ![q] = NoRec]
    PROVE  \A p \in Pid : Valid(rec'[p]) => rec'[p] = rec[p]
BY NoRecInvalid DEF TypeOK, DiskOK

LEMMA QuietSteps ==
    ASSUME TypeOK, LockExclusive, NEW a \in Actor,
           \/ Acquire(a) \/ LockTimeout(a) \/ Restart(a)
           \/ BeginClaim(a) \/ BeginRevoke(a) \/ BeginSweep(a)
           \/ CheckTombstone(a) \/ CheckRecord(a) \/ ExpireUnderLock(a)
           \/ CreateTombstone(a) \/ FillTombstone(a)
           \/ UnlinkFault(a) \/ TombstoneFault(a) \/ ReturnFault(a) \/ ReadFault(a)
           \/ ReplaceFault(a) \/ NoFreePid(a) \/ IssueFault(a) \/ ScanFault(a)
           \/ RevokeScan(a) \/ StartupScan(a) \/ RemoveNext(a)
           \/ RemoveDone(a) \/ RemoveFault(a)
           \/ SweepScan(a) \/ SweepNext(a) \/ SweepDone(a) \/ SweepFault(a)
    PROVE  Quiet(a)
<1> USE DEF disk, ghost, world
<1>0. ASSUME NEW l \in LocalType, NEW p \in Pid, UnlinkFor(a, l, p, "expired"),
             pc[a] \in Holding, UNCHANGED <<part, tomb, ghost, world>>
      PROVE  Quiet(a)
  <2>1. \A q \in Pid : Valid(rec'[q]) => rec'[q] = rec[q]
    BY <1>0, RemovalValid DEF UnlinkFor
  <2>2. loc'[a].state = "expired" /\ pc'[a] = "t_create"
    BY <1>0 DEF UnlinkFor, Goto, TypeOK, ThreadOK, LocalType
  <2>3. \A b \in Actor \ {a} : pc'[b] = pc[b] /\ loc'[b] = loc[b]
    BY <1>0 DEF UnlinkFor, Goto, TypeOK, ThreadOK
  <2> QED BY <1>0, <2>1, <2>2, <2>3 DEF Quiet, Taking
<1>1. CASE Acquire(a)
  <2>1. /\ Critical[pc[a]] \notin {"f_replace", "i_fill", "w_issue", "t_create",
                                   "t_fill", "c_return"}
        /\ Critical[pc[a]] = "x_issue" => pc[a] = "w_issue"
    BY <1>1 DEF Acquire, Waiting, Critical
  <2> QED BY <1>1, <2>1 DEF Acquire, Quiet, Taking, TypeOK, ThreadOK
<1>2. CASE LockTimeout(a)
  BY <1>2, FinishQuiet DEF LockTimeout
<1>3. CASE Restart(a)
  BY <1>3 DEF Restart, Quiet, Taking, TypeOK, ThreadOK
<1>4. CASE BeginClaim(a) \/ BeginRevoke(a) \/ BeginSweep(a)
  BY <1>4, BeginQuiet DEF BeginClaim, BeginRevoke, BeginSweep
<1>5. CASE CheckTombstone(a) \/ CheckRecord(a)
  <2>1. \/ \E result : Finish(a, result)
        \/ \E label \in {"c_read", "w_expire", "w_fail", "w_claim"} :
              Goto(a, label, loc[a])
    BY <1>5 DEF CheckTombstone, CheckRecord
  <2>2. UNCHANGED <<rec, part, issues, pidOf, grants>>
    BY <1>5 DEF CheckTombstone, CheckRecord
  <2> QED BY <2>1, <2>2, FinishQuiet, GotoQuiet
<1>6. CASE ExpireUnderLock(a)
  <2>1. /\ pc[a] \in Holding /\ loc[a].pid \in Pid /\ loc[a] \in LocalType
        /\ UNCHANGED <<part, tomb, ghost, world>>
    BY <1>6, HoldingStates DEF ExpireUnderLock, TypeOK, ThreadOK, AtPid
  <2>2. CASE UnlinkFor(a, loc[a], loc[a].pid, "expired")
    BY <1>0, <2>1, <2>2
  <2>3. CASE UNCHANGED rec /\ \E result : Finish(a, result)
    BY <2>1, <2>3, FinishQuiet
  <2> QED BY <1>6, <2>2, <2>3 DEF ExpireUnderLock
<1>7. CASE CreateTombstone(a)
  BY <1>7 DEF CreateTombstone, Goto, Quiet, Taking, TypeOK, ThreadOK
<1>8. CASE FillTombstone(a)
  <2>1. UNCHANGED <<rec, part, issues, pidOf, grants>>
    BY <1>8 DEF FillTombstone
  <2>2. CASE \E result : Finish(a, result)
    BY <2>1, <2>2, FinishQuiet
  <2>3. CASE \E l : Goto(a, "sweep", l)
    BY <2>1, <2>3, GotoQuiet
  <2>4. CASE Goto(a, "c_return", loc[a]) /\ loc[a].state = "consumed"
    BY <1>8, <2>1, <2>4 DEF FillTombstone, Goto, Quiet, Taking, TypeOK, ThreadOK
  <2> QED BY <1>8, <2>2, <2>3, <2>4 DEF FillTombstone
<1>9. CASE UnlinkFault(a) \/ TombstoneFault(a) \/ ReturnFault(a) \/ ReplaceFault(a)
           \/ NoFreePid(a) \/ RemoveDone(a)
           \/ RemoveFault(a) \/ SweepDone(a) \/ SweepFault(a)
  <2>1. /\ \E result : Finish(a, result)
        /\ UNCHANGED <<rec, issues, pidOf, grants>>
        /\ pc[a] \in Holding
    BY <1>9, HoldingStates
       DEF UnlinkFault, TombstoneFault, ReturnFault, ReplaceFault, NoFreePid,
           RemoveDone, RemoveFault, SweepDone, SweepFault
  <2> QED BY <2>1, FinishQuiet
<1>10. CASE IssueFault(a)
  <2>1. /\ \E result : Finish(a, result)
        /\ UNCHANGED <<issues, pidOf, grants>>
        /\ pc[a] \in Holding
    BY <1>10, HoldingStates DEF IssueFault
  <2>2. \A p \in Pid : Valid(rec'[p]) => rec'[p] = rec[p]
    BY <1>10, RemovalValid DEF IssueFault
  <2> QED BY <2>1, <2>2, FinishQuiet
<1>11. CASE RevokeScan(a) \/ StartupScan(a) \/ SweepScan(a) \/ ScanFault(a)
  <2>1. /\ \E label \in {"remove", "sweep"} : \E l : Goto(a, label, l)
        /\ UNCHANGED <<rec, part, issues, pidOf, grants>>
    BY <1>11 DEF RevokeScan, StartupScan, SweepScan, ScanFault, KeepNewest
  <2> QED BY <2>1, GotoQuiet
<1>12. CASE RemoveNext(a)
  <2>1. /\ \E l : Goto(a, "remove", l)
        /\ UNCHANGED <<issues, pidOf, grants>>
        /\ pc[a] \in Holding
    BY <1>12, HoldingStates DEF RemoveNext
  <2>2. \A p \in Pid : Valid(rec'[p]) => rec'[p] = rec[p]
    BY <1>12, RemovalValid DEF RemoveNext
  <2> QED BY <2>1, <2>2, GotoQuiet
<1>13. CASE SweepNext(a)
  <2>1. pc[a] \in Holding /\ UNCHANGED <<issues, pidOf, grants>>
    BY <1>13, HoldingStates DEF SweepNext
  <2>2. CASE UNCHANGED rec /\ \E l : Goto(a, "sweep", l)
    BY <2>1, <2>2, GotoQuiet
  <2>3. CASE \E f \in loc[a].todo :
                /\ UnlinkFor(a, [loc[a] EXCEPT !.todo = @ \ {f}], f[2], "expired")
                /\ UNCHANGED <<part, tomb>>
    <3>1. PICK f \in loc[a].todo :
                /\ UnlinkFor(a, [loc[a] EXCEPT !.todo = @ \ {f}], f[2], "expired")
                /\ UNCHANGED <<part, tomb>>
      BY <2>3
    <3>2. /\ [loc[a] EXCEPT !.todo = @ \ {f}] \in LocalType
          /\ f[2] \in Pid
      BY DEF TypeOK, ThreadOK, LocalType
    <3>3. UNCHANGED <<ghost, world>>
      BY <1>13 DEF SweepNext
    <3> QED BY <1>0, <2>1, <3>1, <3>2, <3>3
  <2> QED BY <1>13, <2>2, <2>3 DEF SweepNext
<1>14. CASE ReadFault(a)
  <2>1. \/ \E result : Finish(a, result)
        \/ Goto(a, "c_read", loc[a])
    BY <1>14 DEF ReadFault
  <2>2. UNCHANGED <<rec, part, issues, pidOf, grants>>
    BY <1>14 DEF ReadFault
  <2> QED BY <2>1, <2>2, FinishQuiet, GotoQuiet
<1> QED BY <1>1, <1>2, <1>3, <1>4, <1>5, <1>6, <1>7, <1>8, <1>9, <1>10, <1>11,
           <1>12, <1>13, <1>14
(* The steps that do hold a new secret, one lemma each.                      *)

LEMMA OnlyHolder ==
    ASSUME LockExclusive, NEW a \in Actor, pc[a] \in Holding
    PROVE  \A b \in Actor \ {a} : pc[b] \notin Holding /\ ~Taking(b)
                                  /\ pc[b] # "f_replace" /\ pc[b] # "i_fill"
                                  /\ pc[b] # "c_return"
BY HoldingStates DEF LockExclusive, Taking

\* claim() unlinks the record of its own secret: from live to in hand.
LEMMA TakeKeeps ==
    ASSUME TypeOK, LockExclusive, OneHolder, NEW a \in Actor, ConsumeUnderLock(a)
    PROVE  OneHolder'
<1> USE DEF OneHolder
<1> DEFINE p == loc[a].pid
<1>0. PICK s : s = loc[a].secret
  OBVIOUS
<1>1. /\ pc[a] = "x_claim" /\ pc[a] \in Holding /\ p \in Pid
      /\ UNCHANGED <<part, issues, pidOf, grants>>
  BY HoldingStates DEF ConsumeUnderLock, ghost, world, TypeOK, ThreadOK, AtPid
<1>2. CASE UNCHANGED rec /\ \E result : Finish(a, result)
  BY <1>1, <1>2, FinishQuiet, QuietKeeps
<1>3. CASE Recheck(loc[a]) = "consume" /\ UnlinkFor(a, loc[a], p, "consumed")
  <2>1. Valid(rec[p]) /\ rec[p].secret = s
    BY <1>0, <1>3 DEF Recheck, TombAnswer
  <2>2. s \in 1 .. issues /\ pidOf[s] = p /\ Live(s) /\ s \in Secret
    <3>1. issues \in 0 .. MaxIssues
      BY DEF TypeOK, WorldOK
    <3>2. s \in 1 .. issues /\ pidOf[s] = p /\ Live(s)
      BY <1>1, <2>1 DEF SecretsOwned, Live, LiveRecords
    <3> QED BY <3>1, <3>2, BoundsAreNat DEF Secret
  <2>3. grants[s] = 0
    BY <2>2 DEF GrantedIsSpent, TypeOK, GhostOK
  <2>4. rec' = [rec EXCEPT ![p] = NoRec]
    BY <1>3 DEF UnlinkFor
  <2>5. \A q \in Pid : Valid(rec'[q]) => rec'[q] = rec[q] /\ q # p
    BY <2>4, NoRecInvalid DEF TypeOK, DiskOK
  <2>6. /\ \A t : Live(t)' => Live(t)
        /\ ~Live(s)'
    <3>1. \A q \in Pid : Valid(rec'[q]) => rec'[q].secret # s
      BY <2>2, <2>5 DEF SecretsOwned
    <3> QED BY <2>5, <3>1 DEF Live, LiveRecords
  <2>7. /\ pc'[a] = "t_create" /\ loc'[a].secret = s
        /\ \A b \in Actor \ {a} : pc'[b] = pc[b] /\ loc'[b] = loc[b]
    BY <1>0, <1>3 DEF UnlinkFor, Goto, TypeOK, ThreadOK, LocalType
  <2>8. SecretsOwned'
    BY <1>1, <2>5 DEF SecretsOwned
  <2>9. PartKeepsSecret'
    BY <1>1, <2>7, OnlyHolder DEF PartKeepsSecret
  <2>10. \A b \in Actor : Issuing(b)' => b # a /\ Issuing(b) /\ loc'[b] = loc[b]
                                        /\ pc'[b] = pc[b] /\ loc[b].secret # s
    BY <1>0, <2>2, <2>7 DEF Issuing, IssuersHold
  <2>11. \A b \in Actor : Taking(b)' => b = a
    BY <1>1, <2>7, OnlyHolder DEF Taking
  <2>12. IssuersHold'
    BY <1>1, <2>6, <2>7, <2>10, <2>11 DEF IssuersHold
  <2>13. TakersHold'
    <3>1. \A b \in Actor : pc'[b] # "c_return"
      BY <1>1, <2>7, OnlyHolder
    <3> QED BY <1>1, <2>2, <2>3, <2>6, <2>7, <2>11, <3>1 DEF TakersHold
  <2>14. GrantedIsSpent'
    BY <1>1, <2>6 DEF GrantedIsSpent
  <2> QED BY <2>8, <2>9, <2>12, <2>13, <2>14
<1> QED BY <1>2, <1>3 DEF ConsumeUnderLock

\* The credential is handed over: from in hand to granted.
LEMMA ReturnKeeps ==
    ASSUME TypeOK, LockExclusive, OneHolder, NEW a \in Actor, ReturnCredential(a)
    PROVE  OneHolder'
<1> USE DEF OneHolder
<1> DEFINE s == loc[a].secret
<1>1. /\ pc[a] = "c_return" /\ pc[a] \in Holding /\ Taking(a)
      /\ UNCHANGED <<rec, part, issues, pidOf>>
      /\ grants' = [grants EXCEPT ![s] = @ + 1]
  BY HoldingStates DEF ReturnCredential, disk, world, TakersHold
<1>2. s \in 1 .. issues /\ ~Live(s) /\ grants[s] = 0 /\ s \in Secret
  <2>1. issues \in 0 .. MaxIssues
    BY DEF TypeOK, WorldOK
  <2> QED BY <1>1, <2>1, BoundsAreNat DEF TakersHold, Secret
<1>3. /\ pc'[a] = "idle"
      /\ \A b \in Actor \ {a} : pc'[b] = pc[b] /\ loc'[b] = loc[b]
  BY DEF ReturnCredential, Finish, TypeOK, ThreadOK
<1>4. \A t \in Secret : grants'[t] = IF t = s THEN 1 ELSE grants[t]
  BY <1>1, <1>2 DEF TypeOK, GhostOK
<1>5. \A t : Live(t)' <=> Live(t)
  BY <1>1 DEF Live, LiveRecords
<1>6. SecretsOwned'
  BY <1>1 DEF SecretsOwned
<1>7. PartKeepsSecret'
  BY <1>1, <1>3 DEF PartKeepsSecret
<1>8. \A b \in Actor : ~Taking(b)'
  BY <1>1, <1>3, OnlyHolder DEF Taking
<1>9. \A b \in Actor : Issuing(b)' =>
            /\ b # a /\ Issuing(b) /\ loc'[b] = loc[b] /\ pc'[b] = pc[b]
            /\ loc[b].secret # s /\ loc[b].secret \in Secret
  <2>1. issues \in 0 .. MaxIssues
    BY DEF TypeOK, WorldOK
  <2>2. \A b \in Actor : Issuing(b) =>
            loc[b].secret \in Secret /\ (b # a => loc[b].secret # s)
    BY <1>1, <2>1, BoundsAreNat DEF IssuersHold, Secret
  <2> QED BY <1>3, <2>2 DEF Issuing
<1>10. IssuersHold'
  BY <1>1, <1>4, <1>5, <1>8, <1>9 DEF IssuersHold
<1>11. TakersHold'
  BY <1>1, <1>3, <1>8, OnlyHolder DEF TakersHold
<1>12. GrantedIsSpent'
  BY <1>1, <1>2, <1>4, <1>5 DEF GrantedIsSpent
<1> QED BY <1>6, <1>7, <1>10, <1>11, <1>12

\* Counting a failure and replacing the record: its secret stays its own.
LEMMA FailureKeeps ==
    ASSUME TypeOK, LockExclusive, OneHolder, NEW a \in Actor,
           FailUnderLock(a) \/ ReplacePart(a) \/ ReplacedFault(a)
    PROVE  OneHolder'
<1> USE DEF OneHolder
<1> DEFINE p == loc[a].pid
<1>1. /\ pc[a] \in {"x_fail", "f_replace"} /\ pc[a] \in Holding /\ p \in Pid
      /\ UNCHANGED <<issues, pidOf, grants>>
  BY HoldingStates
     DEF FailUnderLock, ReplacePart, ReplacedFault, world, TypeOK, ThreadOK, AtPid
<1>2. CASE FailUnderLock(a) /\ \E result : Finish(a, result)
  <2>1. rec' = rec \/ rec' = [rec EXCEPT ![p] = NoRec]
    BY <1>2 DEF FailUnderLock
  <2>2. \A q \in Pid : Valid(rec'[q]) => rec'[q] = rec[q]
    BY <2>1, RemovalValid
  <2> QED BY <1>1, <1>2, <2>2, FinishQuiet, QuietKeeps
<1>3. CASE /\ Valid(rec[p]) /\ UNCHANGED rec
           /\ part' = [part EXCEPT ![p] = Bumped(rec[p], loc[a].now)]
           /\ Goto(a, "f_replace", loc[a])
  <2>1. /\ pc'[a] = "f_replace" /\ loc' = loc
        /\ \A b \in Actor \ {a} : pc'[b] = pc[b]
    BY <1>3 DEF Goto, TypeOK, ThreadOK
  <2>2. \A t : Live(t)' <=> Live(t)
    BY <1>3 DEF Live, LiveRecords
  <2>3. SecretsOwned'
    BY <1>1, <1>3 DEF SecretsOwned
  <2>4. PartKeepsSecret'
    <3>1. part'[p] = Bumped(rec[p], loc[a].now)
      BY <1>1, <1>3 DEF TypeOK, DiskOK
    <3>2. Valid(part'[p]) /\ part'[p].secret = rec[p].secret
      BY <3>1 DEF Bumped, Full, Valid
    <3> QED BY <1>1, <1>3, <2>1, <3>2, OnlyHolder DEF PartKeepsSecret
  <2>5. \A b \in Actor : Taking(b)' => Taking(b)
    BY <2>1 DEF Taking
  <2>6. \A b \in Actor : Issuing(b)' => Issuing(b) /\ pc'[b] = pc[b]
    BY <2>1 DEF Issuing
  <2>7. IssuersHold'
    BY <1>1, <2>1, <2>2, <2>5, <2>6 DEF IssuersHold
  <2>8. TakersHold'
    BY <1>1, <2>1, <2>2, <2>5, OnlyHolder DEF TakersHold
  <2>9. GrantedIsSpent'
    BY <1>1, <2>2 DEF GrantedIsSpent
  <2> QED BY <2>3, <2>4, <2>7, <2>8, <2>9
<1>4. CASE ReplacePart(a) \/ ReplacedFault(a)
  <2>1. Valid(rec[p]) /\ Valid(part[p]) /\ part[p].secret = rec[p].secret
    BY <1>4 DEF ReplacePart, ReplacedFault, PartKeepsSecret
  <2>2. \A q \in Pid : /\ Valid(rec'[q]) <=> Valid(rec[q])
                       /\ rec'[q].secret = rec[q].secret
    <3>1. rec' = [rec EXCEPT ![p] = part[p]]
      BY <1>4 DEF ReplacePart, ReplacedFault
    <3>2. \A q \in Pid : rec'[q] = IF q = p THEN part[p] ELSE rec[q]
      BY <1>1, <3>1 DEF TypeOK, DiskOK
    <3> QED BY <2>1, <3>2
  <2>3. \A t : Live(t)' <=> Live(t)
    <3>1. \A q : q \in LiveRecords' <=> q \in LiveRecords
      BY <2>2 DEF LiveRecords, Valid
    <3>2. \A q \in LiveRecords : q \in Pid
      BY DEF LiveRecords
    <3>3. \A t : Live(t)' <=> \E q \in LiveRecords : rec'[q].secret = t
      BY <3>1 DEF Live
    <3> QED BY <2>2, <3>2, <3>3 DEF Live
  <2>4. /\ pc'[a] = "idle"
        /\ \A b \in Actor \ {a} : pc'[b] = pc[b] /\ loc'[b] = loc[b]
    BY <1>4 DEF ReplacePart, ReplacedFault, Finish, TypeOK, ThreadOK
  <2>5. SecretsOwned'
    BY <1>1, <2>2 DEF SecretsOwned
  <2>6. PartKeepsSecret'
    BY <1>1, <2>4, OnlyHolder DEF PartKeepsSecret
  <2>7. \A b \in Actor : ~Taking(b)' /\ pc'[b] # "c_return"
    BY <1>1, <2>4, OnlyHolder DEF Taking
  <2>8. \A b \in Actor : Issuing(b)' => Issuing(b) /\ b # a /\ pc'[b] = pc[b]
                                        /\ loc'[b] = loc[b]
    BY <2>4 DEF Issuing
  <2>9. IssuersHold'
    BY <1>1, <2>3, <2>7, <2>8 DEF IssuersHold
  <2>10. TakersHold'
    BY <2>7 DEF TakersHold
  <2>11. GrantedIsSpent'
    BY <1>1, <2>3 DEF GrantedIsSpent
  <2> QED BY <2>5, <2>6, <2>9, <2>10, <2>11
<1> QED BY <1>2, <1>3, <1>4 DEF FailUnderLock
\* issue(): a secret is minted, given its pid, written.
LEMMA BeginIssueKeeps ==
    ASSUME TypeOK, LockExclusive, OneHolder, NEW a \in Actor, BeginIssue(a)
    PROVE  OneHolder'
<1> USE DEF OneHolder
<1>1. /\ pc[a] = "idle" /\ issues \in Nat
      /\ issues + 1 \in 1 .. issues' /\ issues' = issues + 1
      /\ issues < MaxIssues /\ MaxIssues \in Nat
      /\ UNCHANGED <<rec, part, pidOf, grants>>
  <2>1. issues \in 0 .. MaxIssues /\ MaxIssues \in Nat
    BY BoundsAreNat DEF TypeOK, WorldOK
  <2> QED BY <2>1 DEF BeginIssue, Begin, disk, ghost
<1>2. /\ pc'[a] = "w_issue" /\ loc'[a].secret = issues + 1
      /\ \A b \in Actor \ {a} : pc'[b] = pc[b] /\ loc'[b] = loc[b]
  BY DEF BeginIssue, Begin, Local, TypeOK, ThreadOK
<1>3. \A t \in 1 .. issues : t \in 1 .. issues' /\ t # issues + 1
  BY <1>1
<1>4. \A t : Live(t)' <=> Live(t)
  BY <1>1 DEF Live, LiveRecords
<1>5. ~Live(issues + 1)
  BY <1>3 DEF SecretsOwned, Live, LiveRecords
<1>6. grants[issues + 1] = 0
  <2>1. issues + 1 \in Secret
    BY <1>1 DEF Secret
  <2>2. grants[issues + 1] \in Nat
    BY <2>1 DEF TypeOK, GhostOK
  <2>3. ~(issues + 1 <= issues)
    BY <1>1
  <2> QED BY <2>1, <2>2, <2>3 DEF GrantedIsSpent
<1>7. SecretsOwned'
  BY <1>1, <1>3 DEF SecretsOwned
<1>8. PartKeepsSecret'
  BY <1>1, <1>2 DEF PartKeepsSecret
<1>9. \A b \in Actor : Taking(b)' => b # a /\ Taking(b) /\ loc'[b] = loc[b]
  BY <1>2 DEF Taking
<1>10. \A b \in Actor \ {a} : Issuing(b)' <=> Issuing(b)
  BY <1>2 DEF Issuing
<1>11. IssuersHold'
  <2> SUFFICES ASSUME NEW b \in Actor, Issuing(b)'
               PROVE  /\ loc'[b].secret \in 1 .. issues'
                      /\ ~Live(loc[b].secret)' /\ grants'[loc'[b].secret] = 0
                      /\ pc'[b] = "i_fill" => pidOf'[loc'[b].secret] = loc'[b].pid
                      /\ \A c \in Actor \ {b} : Issuing(c)' \/ Taking(c)' =>
                                                loc'[c].secret # loc'[b].secret
    BY DEF IssuersHold
  <2>1. CASE b = a
    <3>1. \A c \in Actor \ {a} : Issuing(c)' \/ Taking(c)' =>
                                  loc'[c].secret \in 1 .. issues
      BY <1>2, <1>9, <1>10 DEF IssuersHold, TakersHold
    <3> QED BY <1>1, <1>2, <1>3, <1>4, <1>5, <1>6, <2>1, <3>1
  <2>2. CASE b # a
    <3>1. Issuing(b) /\ loc'[b] = loc[b] /\ pc'[b] = pc[b]
      BY <1>2, <1>10, <2>2
    <3>2. loc[b].secret \in 1 .. issues
      BY <3>1 DEF IssuersHold
    <3>3. \A c \in Actor \ {b} : Issuing(c)' \/ Taking(c)' =>
                                  loc'[c].secret # loc'[b].secret
      BY <1>2, <1>3, <1>9, <1>10, <3>1, <3>2 DEF IssuersHold
    <3> QED BY <1>1, <1>3, <1>4, <3>1, <3>2, <3>3 DEF IssuersHold
  <2> QED BY <2>1, <2>2
<1>12. TakersHold'
  <2>1. \A b \in Actor : pc'[b] = "c_return" => b # a /\ pc[b] = "c_return"
                                               /\ loc'[b] = loc[b]
    BY <1>2
  <2>2. \A b \in Actor : pc'[b] = "c_return" => Taking(b)'
    BY <1>2, <2>1 DEF TakersHold, Taking
  <2>3. \A b \in Actor : Taking(b)' => /\ loc'[b].secret \in 1 .. issues'
                                       /\ grants'[loc'[b].secret] = 0
                                       /\ ~Live(loc'[b].secret)
    BY <1>1, <1>3, <1>9 DEF TakersHold
  <2> QED BY <1>4, <2>2, <2>3 DEF TakersHold
<1>13. GrantedIsSpent'
  <2>1. \A t \in Secret : t <= issues => t <= issues'
    BY <1>1 DEF Secret
  <2> QED BY <1>1, <1>4, <2>1 DEF GrantedIsSpent
<1> QED BY <1>7, <1>8, <1>11, <1>12, <1>13

LEMMA AllocateKeeps ==
    ASSUME TypeOK, LockExclusive, OneHolder, NEW a \in Actor, AllocateRecord(a)
    PROVE  OneHolder'
<1> USE DEF OneHolder
<1>1. /\ pc[a] = "x_issue" /\ pc[a] \in Holding /\ Issuing(a)
      /\ UNCHANGED <<part, issues, grants>>
  BY HoldingStates DEF AllocateRecord, ghost, Issuing
<1>2. PICK p \in Pid :
          /\ rec' = [rec EXCEPT ![p] = Torn]
          /\ pidOf' = [pidOf EXCEPT ![loc[a].secret] = p]
          /\ Goto(a, "i_fill", [loc[a] EXCEPT !.pid = p, !.now = clock])
  BY DEF AllocateRecord, FreePids
<1>3. PICK s : s = loc[a].secret
  OBVIOUS
<1>4. s \in Secret /\ s \in 1 .. issues /\ ~Live(s) /\ grants[s] = 0
  <2>1. issues \in 0 .. MaxIssues /\ s \in 1 .. issues
    BY <1>1, <1>3 DEF TypeOK, WorldOK, IssuersHold
  <2> QED BY <1>1, <1>3, <2>1, BoundsAreNat DEF IssuersHold, Secret
<1>5. /\ pc'[a] = "i_fill" /\ loc'[a].secret = s /\ loc'[a].pid = p
      /\ \A b \in Actor \ {a} : pc'[b] = pc[b] /\ loc'[b] = loc[b]
  BY <1>2, <1>3 DEF Goto, TypeOK, ThreadOK, LocalType
<1>6. \A q \in Pid : Valid(rec'[q]) => rec'[q] = rec[q] /\ q # p
  BY <1>2, NoRecInvalid DEF TypeOK, DiskOK
<1>7. \A t : Live(t)' => Live(t)
  BY <1>6 DEF Live, LiveRecords
<1>8. \A t \in Secret : pidOf'[t] = IF t = s THEN p ELSE pidOf[t]
  BY <1>2, <1>3, <1>4 DEF TypeOK, WorldOK
<1>9. 1 .. issues \subseteq Secret
  <2>1. issues \in 0 .. MaxIssues
    BY DEF TypeOK, WorldOK
  <2> QED BY <2>1, BoundsAreNat DEF Secret
<1>10. SecretsOwned'
  <2> SUFFICES ASSUME NEW q \in Pid, Valid(rec'[q])
               PROVE  /\ rec'[q].secret \in 1 .. issues'
                      /\ pidOf'[rec'[q].secret] = q
    BY DEF SecretsOwned
  <2>1. rec'[q] = rec[q] /\ Valid(rec[q])
    BY <1>6
  <2>2. rec[q].secret \in 1 .. issues /\ pidOf[rec[q].secret] = q /\ rec[q].secret # s
    BY <1>4, <2>1 DEF SecretsOwned, Live, LiveRecords
  <2> QED BY <1>1, <1>8, <1>9, <2>1, <2>2
<1>11. PartKeepsSecret'
  BY <1>1, <1>5, OnlyHolder DEF PartKeepsSecret
<1>12. \A b \in Actor : ~Taking(b)' /\ pc'[b] # "c_return"
  BY <1>1, <1>5, OnlyHolder DEF Taking
<1>13. \A b \in Actor : Issuing(b)' => /\ Issuing(b) /\ loc'[b].secret = loc[b].secret
                                       /\ b # a => pc'[b] # "i_fill"
  BY <1>1, <1>3, <1>5, OnlyHolder DEF Issuing
<1>14. IssuersHold'
  BY <1>1, <1>3, <1>4, <1>5, <1>7, <1>8, <1>12, <1>13 DEF IssuersHold
<1>15. TakersHold'
  BY <1>12 DEF TakersHold
<1>16. GrantedIsSpent'
  BY <1>1, <1>7 DEF GrantedIsSpent
<1> QED BY <1>10, <1>11, <1>14, <1>15, <1>16

LEMMA FillKeeps ==
    ASSUME TypeOK, LockExclusive, OneHolder, NEW a \in Actor,
           FillRecord(a) \/ FillFault(a)
    PROVE  OneHolder'
<1> USE DEF OneHolder
<1>1. /\ pc[a] = "i_fill" /\ pc[a] \in Holding /\ Issuing(a) /\ loc[a].pid \in Pid
      /\ UNCHANGED <<part, issues, grants, pidOf>>
  BY HoldingStates
     DEF FillRecord, FillFault, ghost, world, Issuing, TypeOK, ThreadOK, AtPid
<1>2. PICK s, p : s = loc[a].secret /\ p = loc[a].pid
  OBVIOUS
<1>3. s \in 1 .. issues /\ ~Live(s) /\ grants[s] = 0 /\ pidOf[s] = p
  BY <1>1, <1>2 DEF IssuersHold
<1>4. \A q \in Pid : /\ q = p => rec'[q].secret = s
                     /\ q # p => rec'[q] = rec[q]
  <2>1. rec' = [rec EXCEPT ![p] = Full(s, loc[a].now, 0, 0, 0)]
    BY <1>2 DEF FillRecord, FillFault
  <2>2. Full(s, loc[a].now, 0, 0, 0).secret = s
    BY DEF Full
  <2> QED BY <2>1, <2>2 DEF TypeOK, DiskOK
<1>5. /\ pc'[a] \in {"remove", "idle"}
      /\ \A b \in Actor \ {a} : pc'[b] = pc[b] /\ loc'[b] = loc[b]
  BY DEF FillRecord, FillFault, Goto, Finish, TypeOK, ThreadOK
<1>6. \A t : Live(t)' => Live(t) \/ t = s
  BY <1>4 DEF Live, LiveRecords, Valid
<1>7. SecretsOwned'
  <2>1. \A q \in Pid : Valid(rec'[q]) => q = p \/ Valid(rec[q])
    BY <1>4 DEF Valid
  <2> QED BY <1>1, <1>3, <1>4, <2>1 DEF SecretsOwned
<1>8. PartKeepsSecret'
  BY <1>1, <1>5, OnlyHolder DEF PartKeepsSecret
<1>9. \A b \in Actor : ~Taking(b)' /\ pc'[b] # "c_return"
  BY <1>1, <1>5, OnlyHolder DEF Taking
<1>10. \A b \in Actor : Issuing(b)' => /\ b # a /\ Issuing(b) /\ loc'[b] = loc[b]
                                       /\ pc'[b] = pc[b] /\ loc[b].secret # s
  BY <1>1, <1>2, <1>5 DEF Issuing, IssuersHold
<1>11. IssuersHold'
  BY <1>1, <1>6, <1>9, <1>10 DEF IssuersHold
<1>12. TakersHold'
  BY <1>9 DEF TakersHold
<1>13. GrantedIsSpent'
  BY <1>1, <1>3, <1>6 DEF GrantedIsSpent
<1> QED BY <1>7, <1>8, <1>11, <1>12, <1>13

LEMMA CrashKeeps ==
    ASSUME TypeOK, LockExclusive, OneHolder, NEW c \in Proc, Crash(c)
    PROVE  OneHolder'
<1> USE DEF OneHolder
<1>1. UNCHANGED <<rec, part, issues, pidOf, grants>>
  BY DEF Crash, disk, ghost
<1>2. \A b \in Actor : \/ pc'[b] = "idle"
                       \/ pc'[b] = pc[b] /\ loc'[b] = loc[b]
  <2>1. /\ pc' = [b \in Actor |-> IF ProcOf[b] = c THEN "idle" ELSE pc[b]]
        /\ loc' = [b \in Actor |-> IF ProcOf[b] = c THEN NoLocal ELSE loc[b]]
    BY DEF Crash
  <2> QED BY <2>1
<1>3. \A t : Live(t)' <=> Live(t)
  BY <1>1 DEF Live, LiveRecords
<1>4. \A b \in Actor : /\ Issuing(b)' => Issuing(b) /\ pc'[b] = pc[b] /\ loc'[b] = loc[b]
                       /\ Taking(b)' => Taking(b) /\ loc'[b] = loc[b]
                       /\ pc'[b] = "c_return" => pc[b] = "c_return" /\ loc'[b] = loc[b]
  BY <1>2 DEF Issuing, Taking
<1>5. SecretsOwned' /\ PartKeepsSecret'
  BY <1>1, <1>2 DEF SecretsOwned, PartKeepsSecret
<1>6. IssuersHold'
  <2> SUFFICES ASSUME NEW b \in Actor, Issuing(b)'
               PROVE  /\ loc'[b].secret \in 1 .. issues'
                      /\ ~Live(loc[b].secret)' /\ grants'[loc'[b].secret] = 0
                      /\ pc'[b] = "i_fill" => pidOf'[loc'[b].secret] = loc'[b].pid
                      /\ \A d \in Actor \ {b} : Issuing(d)' \/ Taking(d)' =>
                                                loc'[d].secret # loc'[b].secret
    BY DEF IssuersHold
  <2>1. Issuing(b) /\ loc'[b] = loc[b] /\ pc'[b] = pc[b]
    BY <1>4
  <2> QED BY <1>1, <1>3, <1>4, <2>1 DEF IssuersHold
<1>7. TakersHold'
  BY <1>1, <1>2, <1>3, <1>4 DEF TakersHold, Taking
<1>8. GrantedIsSpent'
  BY <1>1, <1>3 DEF GrantedIsSpent
<1> QED BY <1>5, <1>6, <1>7, <1>8

LEMMA HeldOnce == Spec => []OneHolder
<1>1. Init => OneHolder
  <2> SUFFICES ASSUME Init PROVE OneHolder
    OBVIOUS
  <2>1. \A p \in Pid : ~Valid(rec[p])
    BY NoRecInvalid DEF Init
  <2>2. \A a \in Actor : pc[a] = "idle" /\ ~Issuing(a) /\ ~Taking(a)
    BY DEF Init, Issuing, Taking
  <2>3. \A s \in Secret : grants[s] = 0
    BY DEF Init
  <2> QED BY <2>1, <2>2, <2>3
          DEF OneHolder, SecretsOwned, PartKeepsSecret, IssuersHold, TakersHold,
              GrantedIsSpent
<1>2. TypeOK /\ LockExclusive /\ OneHolder /\ [Next]_vars => OneHolder'
  <2> SUFFICES ASSUME TypeOK, LockExclusive, OneHolder, [Next]_vars
               PROVE  OneHolder'
    OBVIOUS
  <2>1. ASSUME NEW a \in Actor,
               Step(a) \/ BeginCall(a) \/ DiskFault(a) \/ Restart(a)
        PROVE  OneHolder'
    <3>1. CASE ConsumeUnderLock(a)
      BY <3>1, TakeKeeps
    <3>2. CASE ReturnCredential(a)
      BY <3>2, ReturnKeeps
    <3>3. CASE FailUnderLock(a) \/ ReplacePart(a) \/ ReplacedFault(a)
      BY <3>3, FailureKeeps
    <3>4. CASE BeginIssue(a)
      BY <3>4, BeginIssueKeeps
    <3>5. CASE AllocateRecord(a)
      BY <3>5, AllocateKeeps
    <3>6. CASE FillRecord(a) \/ FillFault(a)
      BY <3>6, FillKeeps
    <3>7. CASE Quiet(a)
      BY <3>7, QuietKeeps
    <3> QED BY <2>1, <3>1, <3>2, <3>3, <3>4, <3>5, <3>6, <3>7, QuietSteps
            DEF Step, BeginCall, DiskFault
  <2>2. CASE Tick \/ UNCHANGED vars
    <3>1. UNCHANGED <<rec, part, pc, loc, issues, pidOf, grants>>
      BY <2>2 DEF Tick, vars, disk, thread, ghost
    <3> QED BY <3>1 DEF OneHolder, SecretsOwned, PartKeepsSecret, IssuersHold,
                        TakersHold, GrantedIsSpent, Issuing, Taking, Live, LiveRecords
  <2> QED BY <2>1, <2>2, CrashKeeps DEF Next
<1> QED BY <1>1, <1>2, TypeCorrect, LockSafety, PTL DEF Spec

\* No secret buys the credential twice: not across processes, kills, restarts,
\* disk faults or reused pids, however many there are.
THEOREM GrantedAtMostOnce == Spec => []AtMostOnce
<1>1. OneHolder => AtMostOnce
  BY DEF OneHolder, GrantedIsSpent, AtMostOnce
<1> QED BY <1>1, HeldOnce, PTL
-----------------------------------------------------------------------------
(* What a thread is doing says what its locals hold.                         *)

ClaimPCs == {"c_tomb", "c_read", "w_expire", "w_fail", "w_claim", "x_expire",
             "x_fail", "x_claim", "f_replace", "c_return"}
Roles ==
    \A a \in Actor :
        /\ pc[a] = "idle" => loc[a].op = "none"
        /\ pc[a] \in ClaimPCs => loc[a].op = "claim"
        /\ Issuing(a) => loc[a].op = "issue"
        /\ pc[a] \in {"w_revoke", "x_revoke"} => loc[a].op = "revoke"
        /\ pc[a] \in {"w_start", "x_start"} => loc[a].op = "start"
        /\ pc[a] \in {"w_sweep", "x_sweep", "sweep"} => loc[a].op = "sweep"
        /\ pc[a] = "remove" => loc[a].op \in {"issue", "revoke", "start"}
        /\ pc[a] \in {"t_create", "t_fill"} => loc[a].op \in {"claim", "sweep"}
        /\ Taking(a) => loc[a].op = "claim"

\* The role of one thread, by its place op, and by whether it takes.
Fits(label, op, takes) ==
    /\ label = "idle" => op = "none"
    /\ label \in ClaimPCs => op = "claim"
    /\ label \in {"w_issue", "x_issue", "i_fill"} => op = "issue"
    /\ label \in {"w_revoke", "x_revoke"} => op = "revoke"
    /\ label \in {"w_start", "x_start"} => op = "start"
    /\ label \in {"w_sweep", "x_sweep", "sweep"} => op = "sweep"
    /\ label = "remove" => op \in {"issue", "revoke", "start"}
    /\ label \in {"t_create", "t_fill"} => op \in {"claim", "sweep"}
    /\ takes => op = "claim"

LEMMA RolesFit ==
    Roles <=> \A a \in Actor : Fits(pc[a], loc[a].op, Taking(a))
BY DEF Roles, Fits, Issuing

LEMMA FitsKeeps ==
    ASSUME Roles, NEW a \in Actor, Fits(pc'[a], loc'[a].op, Taking(a)'),
           \A b \in Actor \ {a} : pc'[b] = pc[b] /\ loc'[b] = loc[b]
    PROVE  Roles'
<1>1. \A b \in Actor \ {a} : Taking(b)' <=> Taking(b)
  BY DEF Taking
<1>2. \A b \in Actor : Fits(pc'[b], loc'[b].op, Taking(b)')
  BY <1>1, RolesFit DEF Fits
<1> QED BY <1>2 DEF Roles, Fits, Issuing

LEMMA FinishRoles ==
    ASSUME TypeOK, Roles, NEW a \in Actor, NEW result, Finish(a, result)
    PROVE  Roles'
<1>1. /\ pc'[a] = "idle" /\ loc'[a].op = "none" /\ ~Taking(a)'
      /\ \A b \in Actor \ {a} : pc'[b] = pc[b] /\ loc'[b] = loc[b]
  BY DEF Finish, Taking, TypeOK, ThreadOK, NoLocal, Local
<1> QED BY <1>1, FitsKeeps DEF Fits, ClaimPCs

LEMMA GotoRoles ==
    ASSUME TypeOK, Roles, NEW a \in Actor, NEW label, NEW l, Goto(a, label, l),
           Fits(label, l.op, label \in {"t_create", "t_fill", "c_return"}
                             /\ l.state = "consumed")
    PROVE  Roles'
<1>1. /\ pc'[a] = label /\ loc'[a] = l
      /\ \A b \in Actor \ {a} : pc'[b] = pc[b] /\ loc'[b] = loc[b]
  BY DEF Goto, TypeOK, ThreadOK
<1>2. Taking(a)' <=> label \in {"t_create", "t_fill", "c_return"}
                     /\ l.state = "consumed"
  BY <1>1 DEF Taking
<1> QED BY <1>1, <1>2, FitsKeeps DEF Fits

LEMMA BeginRoles ==
    ASSUME TypeOK, Roles, NEW a \in Actor, NEW label, NEW l, Begin(a, label, l),
           Fits(label, l.op, FALSE), label \notin {"t_create", "t_fill", "c_return"}
    PROVE  Roles'
<1>1. /\ pc'[a] = label /\ loc'[a] = l
      /\ \A b \in Actor \ {a} : pc'[b] = pc[b] /\ loc'[b] = loc[b]
  BY DEF Begin, TypeOK, ThreadOK
<1>2. ~Taking(a)'
  BY <1>1 DEF Taking
<1> QED BY <1>1, <1>2, FitsKeeps DEF Fits

LEMMA UnlinkRoles ==
    ASSUME TypeOK, Roles, NEW a \in Actor, NEW l \in LocalType, NEW p, NEW state,
           UnlinkFor(a, l, p, state), l.op \in {"claim", "sweep"},
           state = "consumed" => l.op = "claim"
    PROVE  Roles'
<1> DEFINE m == [l EXCEPT !.pid = p, !.state = state, !.exp = Expiry(rec[p])]
<1>1. m.op = l.op /\ m.state = state
  BY DEF LocalType
<1>2. Goto(a, "t_create", m)
  BY DEF UnlinkFor
<1> HIDE DEF m
<1> QED BY <1>1, <1>2, GotoRoles DEF Fits, ClaimPCs

LEMMA TwoFields ==
    ASSUME NEW r \in LocalType, NEW X, NEW Y
    PROVE  /\ [r EXCEPT !.todo = X, !.skip = Y].op = r.op
           /\ [r EXCEPT !.todo = X, !.skip = Y].todo = X
           /\ [r EXCEPT !.todo = X, !.skip = Y].skip = Y
BY DEF LocalType

\* The startup goes on to remove all that it could read but one record.
LEMMA KeepGoes ==
    ASSUME TypeOK, NEW a \in Actor, NEW skip, KeepNewest(a, skip)
    PROVE  \E l : /\ Goto(a, "remove", l) /\ l.op = loc[a].op /\ l.skip = skip
                  /\ \/ LiveRecords \subseteq skip /\ l.todo = {}
                     \/ \E n \in LiveRecords \ skip :
                           l.todo = {"rec"} \X ((LiveRecords \ skip) \ {n})
<1>1. loc[a] \in LocalType
  BY DEF TypeOK, ThreadOK
<1>2. CASE /\ LiveRecords \subseteq skip
           /\ Goto(a, "remove", [loc[a] EXCEPT !.todo = {}, !.skip = skip])
  <2>1. PICK l : l = [loc[a] EXCEPT !.todo = {}, !.skip = skip]
    OBVIOUS
  <2>2. l.op = loc[a].op /\ l.todo = {} /\ l.skip = skip
    BY <1>1, <2>1, TwoFields
  <2>3. Goto(a, "remove", l)
    BY <1>2, <2>1
  <2> QED BY <1>2, <2>2, <2>3
<1>3. ASSUME NEW n \in LiveRecords \ skip,
             Goto(a, "remove",
                  [loc[a] EXCEPT !.todo = {"rec"} \X ((LiveRecords \ skip) \ {n}),
                                 !.skip = skip])
      PROVE  \E l : /\ Goto(a, "remove", l) /\ l.op = loc[a].op /\ l.skip = skip
                    /\ \E k \in LiveRecords \ skip :
                          l.todo = {"rec"} \X ((LiveRecords \ skip) \ {k})
  <2>1. PICK l : l = [loc[a] EXCEPT !.todo = {"rec"} \X ((LiveRecords \ skip) \ {n}),
                                    !.skip = skip]
    OBVIOUS
  <2>2. /\ l.op = loc[a].op /\ l.skip = skip
        /\ l.todo = {"rec"} \X ((LiveRecords \ skip) \ {n})
    BY <1>1, <2>1, TwoFields
  <2>3. Goto(a, "remove", l)
    BY <1>3, <2>1
  <2> QED BY <2>2, <2>3
<1> QED BY <1>2, <1>3 DEF KeepNewest

LEMMA KeepRoles ==
    ASSUME TypeOK, Roles, NEW a \in Actor, NEW skip, KeepNewest(a, skip),
           loc[a].op \in {"issue", "revoke", "start"}
    PROVE  Roles'
<1>1. PICK l : Goto(a, "remove", l) /\ l.op = loc[a].op
  BY KeepGoes
<1>2. Fits("remove", l.op, "remove" \in {"t_create", "t_fill", "c_return"}
                           /\ l.state = "consumed")
  BY <1>1 DEF Fits, ClaimPCs
<1> QED BY <1>1, <1>2, GotoRoles

LEMMA RolesStep ==
    ASSUME TypeOK, Roles, [Next]_vars
    PROVE  Roles'
<1> USE DEF ClaimPCs
<1>1. ASSUME NEW a \in Actor,
             \/ LockTimeout(a) \/ ReturnCredential(a)
             \/ UnlinkFault(a) \/ TombstoneFault(a) \/ ReturnFault(a)
             \/ ReplacePart(a) \/ ReplaceFault(a) \/ ReplacedFault(a)
             \/ NoFreePid(a) \/ FillFault(a) \/ IssueFault(a) \/ RemoveDone(a) \/ RemoveFault(a)
             \/ SweepDone(a) \/ SweepFault(a)
      PROVE  Roles'
  <2>1. \E result : Finish(a, result)
    BY <1>1 DEF LockTimeout, ReturnCredential, UnlinkFault, TombstoneFault,
                ReturnFault, ReplacePart, ReplaceFault, ReplacedFault, NoFreePid,
                FillFault, IssueFault, RemoveDone, RemoveFault, SweepDone,
                SweepFault
  <2> QED BY <2>1, FinishRoles
<1>2. ASSUME NEW a \in Actor, Acquire(a) PROVE Roles'
  <2>1. /\ pc'[a] = Critical[pc[a]] /\ loc' = loc /\ pc[a] \in Waiting
        /\ \A b \in Actor \ {a} : pc'[b] = pc[b]
    BY <1>2 DEF Acquire, TypeOK, ThreadOK
  <2>2. Fits(pc'[a], loc'[a].op, Taking(a)')
    BY <2>1 DEF Roles, Fits, Issuing, Taking, Waiting, Critical
  <2> QED BY <2>1, <2>2, FitsKeeps
<1>3. ASSUME NEW a \in Actor,
             CheckTombstone(a) \/ CheckRecord(a) \/ FailUnderLock(a) \/ ReadFault(a)
      PROVE  Roles'
  <2>1. \/ \E result : Finish(a, result)
        \/ \E label \in ClaimPCs \ {"c_return"} : Goto(a, label, loc[a])
    BY <1>3 DEF CheckTombstone, CheckRecord, FailUnderLock, ReadFault
  <2>2. loc[a].op = "claim"
    BY <1>3 DEF Roles, CheckTombstone, CheckRecord, FailUnderLock, ReadFault
  <2> QED BY <2>1, <2>2, FinishRoles, GotoRoles DEF Fits
<1>4. ASSUME NEW a \in Actor,
             ExpireUnderLock(a) \/ ConsumeUnderLock(a)
      PROVE  Roles'
  <2>1. \/ \E result : Finish(a, result)
        \/ \E state : UnlinkFor(a, loc[a], loc[a].pid, state)
    BY <1>4 DEF ExpireUnderLock, ConsumeUnderLock
  <2>2. loc[a].op = "claim" /\ loc[a] \in LocalType
    BY <1>4 DEF Roles, ExpireUnderLock, ConsumeUnderLock, TypeOK, ThreadOK
  <2> QED BY <2>1, <2>2, FinishRoles, UnlinkRoles
<1>5. ASSUME NEW a \in Actor, CreateTombstone(a) PROVE Roles'
  <2>1. /\ loc[a].op \in {"claim", "sweep"} /\ Goto(a, "t_fill", loc[a])
        /\ loc[a].state = "consumed" => loc[a].op = "claim"
    BY <1>5 DEF CreateTombstone, Roles, Taking
  <2> QED BY <2>1, GotoRoles DEF Fits
<1>6. ASSUME NEW a \in Actor, FillTombstone(a) PROVE Roles'
  <2> DEFINE m == [loc[a] EXCEPT !.pid = NoPid, !.state = "none", !.exp = 0]
  <2>1. m.op = loc[a].op
    BY DEF TypeOK, ThreadOK, LocalType
  <2>2. \/ loc[a].op = "sweep" /\ Goto(a, "sweep", m)
        \/ Finish(a, "Expired")
        \/ loc[a].op = "claim" /\ Goto(a, "c_return", loc[a])
    BY <1>6 DEF FillTombstone
  <2> HIDE DEF m
  <2> QED BY <2>1, <2>2, FinishRoles, GotoRoles DEF Fits
<1>7. ASSUME NEW a \in Actor,
             BeginClaim(a) \/ BeginIssue(a) \/ BeginRevoke(a) \/ BeginSweep(a)
      PROVE  Roles'
  <2>1. \/ \E l : l.op = "claim" /\ Begin(a, "c_tomb", l)
        \/ \E l : l.op = "issue" /\ Begin(a, "w_issue", l)
        \/ \E l : l.op = "revoke" /\ Begin(a, "w_revoke", l)
        \/ \E l : l.op = "sweep" /\ Begin(a, "w_sweep", l)
    BY <1>7 DEF BeginClaim, BeginIssue, BeginRevoke, BeginSweep, Local
  <2> QED BY <2>1, BeginRoles DEF Fits
<1>8. ASSUME NEW a \in Actor, AllocateRecord(a) \/ FillRecord(a) PROVE Roles'
  <2>1. loc[a].op = "issue"
    BY <1>8 DEF AllocateRecord, FillRecord, Roles, Issuing
  <2>2. \E l : /\ l.op = "issue"
              /\ \E label \in {"i_fill", "remove"} : Goto(a, label, l)
    BY <1>8, <2>1 DEF AllocateRecord, FillRecord, TypeOK, ThreadOK, LocalType
  <2> QED BY <2>2, GotoRoles DEF Fits
<1>9. ASSUME NEW a \in Actor,
             RevokeScan(a) \/ StartupScan(a) \/ RemoveNext(a)
      PROVE  Roles'
  <2>1. loc[a].op \in {"issue", "revoke", "start"} /\ loc[a] \in LocalType
    BY <1>9 DEF RevokeScan, StartupScan, RemoveNext, Roles, TypeOK, ThreadOK
  <2>2. CASE RevokeScan(a) \/ RemoveNext(a)
    <3>1. \E l : l.op = loc[a].op /\ Goto(a, "remove", l)
      BY <2>1, <2>2 DEF RevokeScan, RemoveNext, LocalType
    <3> QED BY <2>1, <3>1, GotoRoles DEF Fits
  <2>3. CASE StartupScan(a)
    BY <2>1, <2>3, KeepRoles DEF StartupScan
  <2> QED BY <1>9, <2>2, <2>3
<1>10. ASSUME NEW a \in Actor, SweepScan(a) \/ SweepNext(a) PROVE Roles'
  <2>1. loc[a].op = "sweep" /\ loc[a] \in LocalType
    BY <1>10 DEF SweepScan, SweepNext, Roles, TypeOK, ThreadOK
  <2>2. CASE \E l : l.op = "sweep" /\ Goto(a, "sweep", l)
    BY <2>2, GotoRoles DEF Fits
  <2>3. CASE \E f \in loc[a].todo :
                 UnlinkFor(a, [loc[a] EXCEPT !.todo = @ \ {f}], f[2], "expired")
    <3>1. PICK f \in loc[a].todo :
                 UnlinkFor(a, [loc[a] EXCEPT !.todo = @ \ {f}], f[2], "expired")
      BY <2>3
    <3>2. PICK l : l = [loc[a] EXCEPT !.todo = @ \ {f}]
      OBVIOUS
    <3>3. l \in LocalType /\ l.op = "sweep"
      BY <2>1, <3>2 DEF LocalType
    <3> QED BY <3>1, <3>2, <3>3, UnlinkRoles
  <2>4. CASE SweepScan(a)
    BY <2>1, <2>2, <2>4 DEF SweepScan, LocalType
  <2>5. CASE SweepNext(a)
    BY <2>1, <2>2, <2>3, <2>5 DEF SweepNext, LocalType
  <2> QED BY <1>10, <2>4, <2>5
<1>11. ASSUME NEW a \in Actor, Restart(a) PROVE Roles'
  <2>1. /\ pc'[a] = "w_start" /\ loc'[a].op = "start" /\ ~Taking(a)'
        /\ \A b \in Actor \ {a} : pc'[b] = pc[b] /\ loc'[b] = loc[b]
    BY <1>11 DEF Restart, Taking, TypeOK, ThreadOK, Local
  <2> QED BY <2>1, FitsKeeps DEF Fits
<1>12. ASSUME NEW c \in Proc, Crash(c) PROVE Roles'
  <2>1. \A b \in Actor : \/ pc'[b] = "idle" /\ loc'[b].op = "none"
                         \/ pc'[b] = pc[b] /\ loc'[b] = loc[b]
    <3>1. NoLocal.op = "none"
      BY DEF NoLocal, Local
    <3>2. \A b \in Actor : \/ pc'[b] = "idle" /\ loc'[b] = NoLocal
                           \/ pc'[b] = pc[b] /\ loc'[b] = loc[b]
      BY <1>12 DEF Crash
    <3> QED BY <3>1, <3>2
  <2> QED BY <2>1 DEF Roles, Issuing, Taking
<1>13. CASE Tick \/ UNCHANGED vars
  BY <1>13 DEF Tick, thread, vars, Roles, Issuing, Taking
<1>14. ASSUME NEW a \in Actor, ScanFault(a) PROVE Roles'
  <2>1. PICK skip \in SUBSET Pid :
            \/ pc[a] = "x_start" /\ KeepNewest(a, skip)
            \/ /\ pc[a] = "x_sweep"
               /\ Goto(a, "sweep", [loc[a] EXCEPT !.todo = SweepDue(skip)])
    BY <1>14 DEF ScanFault
  <2>2. CASE pc[a] = "x_start" /\ KeepNewest(a, skip)
    <3>1. loc[a].op = "start"
      BY <2>2 DEF Roles
    <3> QED BY <2>2, <3>1, KeepRoles
  <2>3. CASE /\ pc[a] = "x_sweep"
             /\ Goto(a, "sweep", [loc[a] EXCEPT !.todo = SweepDue(skip)])
    <3>1. loc[a].op = "sweep" /\ loc[a] \in LocalType
      BY <2>3 DEF Roles, TypeOK, ThreadOK
    <3>2. \E l : l.op = "sweep" /\ Goto(a, "sweep", l)
      BY <2>3, <3>1 DEF LocalType
    <3> QED BY <3>2, GotoRoles DEF Fits
  <2> QED BY <2>1, <2>2, <2>3
<1> QED BY <1>1, <1>2, <1>3, <1>4, <1>5, <1>6, <1>7, <1>8, <1>9, <1>10, <1>11,
           <1>12, <1>13, <1>14 DEF Next, Step, BeginCall, DiskFault
-----------------------------------------------------------------------------
(* The books.  What each file may hold beside the others, what a "consumed"  *)
(* tombstone stands for, and where every wrong guess is: in the total of its *)
(* record, or in a temporary that a kill or a fault has left there.          *)

FilesFit ==
    /\ RecordXorTombstone
    /\ \A p \in Pid : part[p] = NoRec \/ Valid(part[p])
    /\ \A a \in Actor :
          /\ pc[a] = "i_fill" => /\ rec[loc[a].pid].kind = "torn"
                                 /\ part[loc[a].pid] = NoRec
          /\ pc[a] \in {"t_create", "t_fill", "c_return"} =>
                rec[loc[a].pid].kind = "absent"
          /\ pc[a] = "f_replace" =>
                /\ part[loc[a].pid].total = rec[loc[a].pid].total + 1
                /\ part[loc[a].pid].created = rec[loc[a].pid].created

TakersKnowTheirPid ==
    \A a \in Actor : Taking(a) => pidOf[loc[a].secret] = loc[a].pid

\* A temporary that is not that of a replacement under way.
Stray(p) == /\ part[p] # NoRec
            /\ \A a \in Actor : ~(pc[a] = "f_replace" /\ loc[a].pid = p)

Counted ==
    /\ \A p \in LiveRecords :
          misses[rec[p].secret] + (IF Stray(p) THEN 1 ELSE 0)
              <= rec[p].total + 2 * faults + crashes
    /\ \A s \in Secret :
          s > issues \/ (\E a \in Actor : Issuing(a) /\ loc[a].secret = s) =>
              misses[s] = 0

Books == FilesFit /\ TakersKnowTheirPid /\ ConsumedMeansGranted /\ Counted

LEMMA SecretBelow ==
    ASSUME TypeOK, NEW s \in 1 .. issues
    PROVE  s \in Secret /\ misses[s] \in Nat /\ grants[s] \in Nat
<1>1. issues \in 0 .. MaxIssues
  BY DEF TypeOK, WorldOK
<1>2. s \in Secret
  BY <1>1, BoundsAreNat DEF Secret
<1> QED BY <1>2 DEF TypeOK, GhostOK

LEMMA CountsAreNat ==
    ASSUME TypeOK
    PROVE  /\ faults \in Nat /\ crashes \in Nat /\ issues \in Nat
           /\ \A p \in Pid : rec[p].total \in Nat /\ part[p].total \in Nat
<1>1. /\ faults \in 0 .. MaxFaults /\ crashes \in 0 .. MaxCrashes
      /\ issues \in 0 .. MaxIssues
  BY DEF TypeOK, WorldOK
<1> QED BY <1>1, BoundsAreNat DEF TypeOK, DiskOK, RecordFile

LEMMA TotalsAreNat ==
    ASSUME TypeOK, TypeOK'
    PROVE  /\ faults \in Nat /\ crashes \in Nat /\ faults' \in Nat /\ crashes' \in Nat
<1>1. /\ faults \in 0 .. MaxFaults /\ faults' \in 0 .. MaxFaults
      /\ crashes \in 0 .. MaxCrashes /\ crashes' \in 0 .. MaxCrashes
  BY DEF TypeOK, WorldOK
<1> QED BY <1>1, BoundsAreNat

\* The count survives a step that writes no record, counts no miss and leaves
\* no temporary behind.
LEMMA CountedKeeps ==
    ASSUME TypeOK, TypeOK', OneHolder, Counted,
           \A p \in Pid : Valid(rec'[p]) => rec'[p] = rec[p],
           \A p \in Pid : Stray(p)' => Stray(p),
           UNCHANGED <<misses, issues>>, faults <= faults', crashes <= crashes',
           \A a \in Actor : Issuing(a)' =>
                Issuing(a) /\ loc'[a].secret = loc[a].secret
    PROVE  Counted'
<1> USE DEF OneHolder
<1>1. ASSUME NEW p \in Pid, Valid(rec'[p])
      PROVE  misses'[rec'[p].secret] + (IF Stray(p)' THEN 1 ELSE 0)
                <= rec'[p].total + 2 * faults' + crashes'
  <2>1. rec'[p] = rec[p] /\ Valid(rec[p]) /\ rec[p].secret \in 1 .. issues
    BY <1>1 DEF SecretsOwned
  <2>2. PICK m \in Nat, t \in Nat : m = misses[rec[p].secret] /\ t = rec[p].total
    BY <2>1, SecretBelow, CountsAreNat
  <2>3. m + (IF Stray(p) THEN 1 ELSE 0) <= t + 2 * faults + crashes
    BY <2>1, <2>2 DEF Counted, LiveRecords
  <2>4. m + (IF Stray(p)' THEN 1 ELSE 0) <= m + (IF Stray(p) THEN 1 ELSE 0)
    BY <2>2
  <2>5. /\ faults \in Nat /\ crashes \in Nat /\ faults' \in Nat /\ crashes' \in Nat
    <3>1. /\ faults \in 0 .. MaxFaults /\ faults' \in 0 .. MaxFaults
          /\ crashes \in 0 .. MaxCrashes /\ crashes' \in 0 .. MaxCrashes
      BY DEF TypeOK, WorldOK
    <3> QED BY <3>1, BoundsAreNat
  <2>6. m + (IF Stray(p)' THEN 1 ELSE 0) <= t + 2 * faults' + crashes'
    BY <2>2, <2>3, <2>4, <2>5
  <2> QED BY <2>1, <2>2, <2>6
<1>2. ASSUME NEW s \in Secret,
             s > issues' \/ \E a \in Actor : Issuing(a)' /\ loc'[a].secret = s
      PROVE  misses'[s] = 0
  BY <1>2 DEF Counted
<1> QED BY <1>1, <1>2 DEF Counted, LiveRecords

\* What has been bought stays bought, and so at most as much is wasted as before,
\* or one tombstone more.
LEMMA BoughtKeeps ==
    ASSUME NEW a \in Actor, pc[a] # "c_return", UNCHANGED grants,
           \A b \in Actor \ {a} : pc'[b] = pc[b] /\ loc'[b] = loc[b]
    PROVE  \A s \in Secret : Bought(s) => Bought(s)'
BY DEF Bought

LEMMA WastedSame ==
    ASSUME NEW q \in Pid, tomb'[q] = tomb[q] \/ ~Valid(tomb'[q]),
           \A s \in Secret : pidOf[s] = q /\ Bought(s) =>
                                pidOf'[s] = q /\ Bought(s)'
    PROVE  q \in Wasted' => q \in Wasted
BY DEF Wasted

LEMMA WastedKeeps ==
    ASSUME TypeOK, TypeOK', ConsumedMeansGranted,
           faults <= faults', crashes <= crashes',
           \A q \in Pid : q \in Wasted' => q \in Wasted
    PROVE  ConsumedMeansGranted'
<1>1. Wasted' \subseteq Wasted
  BY DEF Wasted
<1>2. IsFiniteSet(Wasted)
  BY ConstantsOK, FS_Subset DEF Wasted
<1>3. /\ Cardinality(Wasted') <= Cardinality(Wasted)
      /\ Cardinality(Wasted') \in Nat /\ Cardinality(Wasted) \in Nat
  BY <1>1, <1>2, FS_Subset, FS_CardinalityType
<1>4. /\ faults \in Nat /\ crashes \in Nat /\ faults' \in Nat /\ crashes' \in Nat
  BY TotalsAreNat
<1> QED BY <1>3, <1>4 DEF ConsumedMeansGranted

LEMMA OneMore ==
    ASSUME NEW w \in Nat, NEW v \in Nat, NEW u \in Nat, NEW f \in Nat, NEW c \in Nat,
           NEW g \in Nat, NEW d \in Nat,
           f + c + 1 <= g + d, w <= f + c, v <= u, u <= w + 1
    PROVE  v <= g + d
OBVIOUS

LEMMA WastedGrows ==
    ASSUME TypeOK, TypeOK', ConsumedMeansGranted, NEW p,
           faults + crashes + 1 <= faults' + crashes',
           \A q \in Pid : q \in Wasted' => q \in Wasted \/ q = p
    PROVE  ConsumedMeansGranted'
<1>1. Wasted' \subseteq Wasted \cup {p}
  BY DEF Wasted
<1>2. IsFiniteSet(Wasted)
  BY ConstantsOK, FS_Subset DEF Wasted
<1>3. /\ IsFiniteSet(Wasted \cup {p}) /\ Cardinality(Wasted) \in Nat
      /\ Cardinality(Wasted \cup {p}) <= Cardinality(Wasted) + 1
      /\ Cardinality(Wasted \cup {p}) \in Nat
  BY <1>2, FS_AddElement, FS_CardinalityType
<1>4. /\ Cardinality(Wasted') <= Cardinality(Wasted \cup {p})
      /\ Cardinality(Wasted') \in Nat
  BY <1>1, <1>3, FS_Subset, FS_CardinalityType
<1>5. /\ faults \in Nat /\ crashes \in Nat /\ faults' \in Nat /\ crashes' \in Nat
  BY TotalsAreNat
<1>6. PICK w \in Nat, v \in Nat, u \in Nat :
          /\ w = Cardinality(Wasted) /\ v = Cardinality(Wasted')
          /\ u = Cardinality(Wasted \cup {p})
  BY <1>3, <1>4
<1>7. w <= faults + crashes /\ v <= u /\ u <= w + 1
  BY <1>3, <1>4, <1>6 DEF ConsumedMeansGranted
<1>8. PICK f \in Nat, c \in Nat, g \in Nat, d \in Nat :
          f = faults /\ c = crashes /\ g = faults' /\ d = crashes'
  BY <1>5
<1>9. f + c + 1 <= g + d /\ w <= f + c
  BY <1>7, <1>8
<1>10. v <= g + d
  BY <1>7, <1>9, OneMore
<1> QED BY <1>6, <1>8, <1>10 DEF ConsumedMeansGranted

\* A step of thread a that only takes files away, spends nothing and is not in
\* the middle of a replacement or a hand-over.
Mild(a) ==
    /\ Quiet(a)
    /\ \A p \in Pid : /\ rec'[p] = rec[p] \/ rec'[p] = NoRec
                      /\ part'[p] = part[p] \/ part'[p] = NoRec
                      /\ tomb'[p] = tomb[p] \/ tomb'[p] = NoTomb
    /\ UNCHANGED <<misses, crashes>> /\ faults <= faults'
    /\ pc[a] \in Holding \/ UNCHANGED <<rec, part, tomb>>
    /\ pc[a] \notin {"f_replace", "c_return"} /\ pc'[a] # "c_return"
    /\ pc'[a] \in {"t_create", "t_fill"} => rec'[loc'[a].pid].kind = "absent"
    /\ Taking(a)' => loc'[a].pid = loc[a].pid

LEMMA AbsentFiles ==
    NoRec.kind = "absent" /\ NoTomb.kind = "absent" /\ Torn.kind = "torn"
    /\ ~Valid(NoTomb) /\ ~Valid(TornTomb)
BY DEF NoRec, Torn, NoTomb, TornTomb, Tomb, Full, Valid

LEMMA MildKeeps ==
    ASSUME TypeOK, TypeOK', LockExclusive, OneHolder, Books,
           NEW a \in Actor, Mild(a)
    PROVE  Books'
<1> USE DEF Books, Mild
<1>0. /\ \A b \in Actor \ {a} : pc'[b] = pc[b] /\ loc'[b] = loc[b]
      /\ UNCHANGED <<issues, pidOf, grants>>
      /\ \A p \in Pid : Valid(rec'[p]) => rec'[p] = rec[p]
      /\ pc'[a] \notin {"f_replace", "i_fill"}
  BY DEF Quiet
<1>1. \A b \in Actor \ {a} : pc[b] \in Holding => UNCHANGED <<rec, part, tomb>>
  BY OnlyHolder
<1>2. FilesFit'
  <2>1. RecordXorTombstone'
    BY AbsentFiles DEF FilesFit, RecordXorTombstone
  <2>2. \A p \in Pid : part'[p] = NoRec \/ Valid(part'[p])
    BY DEF FilesFit
  <2>3. ASSUME NEW b \in Actor
        PROVE  /\ pc'[b] = "i_fill" => /\ rec'[loc'[b].pid].kind = "torn"
                                       /\ part'[loc'[b].pid] = NoRec
               /\ pc'[b] \in {"t_create", "t_fill", "c_return"} =>
                     rec'[loc'[b].pid].kind = "absent"
               /\ pc'[b] = "f_replace" =>
                     /\ part'[loc'[b].pid].total = rec'[loc'[b].pid].total + 1
                     /\ part'[loc'[b].pid].created = rec'[loc'[b].pid].created
    <3>1. CASE b = a
      BY <1>0, <3>1
    <3>2. CASE b # a /\ pc[b] \in Holding
      BY <1>0, <1>1, <3>2 DEF FilesFit
    <3>3. CASE b # a /\ pc[b] \notin Holding
      BY <1>0, <3>3, HoldingStates
    <3> QED BY <3>1, <3>2, <3>3
  <2> QED BY <2>1, <2>2, <2>3 DEF FilesFit
<1>3. TakersKnowTheirPid'
  <2>1. \A b \in Actor : Taking(b)' => /\ Taking(b)
                                       /\ loc'[b].secret = loc[b].secret
                                       /\ loc'[b].pid = loc[b].pid
    BY <1>0 DEF Taking, Quiet
  <2> QED BY <1>0, <2>1 DEF TakersKnowTheirPid
<1>4. ConsumedMeansGranted'
  <2>1. \A s \in Secret : Bought(s) => Bought(s)'
    BY <1>0, BoughtKeeps
  <2>2. \A q \in Pid : tomb'[q] = tomb[q] \/ ~Valid(tomb'[q])
    BY AbsentFiles
  <2>3. \A q \in Pid : q \in Wasted' => q \in Wasted
    BY <1>0, <2>1, <2>2, WastedSame
  <2>4. crashes <= crashes'
    BY CountsAreNat
  <2> QED BY <2>3, <2>4, WastedKeeps
<1>5. Counted'
  <2>1. \A p \in Pid : Stray(p)' => Stray(p)
    BY <1>0 DEF Stray
  <2>2. \A b \in Actor : Issuing(b)' => /\ Issuing(b)
                                        /\ loc'[b].secret = loc[b].secret
    BY <1>0 DEF Issuing, Quiet
  <2>3. crashes <= crashes'
    BY CountsAreNat
  <2> QED BY <1>0, <2>1, <2>2, <2>3, CountedKeeps
<1> QED BY <1>2, <1>3, <1>4, <1>5

LEMMA MildFinish ==
    ASSUME TypeOK, NEW a \in Actor, NEW result, Finish(a, result), Quiet(a),
           UNCHANGED <<disk, misses, crashes>>, faults <= faults',
           pc[a] \notin {"f_replace", "c_return"}
    PROVE  Mild(a)
<1>1. pc'[a] = "idle" /\ ~Taking(a)'
  BY DEF Finish, Taking, TypeOK, ThreadOK
<1> QED BY <1>1 DEF Mild, disk

LEMMA MildGoto ==
    ASSUME TypeOK, NEW a \in Actor, NEW label, NEW l, Goto(a, label, l), Quiet(a),
           label \notin {"t_create", "t_fill", "c_return"},
           pc[a] \notin {"f_replace", "c_return"},
           UNCHANGED <<disk, misses, crashes>>, faults <= faults'
    PROVE  Mild(a)
<1>1. pc'[a] = label /\ ~Taking(a)'
  BY DEF Goto, Taking, TypeOK, ThreadOK
<1> QED BY <1>1 DEF Mild, disk

\* The unlink before an "expired" tombstone.
LEMMA MildUnlink ==
    ASSUME TypeOK, NEW a \in Actor, NEW l \in LocalType, NEW p \in Pid,
           UnlinkFor(a, l, p, "expired"), Quiet(a), pc[a] \in Holding,
           pc[a] \notin {"f_replace", "c_return"},
           UNCHANGED <<part, tomb, misses, crashes, faults>>
    PROVE  Mild(a)
<1>1. rec' = [rec EXCEPT ![p] = NoRec]
  BY DEF UnlinkFor
<1>2. \A q \in Pid : rec'[q] = IF q = p THEN NoRec ELSE rec[q]
  BY <1>1 DEF TypeOK, DiskOK
<1>3. pc'[a] = "t_create" /\ loc'[a].pid = p /\ loc'[a].state = "expired"
  BY DEF UnlinkFor, Goto, TypeOK, ThreadOK, LocalType
<1>4. faults <= faults'
  BY CountsAreNat
<1> QED BY <1>2, <1>3, <1>4, AbsentFiles DEF Mild, Taking

LEMMA MildSteps ==
    ASSUME TypeOK, LockExclusive, NEW a \in Actor,
           \/ Acquire(a) \/ LockTimeout(a) \/ Restart(a)
           \/ BeginClaim(a) \/ BeginRevoke(a) \/ BeginSweep(a)
           \/ CheckTombstone(a) \/ CheckRecord(a) \/ ExpireUnderLock(a)
           \/ UnlinkFault(a) \/ ScanFault(a)
           \/ TombstoneFault(a) /\ UNCHANGED tomb
           \/ ReadFault(a) /\ UNCHANGED misses
           \/ NoFreePid(a) \/ IssueFault(a)
           \/ RevokeScan(a) \/ StartupScan(a) \/ RemoveNext(a)
           \/ RemoveDone(a) \/ RemoveFault(a)
           \/ SweepScan(a) \/ SweepNext(a) \/ SweepDone(a) \/ SweepFault(a)
    PROVE  Mild(a)
<1> USE DEF ghost, world
<1>0. Quiet(a)
  BY QuietSteps
<1>1. /\ faults \in Nat /\ loc[a] \in LocalType
      /\ faults <= faults /\ faults <= faults + 1
  BY CountsAreNat DEF TypeOK, ThreadOK
<1>2. CASE Acquire(a)
  <2>1. pc[a] \in Waiting /\ pc'[a] = Critical[pc[a]] /\ UNCHANGED <<disk, faults>>
    BY <1>2 DEF Acquire, TypeOK, ThreadOK
  <2>2. pc'[a] \notin {"t_create", "t_fill", "c_return"}
    BY <2>1 DEF Waiting, Critical
  <2>3. pc[a] \notin {"f_replace", "c_return"}
    BY <2>1 DEF Waiting, Critical
  <2> QED BY <1>0, <1>1, <1>2, <2>1, <2>2, <2>3 DEF Acquire, Mild, Taking, disk
<1>3. CASE Restart(a) \/ BeginClaim(a) \/ BeginRevoke(a) \/ BeginSweep(a)
  <2>1. /\ pc[a] = "idle" /\ UNCHANGED <<disk, misses, crashes, faults>>
        /\ pc'[a] \in {"w_start", "c_tomb", "w_revoke", "w_sweep"}
    BY <1>3 DEF Restart, BeginClaim, BeginRevoke, BeginSweep, Begin, TypeOK, ThreadOK
  <2> QED BY <1>0, <1>1, <2>1 DEF Mild, Taking, disk
<1>4. CASE LockTimeout(a) \/ CheckTombstone(a) \/ CheckRecord(a)
           \/ RevokeScan(a) \/ StartupScan(a) \/ SweepScan(a) \/ NoFreePid(a)
           \/ RemoveDone(a) \/ SweepDone(a)
  <2>1. /\ \/ \E result : Finish(a, result)
           \/ \E label, l : /\ label \notin {"t_create", "t_fill", "c_return"}
                            /\ Goto(a, label, l)
        /\ UNCHANGED <<disk, misses, crashes, faults>>
        /\ pc[a] \notin {"f_replace", "c_return"}
    <3>1. Waiting \cap {"f_replace", "c_return"} = {}
      BY DEF Waiting, Critical
    <3>2. CASE LockTimeout(a)
      BY <3>1, <3>2 DEF LockTimeout
    <3>3. CASE CheckTombstone(a) \/ CheckRecord(a)
      BY <3>3 DEF CheckTombstone, CheckRecord
    <3>4. CASE RevokeScan(a) \/ StartupScan(a) \/ SweepScan(a)
      BY <3>4 DEF RevokeScan, StartupScan, SweepScan, KeepNewest
    <3>5. CASE NoFreePid(a) \/ RemoveDone(a) \/ SweepDone(a)
      BY <3>5 DEF NoFreePid, RemoveDone, SweepDone
    <3> QED BY <1>4, <3>2, <3>3, <3>4, <3>5
  <2> QED BY <1>0, <1>1, <2>1, MildFinish, MildGoto
<1>5. CASE UnlinkFault(a) \/ (TombstoneFault(a) /\ UNCHANGED tomb)
           \/ RemoveFault(a) \/ SweepFault(a)
  <2>1. /\ \E result : Finish(a, result)
        /\ UNCHANGED <<disk, misses, crashes>> /\ faults' = faults + 1
        /\ pc[a] \notin {"f_replace", "c_return"}
    BY <1>5 DEF UnlinkFault, TombstoneFault, RemoveFault, SweepFault, Fault, disk
  <2> QED BY <1>0, <1>1, <2>1, MildFinish
<1>6. CASE IssueFault(a)
  <2>1. \A p \in Pid : rec'[p] = rec[p] \/ rec'[p] = NoRec
    <3>1. rec' = rec \/ rec' = [rec EXCEPT ![loc[a].pid] = NoRec]
      BY <1>6 DEF IssueFault
    <3> QED BY <3>1 DEF TypeOK, DiskOK
  <2>2. /\ \E result : Finish(a, result)
        /\ UNCHANGED <<part, tomb, misses, crashes>> /\ faults' = faults + 1
        /\ pc[a] \in {"i_fill", "remove"} /\ pc[a] \in Holding
    BY <1>6, HoldingStates DEF IssueFault, Fault
  <2>3. pc'[a] = "idle" /\ ~Taking(a)'
    BY <2>2 DEF Finish, Taking, TypeOK, ThreadOK
  <2> QED BY <1>0, <1>1, <2>1, <2>2, <2>3 DEF Mild
<1>7. CASE ExpireUnderLock(a)
  <2>1. /\ pc[a] = "x_expire" /\ pc[a] \in Holding /\ loc[a].pid \in Pid
        /\ UNCHANGED <<part, tomb, misses, crashes, faults>>
    BY <1>7, HoldingStates DEF ExpireUnderLock, TypeOK, ThreadOK, AtPid
  <2>2. CASE UnlinkFor(a, loc[a], loc[a].pid, "expired")
    BY <1>0, <1>1, <2>1, <2>2, MildUnlink
  <2>3. CASE UNCHANGED rec /\ \E result : Finish(a, result)
    BY <1>0, <1>1, <2>1, <2>3, MildFinish DEF disk
  <2> QED BY <1>7, <2>2, <2>3 DEF ExpireUnderLock
<1>8. CASE RemoveNext(a)
  <2>1. /\ \A p \in Pid : rec'[p] = rec[p] \/ rec'[p] = NoRec
        /\ pc[a] = "remove" /\ pc[a] \in Holding /\ pc'[a] = "remove"
        /\ UNCHANGED <<part, tomb, misses, crashes, faults>>
    BY <1>8, HoldingStates DEF RemoveNext, Goto, TypeOK, DiskOK, ThreadOK
  <2> QED BY <1>0, <1>1, <2>1 DEF Mild, Taking
<1>9. CASE SweepNext(a)
  <2>1. /\ pc[a] = "sweep" /\ pc[a] \in Holding
        /\ UNCHANGED <<misses, crashes, faults>>
    BY <1>9, HoldingStates DEF SweepNext
  <2>2. PICK f \in loc[a].todo :
            \/ /\ part' = [part EXCEPT ![f[2]] = NoRec]
               /\ UNCHANGED <<rec, tomb>>
               /\ \E l : Goto(a, "sweep", l)
            \/ /\ tomb' = [tomb EXCEPT ![f[2]] = NoTomb]
               /\ UNCHANGED <<rec, part>>
               /\ \E l : Goto(a, "sweep", l)
            \/ /\ UnlinkFor(a, [loc[a] EXCEPT !.todo = @ \ {f}], f[2], "expired")
               /\ UNCHANGED <<part, tomb>>
    BY <1>9 DEF SweepNext
  <2>3. f[2] \in Pid
    BY <1>1 DEF LocalType
  <2>4. CASE /\ UNCHANGED rec /\ \E l : Goto(a, "sweep", l)
             /\ \A p \in Pid : /\ part'[p] = part[p] \/ part'[p] = NoRec
                               /\ tomb'[p] = tomb[p] \/ tomb'[p] = NoTomb
    <3>1. pc'[a] = "sweep"
      BY <2>4 DEF Goto, TypeOK, ThreadOK
    <3> QED BY <1>0, <1>1, <2>1, <2>4, <3>1 DEF Mild, Taking
  <2>5. CASE /\ UnlinkFor(a, [loc[a] EXCEPT !.todo = @ \ {f}], f[2], "expired")
             /\ UNCHANGED <<part, tomb>>
    <3>1. [loc[a] EXCEPT !.todo = @ \ {f}] \in LocalType
      BY <1>1 DEF LocalType
    <3> QED BY <1>0, <2>1, <2>3, <2>5, <3>1, MildUnlink
  <2> QED BY <2>2, <2>4, <2>5 DEF TypeOK, DiskOK
<1>10. CASE ScanFault(a) \/ (ReadFault(a) /\ UNCHANGED misses)
  <2>1. /\ \/ \E result : Finish(a, result)
           \/ \E label \in {"remove", "sweep", "c_read"} : \E l : Goto(a, label, l)
        /\ UNCHANGED <<disk, misses, crashes>> /\ faults' = faults + 1
        /\ pc[a] \notin {"f_replace", "c_return"}
    BY <1>10 DEF ScanFault, ReadFault, KeepNewest, Fault
  <2> QED BY <1>0, <1>1, <2>1, MildFinish, MildGoto
<1> QED BY <1>2, <1>3, <1>4, <1>5, <1>6, <1>7, <1>8, <1>9, <1>10

\* The steps that do more, one lemma each.  While a thread holds the lock no
\* other is in a place that the books speak of.
LEMMA FilesKeep ==
    ASSUME LockExclusive, NEW a \in Actor, pc[a] \in Holding,
           \A b \in Actor \ {a} : pc'[b] = pc[b] /\ loc'[b] = loc[b],
           RecordXorTombstone', \A p \in Pid : part'[p] = NoRec \/ Valid(part'[p]),
           pc'[a] = "i_fill" => /\ rec'[loc'[a].pid].kind = "torn"
                                /\ part'[loc'[a].pid] = NoRec,
           pc'[a] \in {"t_create", "t_fill", "c_return"} =>
                rec'[loc'[a].pid].kind = "absent",
           pc'[a] = "f_replace" =>
                /\ part'[loc'[a].pid].total = rec'[loc'[a].pid].total + 1
                /\ part'[loc'[a].pid].created = rec'[loc'[a].pid].created
    PROVE  FilesFit'
<1>1. \A b \in Actor \ {a} :
          pc'[b] \notin {"i_fill", "t_create", "t_fill", "c_return", "f_replace"}
  BY OnlyHolder, HoldingStates DEF LockExclusive
<1> QED BY <1>1 DEF FilesFit

\* claim() spends its record.
LEMMA ConsumeBooks ==
    ASSUME TypeOK, TypeOK', LockExclusive, OneHolder, Books,
           NEW a \in Actor, ConsumeUnderLock(a)
    PROVE  Books'
<1> USE DEF Books
<1> DEFINE p == loc[a].pid
<1>1. /\ pc[a] = "x_claim" /\ pc[a] \in Holding /\ p \in Pid
      /\ UNCHANGED <<part, tomb, misses, grants, issues, pidOf, faults, crashes>>
  BY HoldingStates DEF ConsumeUnderLock, ghost, world, TypeOK, ThreadOK, AtPid
<1>2. CASE UNCHANGED rec /\ \E result : Finish(a, result)
  <2>1. Quiet(a)
    BY <1>1, <1>2, FinishQuiet
  <2>2. faults <= faults'
    BY <1>1, CountsAreNat
  <2> QED BY <1>1, <1>2, <2>1, <2>2, MildFinish, MildKeeps DEF disk
<1>3. CASE Recheck(loc[a]) = "consume" /\ UnlinkFor(a, loc[a], p, "consumed")
  <2>1. PICK s : s = loc[a].secret
    OBVIOUS
  <2>2. Valid(rec[p]) /\ rec[p].secret = s /\ pidOf[s] = p
    BY <1>1, <1>3, <2>1 DEF Recheck, TombAnswer, OneHolder, SecretsOwned
  <2>3. rec' = [rec EXCEPT ![p] = NoRec]
    BY <1>3 DEF UnlinkFor
  <2>4. \A q \in Pid : rec'[q] = IF q = p THEN NoRec ELSE rec[q]
    BY <2>3 DEF TypeOK, DiskOK
  <2>5. /\ pc'[a] = "t_create" /\ loc'[a].secret = s /\ loc'[a].pid = p
        /\ \A b \in Actor \ {a} : pc'[b] = pc[b] /\ loc'[b] = loc[b]
    BY <1>3, <2>1 DEF UnlinkFor, Goto, TypeOK, ThreadOK, LocalType
  <2>6. FilesFit'
    <3>1. RecordXorTombstone'
      BY <1>1, <2>4, AbsentFiles DEF FilesFit, RecordXorTombstone
    <3>2. \A q \in Pid : part'[q] = NoRec \/ Valid(part'[q])
      BY <1>1 DEF FilesFit
    <3> QED BY <1>1, <2>4, <2>5, <3>1, <3>2, AbsentFiles, FilesKeep
  <2>7. TakersKnowTheirPid'
    <3>1. \A b \in Actor : Taking(b)' => b = a
      BY <1>1, <2>5, OnlyHolder DEF Taking
    <3> QED BY <1>1, <2>2, <2>5, <3>1 DEF TakersKnowTheirPid
  <2>8. ConsumedMeansGranted'
    <3>1. \A t \in Secret : Bought(t) => Bought(t)'
      BY <1>1, <2>5, BoughtKeeps
    <3>2. \A q \in Pid : q \in Wasted' => q \in Wasted
      BY <1>1, <3>1, WastedSame
    <3>3. faults <= faults' /\ crashes <= crashes'
      BY <1>1, CountsAreNat
    <3> QED BY <3>2, <3>3, WastedKeeps
  <2>9. Counted'
    <3>1. \A q \in Pid : Valid(rec'[q]) => rec'[q] = rec[q]
      BY <2>4, NoRecInvalid
    <3>2. \A q \in Pid : Stray(q)' => Stray(q)
      BY <1>1, <2>5 DEF Stray
    <3>3. \A b \in Actor : Issuing(b)' => /\ Issuing(b)
                                          /\ loc'[b].secret = loc[b].secret
      BY <2>5 DEF Issuing
    <3>4. faults <= faults' /\ crashes <= crashes'
      BY <1>1, CountsAreNat
    <3> QED BY <1>1, <3>1, <3>2, <3>3, <3>4, CountedKeeps
  <2> QED BY <2>6, <2>7, <2>8, <2>9
<1> QED BY <1>2, <1>3 DEF ConsumeUnderLock

\* _write_tombstone: the tombstone stands where no record is, and says
\* "consumed" only for a taker on its way to the credential.
LEMMA TombstoneBooks ==
    ASSUME TypeOK, TypeOK', LockExclusive, OneHolder, Roles, Books,
           NEW a \in Actor, CreateTombstone(a) \/ FillTombstone(a)
    PROVE  Books'
<1> USE DEF Books
<1>1. PICK p \in Pid : p = loc[a].pid
  BY DEF CreateTombstone, FillTombstone, TypeOK, ThreadOK, AtPid
<1>2. /\ pc[a] \in {"t_create", "t_fill"} /\ pc[a] \in Holding
      /\ UNCHANGED <<rec, part, misses, grants, issues, pidOf, faults, crashes>>
      /\ rec[p].kind = "absent"
  BY <1>1, HoldingStates DEF CreateTombstone, FillTombstone, ghost, world, FilesFit
<1>3. \A q \in Pid \ {p} : tomb'[q] = tomb[q]
  BY <1>1 DEF CreateTombstone, FillTombstone, TypeOK, DiskOK
<1>4. /\ \A b \in Actor \ {a} : pc'[b] = pc[b] /\ loc'[b] = loc[b]
      /\ \/ pc'[a] \in {"t_fill", "c_return"} /\ loc'[a] = loc[a]
         \/ pc'[a] \in {"sweep", "idle"}
  BY DEF CreateTombstone, FillTombstone, Goto, Finish, TypeOK, ThreadOK
<1>5. FilesFit'
  <2>1. RecordXorTombstone'
    BY <1>2, <1>3 DEF FilesFit, RecordXorTombstone
  <2>2. \A q \in Pid : part'[q] = NoRec \/ Valid(part'[q])
    BY <1>2 DEF FilesFit
  <2> QED BY <1>1, <1>2, <1>4, <2>1, <2>2, FilesKeep
<1>6. TakersKnowTheirPid'
  <2>1. \A b \in Actor : Taking(b)' => Taking(b) /\ loc'[b] = loc[b]
    BY <1>2, <1>4 DEF Taking
  <2> QED BY <1>2, <2>1 DEF TakersKnowTheirPid
<1>7. ConsumedMeansGranted'
  <2>1. \A t \in Secret : Bought(t) => Bought(t)'
    BY <1>2, <1>4, BoughtKeeps
  <2>2. ASSUME NEW q \in Pid \ {p} PROVE q \in Wasted' => q \in Wasted
    BY <1>2, <1>3, <2>1, WastedSame
  <2>3. p \notin Wasted'
    <3>1. CASE CreateTombstone(a)
      <4>1. tomb'[p] = TornTomb
        BY <1>1, <3>1 DEF CreateTombstone, TypeOK, DiskOK
      <4> QED BY <4>1, AbsentFiles DEF Wasted
    <3>2. CASE FillTombstone(a) /\ loc[a].state # "consumed"
      <4>1. tomb'[p] = Tomb("full", loc[a].state, loc[a].exp)
        BY <1>1, <3>2 DEF FillTombstone, TypeOK, DiskOK
      <4> QED BY <3>2, <4>1 DEF Tomb, Wasted
    <3>3. CASE FillTombstone(a) /\ loc[a].state = "consumed"
      <4>1. Taking(a) /\ loc[a].op = "claim"
        BY <1>2, <3>3 DEF Taking, Roles
      <4>2. pc'[a] = "c_return" /\ loc'[a] = loc[a]
        BY <3>3, <4>1 DEF FillTombstone, Goto, TypeOK, ThreadOK
      <4>3. loc[a].secret \in Secret /\ pidOf[loc[a].secret] = p
        BY <1>1, <4>1, SecretBelow DEF TakersKnowTheirPid, OneHolder, TakersHold
      <4>4. Bought(loc[a].secret)'
        BY <4>2 DEF Bought
      <4> QED BY <1>2, <4>2, <4>3, <4>4 DEF Wasted
    <3> QED BY <3>1, <3>2, <3>3
  <2>4. \A q \in Pid : q \in Wasted' => q \in Wasted
    BY <2>2, <2>3
  <2>5. faults <= faults' /\ crashes <= crashes'
    BY <1>2, CountsAreNat
  <2> QED BY <2>4, <2>5, WastedKeeps
<1>8. Counted'
  <2>1. \A q \in Pid : Stray(q)' => Stray(q)
    BY <1>2, <1>4 DEF Stray
  <2>2. \A b \in Actor : Issuing(b)' => /\ Issuing(b)
                                        /\ loc'[b].secret = loc[b].secret
    BY <1>4 DEF Issuing
  <2>3. faults <= faults' /\ crashes <= crashes'
    BY <1>2, CountsAreNat
  <2> QED BY <1>2, <2>1, <2>2, <2>3, CountedKeeps
<1> QED BY <1>5, <1>6, <1>7, <1>8

\* The tombstone is complete although its writer fails, or the credential is not
\* there any more: one tombstone more may say "consumed" for nothing.
LEMMA WasteBooks ==
    ASSUME TypeOK, TypeOK', LockExclusive, OneHolder, Books,
           NEW a \in Actor, TombstoneFault(a) \/ ReturnFault(a)
    PROVE  Books'
<1> USE DEF Books
<1>1. PICK p \in Pid : p = loc[a].pid
  BY DEF TombstoneFault, ReturnFault, TypeOK, ThreadOK, AtPid
<1>2. /\ pc[a] \in {"t_create", "t_fill", "c_return"} /\ pc[a] \in Holding
      /\ UNCHANGED <<rec, part, misses, grants, issues, pidOf, crashes>>
      /\ faults' = faults + 1 /\ rec[p].kind = "absent"
  BY <1>1, HoldingStates DEF TombstoneFault, ReturnFault, Fault, disk, ghost, FilesFit
<1>3. \A q \in Pid \ {p} : tomb'[q] = tomb[q]
  BY <1>1 DEF TombstoneFault, ReturnFault, disk, TypeOK, DiskOK
<1>4. /\ pc'[a] = "idle"
      /\ \A b \in Actor \ {a} : pc'[b] = pc[b] /\ loc'[b] = loc[b]
  BY DEF TombstoneFault, ReturnFault, Finish, TypeOK, ThreadOK
<1>5. FilesFit'
  <2>1. RecordXorTombstone'
    BY <1>2, <1>3 DEF FilesFit, RecordXorTombstone
  <2>2. \A q \in Pid : part'[q] = NoRec \/ Valid(part'[q])
    BY <1>2 DEF FilesFit
  <2> QED BY <1>2, <1>4, <2>1, <2>2, FilesKeep
<1>6. TakersKnowTheirPid'
  BY <1>2, <1>4 DEF TakersKnowTheirPid, Taking
<1>7. ConsumedMeansGranted'
  <2>1. ASSUME NEW q \in Pid \ {p}, NEW t \in Secret, pidOf[t] = q, Bought(t)
        PROVE  Bought(t)'
    <3>1. CASE grants[t] = 1
      BY <1>2, <3>1 DEF Bought
    <3>2. CASE \E b \in Actor : pc[b] = "c_return" /\ loc[b].secret = t
      <4>1. pc[a] = "c_return" /\ loc[a].secret = t
        BY <1>2, <3>2, OnlyHolder
      <4>2. pidOf[t] = p
        BY <1>1, <4>1 DEF TakersKnowTheirPid, OneHolder, TakersHold
      <4> QED BY <2>1, <4>2
    <3> QED BY <2>1, <3>1, <3>2 DEF Bought
  <2>2. \A q \in Pid : q \in Wasted' => q \in Wasted \/ q = p
    BY <1>2, <1>3, <2>1, WastedSame
  <2>3. faults + crashes + 1 <= faults' + crashes'
    BY <1>2, CountsAreNat
  <2> QED BY <2>2, <2>3, WastedGrows
<1>8. Counted'
  <2>1. \A q \in Pid : Stray(q)' => Stray(q)
    BY <1>2, <1>4 DEF Stray
  <2>2. \A b \in Actor : Issuing(b)' => /\ Issuing(b)
                                        /\ loc'[b].secret = loc[b].secret
    BY <1>4 DEF Issuing
  <2>3. faults <= faults' /\ crashes <= crashes'
    BY <1>2, CountsAreNat
  <2> QED BY <1>2, <2>1, <2>2, <2>3, CountedKeeps
<1> QED BY <1>5, <1>6, <1>7, <1>8

\* The credential leaves: the taker's tombstone is now one of a secret granted.
LEMMA ReturnBooks ==
    ASSUME TypeOK, TypeOK', LockExclusive, OneHolder, Books,
           NEW a \in Actor, ReturnCredential(a)
    PROVE  Books'
<1> USE DEF Books
<1>1. PICK s : s = loc[a].secret
  OBVIOUS
<1>2. /\ pc[a] = "c_return" /\ pc[a] \in Holding
      /\ UNCHANGED <<rec, part, tomb, misses, issues, pidOf, faults, crashes>>
      /\ grants' = [grants EXCEPT ![s] = @ + 1]
  BY <1>1, HoldingStates DEF ReturnCredential, disk, world
<1>3. s \in Secret /\ grants[s] = 0
  BY <1>1, <1>2, SecretBelow DEF OneHolder, TakersHold
<1>4. \A t \in Secret : grants'[t] = IF t = s THEN 1 ELSE grants[t]
  BY <1>2, <1>3 DEF TypeOK, GhostOK
<1>5. /\ pc'[a] = "idle"
      /\ \A b \in Actor \ {a} : pc'[b] = pc[b] /\ loc'[b] = loc[b]
  BY DEF ReturnCredential, Finish, TypeOK, ThreadOK
<1>6. FilesFit'
  <2>1. RecordXorTombstone' /\ \A q \in Pid : part'[q] = NoRec \/ Valid(part'[q])
    BY <1>2 DEF FilesFit, RecordXorTombstone
  <2> QED BY <1>2, <1>5, <2>1, FilesKeep
<1>7. TakersKnowTheirPid'
  BY <1>2, <1>5 DEF TakersKnowTheirPid, Taking
<1>8. ConsumedMeansGranted'
  <2>1. \A t \in Secret : Bought(t) => Bought(t)'
    <3>1. \A b \in Actor : pc[b] = "c_return" => b = a
      BY <1>2, OnlyHolder
    <3> QED BY <1>1, <1>3, <1>4, <3>1 DEF Bought
  <2>2. \A q \in Pid : q \in Wasted' => q \in Wasted
    BY <1>2, <2>1, WastedSame
  <2>3. faults <= faults' /\ crashes <= crashes'
    BY <1>2, CountsAreNat
  <2> QED BY <2>2, <2>3, WastedKeeps
<1>9. Counted'
  <2>1. \A q \in Pid : Stray(q)' => Stray(q)
    BY <1>2, <1>5 DEF Stray
  <2>2. \A b \in Actor : Issuing(b)' => /\ Issuing(b)
                                        /\ loc'[b].secret = loc[b].secret
    BY <1>5 DEF Issuing
  <2>3. faults <= faults' /\ crashes <= crashes'
    BY <1>2, CountsAreNat
  <2> QED BY <1>2, <2>1, <2>2, <2>3, CountedKeeps
<1> QED BY <1>6, <1>7, <1>8, <1>9

\* A wrong guess is counted, and the thread is done: its record is gone, or
\* has room for one guess more.
LEMMA MissBooks ==
    ASSUME TypeOK, TypeOK', LockExclusive, OneHolder, Books,
           NEW a \in Actor, NEW p \in Pid, NEW s, NEW result,
           p = loc[a].pid, s = rec[p].secret, Valid(rec[p]),
           pc[a] \in {"x_fail", "f_replace"}, Finish(a, result),
           misses' = [misses EXCEPT ![s] = @ + 1],
           UNCHANGED <<tomb, grants, issues, pidOf, crashes>>, faults <= faults',
           \A q \in Pid \ {p} : rec'[q] = rec[q] /\ part'[q] = part[q],
           part'[p] \in {part[p], NoRec},
           \/ rec'[p] = NoRec
           \/ /\ Valid(rec'[p]) /\ rec'[p].secret = s
              /\ misses[s] + 1 + (IF part'[p] = NoRec THEN 0 ELSE 1)
                    <= rec'[p].total + 2 * faults' + crashes
    PROVE  Books'
<1> USE DEF Books, OneHolder
<1>1. /\ pc[a] \in Holding /\ pc'[a] = "idle" /\ pc[a] # "c_return" /\ ~Taking(a)
      /\ \A b \in Actor \ {a} : pc'[b] = pc[b] /\ loc'[b] = loc[b]
  BY HoldingStates DEF Finish, TypeOK, ThreadOK, Taking
<1>2. s \in 1 .. issues /\ s \in Secret /\ misses[s] \in Nat /\ Live(s)
  BY SecretBelow DEF SecretsOwned, Live, LiveRecords
<1>3. \A t \in Secret : misses'[t] = IF t = s THEN misses[s] + 1 ELSE misses[t]
  BY <1>2 DEF TypeOK, GhostOK
<1>4. FilesFit'
  <2>1. rec[p].kind # "absent"
    BY DEF Valid
  <2>2. RecordXorTombstone'
    BY <2>1, AbsentFiles DEF FilesFit, RecordXorTombstone
  <2>3. \A q \in Pid : part'[q] = NoRec \/ Valid(part'[q])
    BY DEF FilesFit
  <2> QED BY <1>1, <2>2, <2>3, FilesKeep
<1>5. TakersKnowTheirPid'
  BY <1>1 DEF TakersKnowTheirPid, Taking
<1>6. ConsumedMeansGranted'
  <2>1. \A t \in Secret : Bought(t) => Bought(t)'
    BY <1>1, BoughtKeeps
  <2>2. \A q \in Pid : q \in Wasted' => q \in Wasted
    BY <2>1, WastedSame
  <2>3. crashes <= crashes'
    BY CountsAreNat
  <2> QED BY <2>2, <2>3, WastedKeeps
<1>7. Counted'
  <2>1. ASSUME NEW q \in Pid, Valid(rec'[q])
        PROVE  misses'[rec'[q].secret] + (IF Stray(q)' THEN 1 ELSE 0)
                  <= rec'[q].total + 2 * faults' + crashes'
    <3>1. CASE q = p
      <4>1. /\ rec'[p].secret = s
            /\ misses[s] + 1 + (IF part'[p] = NoRec THEN 0 ELSE 1)
                  <= rec'[p].total + 2 * faults' + crashes
        BY <2>1, <3>1, NoRecInvalid
      <4>2. Stray(p)' => part'[p] # NoRec
        BY DEF Stray
      <4>3. misses'[rec'[p].secret] = misses[s] + 1
        BY <1>2, <1>3, <4>1
      <4>4. /\ rec'[p].total \in Nat /\ faults' \in Nat /\ crashes \in Nat
            /\ crashes' = crashes
        BY TotalsAreNat DEF TypeOK, DiskOK, RecordFile
      <4>5. misses[s] + 1 + (IF Stray(p)' THEN 1 ELSE 0)
                <= rec'[p].total + 2 * faults' + crashes
        BY <1>2, <4>1, <4>2, <4>4
      <4> QED BY <3>1, <4>3, <4>4, <4>5
    <3>2. CASE q # p
      <4>1. rec'[q] = rec[q] /\ part'[q] = part[q] /\ Valid(rec[q])
        BY <2>1, <3>2
      <4>2. rec[q].secret \in 1 .. issues /\ rec[q].secret # s
        BY <3>2, <4>1 DEF SecretsOwned
      <4>3. PICK m \in Nat, t \in Nat : m = misses[rec[q].secret] /\ t = rec[q].total
        BY <4>2, SecretBelow, CountsAreNat
      <4>4. misses'[rec'[q].secret] = m
        BY <1>3, <4>1, <4>2, <4>3, SecretBelow
      <4>5. Stray(q)' => Stray(q)
        BY <1>1, <3>2, <4>1 DEF Stray
      <4>6. m + (IF Stray(q) THEN 1 ELSE 0) <= t + 2 * faults + crashes
        BY <4>1, <4>3 DEF Counted, LiveRecords
      <4>7. faults \in Nat /\ crashes \in Nat /\ faults' \in Nat
        <5>1. faults' \in 0 .. MaxFaults
          BY DEF TypeOK, WorldOK
        <5> QED BY <5>1, CountsAreNat, BoundsAreNat
      <4>8. m + (IF Stray(q)' THEN 1 ELSE 0) <= t + 2 * faults' + crashes
        BY <4>3, <4>5, <4>6, <4>7
      <4> QED BY <4>1, <4>3, <4>4, <4>8
    <3> QED BY <3>1, <3>2
  <2>2. ASSUME NEW t \in Secret,
               t > issues' \/ \E b \in Actor : Issuing(b)' /\ loc'[b].secret = t
        PROVE  misses'[t] = 0
    <3>1. t > issues \/ \E b \in Actor : Issuing(b) /\ loc[b].secret = t
      BY <1>1, <2>2 DEF Issuing
    <3>2. t # s
      <4>1. CASE t > issues
        BY <1>2, <4>1, CountsAreNat
      <4>2. CASE \E b \in Actor : Issuing(b) /\ loc[b].secret = t
        BY <1>2, <4>2 DEF IssuersHold
      <4> QED BY <3>1, <4>1, <4>2
    <3> QED BY <1>3, <3>1, <3>2 DEF Counted
  <2> QED BY <2>1, <2>2 DEF Counted, LiveRecords
<1> QED BY <1>4, <1>5, <1>6, <1>7

\* _record_failure, _replace_record.
LEMMA FailureBooks ==
    ASSUME TypeOK, TypeOK', LockExclusive, OneHolder, Books,
           NEW a \in Actor,
           \/ FailUnderLock(a) \/ ReplacePart(a)
           \/ ReplaceFault(a) \/ ReplacedFault(a)
           \/ ReadFault(a) /\ Miss(loc[a].pid) /\ pc[a] = "x_fail"
    PROVE  Books'
<1> USE DEF OneHolder
<1>1. PICK p \in Pid : p = loc[a].pid
  BY DEF FailUnderLock, ReplacePart, ReplaceFault, ReplacedFault, TypeOK, ThreadOK,
         AtPid
<1>2. PICK s : s = rec[p].secret
  OBVIOUS
<1>3. /\ pc[a] \in {"x_fail", "f_replace"} /\ pc[a] \in Holding
      /\ UNCHANGED <<tomb, grants, issues, pidOf, crashes>> /\ faults <= faults'
  <2>1. faults \in Nat
    BY CountsAreNat
  <2> QED BY <2>1, HoldingStates
          DEF FailUnderLock, ReplacePart, ReplaceFault, ReplacedFault, ReadFault,
              disk, world, Fault
<1>4. ASSUME Valid(rec[p])
      PROVE  /\ s \in 1 .. issues /\ misses[s] \in Nat
             /\ misses[s] + (IF Stray(p) THEN 1 ELSE 0)
                   <= rec[p].total + 2 * faults + crashes
  BY <1>2, <1>4, SecretBelow DEF SecretsOwned, Books, Counted, LiveRecords
<1>5. /\ faults \in Nat /\ crashes \in Nat /\ rec[p].total \in Nat
  BY CountsAreNat
<1>6. CASE FailUnderLock(a) /\ UNCHANGED <<rec, part, misses>>
           /\ \E result : Finish(a, result)
  <2>1. Quiet(a)
    BY <1>3, <1>6, FinishQuiet
  <2> QED BY <1>3, <1>6, <2>1, MildFinish, MildKeeps DEF FailUnderLock, disk
<1>7. CASE /\ FailUnderLock(a) /\ Valid(rec[p]) /\ Miss(p) /\ Finish(a, "Invalid")
           /\ rec' = [rec EXCEPT ![p] = NoRec] /\ UNCHANGED part
  <2>1. /\ rec'[p] = NoRec
        /\ \A q \in Pid \ {p} : rec'[q] = rec[q]
    BY <1>7 DEF TypeOK, DiskOK
  <2> QED BY <1>1, <1>2, <1>3, <1>7, <2>1, MissBooks DEF Miss
<1>8. CASE /\ FailUnderLock(a) /\ Valid(rec[p]) /\ Miss(p) /\ Finish(a, "Invalid")
           /\ part[p] # NoRec /\ part' = [part EXCEPT ![p] = NoRec]
           /\ UNCHANGED rec
  <2>1. /\ part'[p] = NoRec
        /\ \A q \in Pid \ {p} : part'[q] = part[q]
    BY <1>8 DEF TypeOK, DiskOK
  <2>2. Stray(p)
    <3>1. pc[a] = "x_fail"
      BY <1>8 DEF FailUnderLock
    <3> QED BY <1>3, <1>8, <3>1, OnlyHolder DEF Stray
  <2>3. misses[s] + 1 <= rec'[p].total + 2 * faults' + crashes
    <3>1. faults' = faults
      BY <1>8 DEF FailUnderLock, world
    <3> QED BY <1>4, <1>8, <2>2, <3>1
  <2>4. misses[s] + 1 + (IF part'[p] = NoRec THEN 0 ELSE 1)
            <= rec'[p].total + 2 * faults' + crashes
    BY <1>4, <1>8, <2>1, <2>3
  <2>5. rec'[p] = rec[p] /\ \A q \in Pid \ {p} : rec'[q] = rec[q]
    BY <1>8
  <2> QED BY <1>1, <1>2, <1>3, <1>8, <2>1, <2>4, <2>5, MissBooks DEF Miss
<1>9. CASE /\ FailUnderLock(a) /\ Valid(rec[p]) /\ part[p] = NoRec
           /\ part' = [part EXCEPT ![p] = Bumped(rec[p], loc[a].now)]
           /\ Goto(a, "f_replace", loc[a]) /\ UNCHANGED <<rec, misses>>
  <2>1. /\ pc'[a] = "f_replace" /\ loc' = loc
        /\ \A b \in Actor \ {a} : pc'[b] = pc[b]
    BY <1>9 DEF Goto, TypeOK, ThreadOK
  <2>2. \A q \in Pid : part'[q] = IF q = p THEN Bumped(rec[p], loc[a].now)
                                           ELSE part[q]
    BY <1>9 DEF TypeOK, DiskOK
  <2>3. /\ Bumped(rec[p], loc[a].now).total = rec[p].total + 1
        /\ Bumped(rec[p], loc[a].now).created = rec[p].created
        /\ Valid(Bumped(rec[p], loc[a].now))
    BY DEF Bumped, Full, Valid
  <2>4. FilesFit'
    <3>1. RecordXorTombstone'
      BY <1>3, <1>9 DEF Books, FilesFit, RecordXorTombstone
    <3>2. \A q \in Pid : part'[q] = NoRec \/ Valid(part'[q])
      BY <2>2, <2>3 DEF Books, FilesFit
    <3> QED BY <1>1, <1>3, <1>9, <2>1, <2>2, <2>3, <3>1, <3>2, FilesKeep
  <2>5. TakersKnowTheirPid'
    BY <1>3, <2>1 DEF Books, TakersKnowTheirPid, Taking
  <2>6. ConsumedMeansGranted'
    <3>1. \A t \in Secret : Bought(t) => Bought(t)'
      BY <1>3, <2>1, BoughtKeeps
    <3>2. \A q \in Pid : q \in Wasted' => q \in Wasted
      BY <1>3, <3>1, WastedSame
    <3>3. crashes <= crashes'
      BY <1>3, <1>5
    <3> QED BY <1>3, <3>2, <3>3, WastedKeeps DEF Books
  <2>7. Counted'
    <3>1. \A q \in Pid : Stray(q)' => Stray(q)
      BY <1>1, <1>3, <2>1, <2>2 DEF Stray
    <3>2. \A b \in Actor : Issuing(b)' => /\ Issuing(b)
                                          /\ loc'[b].secret = loc[b].secret
      BY <2>1 DEF Issuing
    <3>3. crashes <= crashes'
      BY <1>3, <1>5
    <3> QED BY <1>3, <1>9, <3>1, <3>2, <3>3, CountedKeeps DEF Books
  <2> QED BY <2>4, <2>5, <2>6, <2>7 DEF Books
<1>10. ASSUME pc[a] = "f_replace"
       PROVE  /\ Valid(rec[p]) /\ Valid(part[p]) /\ part[p].secret = s
              /\ part[p].total = rec[p].total + 1
  BY <1>1, <1>2, <1>10 DEF PartKeepsSecret, Books, FilesFit
<1>11. CASE ReplacePart(a) \/ ReplacedFault(a)
  <2>1. /\ pc[a] = "f_replace" /\ Miss(p) /\ Finish(a, "Invalid")
        /\ part' = [part EXCEPT ![p] = NoRec]
        /\ rec' = [rec EXCEPT ![p] = part[p]]
    BY <1>1, <1>11 DEF ReplacePart, ReplacedFault
  <2>2. misses[s] <= rec[p].total + 2 * faults + crashes /\ misses[s] \in Nat
    <3>1. misses[s] <= misses[s] + (IF Stray(p) THEN 1 ELSE 0)
      BY <1>4, <1>10, <2>1
    <3> QED BY <1>4, <1>5, <1>10, <2>1, <3>1
  <2>3. /\ rec'[p] = part[p] /\ part'[p] = NoRec
        /\ \A q \in Pid \ {p} : rec'[q] = rec[q] /\ part'[q] = part[q]
    BY <2>1 DEF TypeOK, DiskOK
  <2>4. faults' \in {faults, faults + 1}
    BY <1>11 DEF ReplacePart, ReplacedFault, world, Fault
  <2>5. misses[s] + 1 + 0 <= rec'[p].total + 2 * faults' + crashes
    BY <1>5, <1>10, <2>1, <2>2, <2>3, <2>4
  <2>6. misses' = [misses EXCEPT ![s] = @ + 1]
    BY <1>2, <2>1 DEF Miss
  <2>7. OneHolder
    OBVIOUS
  <2> HIDE DEF OneHolder
  <2> QED BY <1>1, <1>2, <1>3, <1>10, <2>1, <2>3, <2>5, <2>6, <2>7, MissBooks
<1>12. CASE ReplaceFault(a) \/ (ReadFault(a) /\ Miss(p) /\ pc[a] = "x_fail")
  <2>1. /\ Miss(p) /\ Finish(a, "Invalid") /\ rec' = rec /\ Valid(rec[p])
        /\ part' = part \/ part' = [part EXCEPT ![p] = NoRec]
        /\ faults' = faults + 1
    BY <1>1, <1>10, <1>12 DEF ReplaceFault, ReadFault, disk, Fault
  <2>2. /\ part'[p] \in {part[p], NoRec}
        /\ \A q \in Pid \ {p} : part'[q] = part[q]
    BY <2>1 DEF TypeOK, DiskOK
  <2>3. misses[s] <= rec[p].total + 2 * faults + crashes /\ misses[s] \in Nat
    <3>1. misses[s] <= misses[s] + (IF Stray(p) THEN 1 ELSE 0)
      BY <1>4, <2>1
    <3> QED BY <1>4, <1>5, <2>1, <3>1
  <2>4. misses[s] + 1 + (IF part'[p] = NoRec THEN 0 ELSE 1)
            <= rec'[p].total + 2 * faults' + crashes
    BY <1>5, <2>1, <2>3
  <2>5. misses' = [misses EXCEPT ![s] = @ + 1]
    BY <1>2, <2>1 DEF Miss
  <2>6. OneHolder
    OBVIOUS
  <2> HIDE DEF OneHolder
  <2> QED BY <1>1, <1>2, <1>3, <2>1, <2>2, <2>4, <2>5, <2>6, MissBooks
<1> QED BY <1>1, <1>6, <1>7, <1>8, <1>9, <1>11, <1>12 DEF FailUnderLock

\* issue(): a new secret has no misses; its record is written where nothing was.
LEMMA BeginIssueBooks ==
    ASSUME TypeOK, TypeOK', LockExclusive, OneHolder, Books,
           NEW a \in Actor, BeginIssue(a)
    PROVE  Books'
<1> USE DEF Books
<1>1. /\ pc[a] = "idle" /\ pc'[a] = "w_issue" /\ loc'[a].secret = issues + 1
      /\ \A b \in Actor \ {a} : pc'[b] = pc[b] /\ loc'[b] = loc[b]
      /\ UNCHANGED <<rec, part, tomb, misses, grants, pidOf, faults, crashes>>
      /\ issues' = issues + 1 /\ issues \in Nat
  BY CountsAreNat DEF BeginIssue, Begin, Local, TypeOK, ThreadOK, disk, ghost
<1>2. FilesFit'
  BY <1>1 DEF FilesFit, RecordXorTombstone
<1>3. TakersKnowTheirPid'
  BY <1>1 DEF TakersKnowTheirPid, Taking
<1>4. ConsumedMeansGranted'
  <2>1. \A t \in Secret : Bought(t) => Bought(t)'
    BY <1>1, BoughtKeeps
  <2>2. \A q \in Pid : q \in Wasted' => q \in Wasted
    BY <1>1, <2>1, WastedSame
  <2>3. faults <= faults' /\ crashes <= crashes'
    BY <1>1, CountsAreNat
  <2> QED BY <2>2, <2>3, WastedKeeps
<1>5. Counted'
  <2>1. \A p \in Pid : Stray(p)' <=> Stray(p)
    BY <1>1 DEF Stray
  <2>2. \A p \in Pid : Valid(rec[p]) =>
            misses'[rec'[p].secret] + (IF Stray(p)' THEN 1 ELSE 0)
                <= rec'[p].total + 2 * faults' + crashes'
    BY <1>1, <2>1 DEF Counted, LiveRecords
  <2>3. ASSUME NEW s \in Secret,
               s > issues' \/ \E b \in Actor : Issuing(b)' /\ loc'[b].secret = s
        PROVE  misses'[s] = 0
    <3>1. s \in Nat /\ (s > issues' => s > issues) /\ issues + 1 > issues
      BY <1>1 DEF Secret
    <3>2. s > issues \/ \E b \in Actor : Issuing(b) /\ loc[b].secret = s
      BY <1>1, <2>3, <3>1 DEF Issuing
    <3> QED BY <1>1, <3>2 DEF Counted
  <2> QED BY <1>1, <2>2, <2>3 DEF Counted, LiveRecords
<1> QED BY <1>2, <1>3, <1>4, <1>5

LEMMA AllocateBooks ==
    ASSUME TypeOK, TypeOK', LockExclusive, OneHolder, Books,
           NEW a \in Actor, AllocateRecord(a)
    PROVE  Books'
<1> USE DEF Books
<1>1. PICK p \in FreePids :
          /\ rec' = [rec EXCEPT ![p] = Torn]
          /\ pidOf' = [pidOf EXCEPT ![loc[a].secret] = p]
          /\ Goto(a, "i_fill", [loc[a] EXCEPT !.pid = p, !.now = clock])
  BY DEF AllocateRecord
<1>2. PICK s : s = loc[a].secret
  OBVIOUS
<1>3. /\ pc[a] = "x_issue" /\ pc[a] \in Holding /\ Issuing(a)
      /\ UNCHANGED <<part, tomb, misses, grants, issues, faults, crashes>>
  BY HoldingStates DEF AllocateRecord, ghost, Issuing
<1>4. s \in Secret /\ grants[s] = 0
  BY <1>2, <1>3, SecretBelow DEF OneHolder, IssuersHold
<1>5. /\ pc'[a] = "i_fill" /\ loc'[a].secret = s /\ loc'[a].pid = p
      /\ \A b \in Actor \ {a} : pc'[b] = pc[b] /\ loc'[b] = loc[b]
  BY <1>1, <1>2 DEF Goto, TypeOK, ThreadOK, LocalType
<1>6. /\ p \in Pid /\ tomb[p].kind = "absent" /\ part[p] = NoRec
      /\ \A q \in Pid : rec'[q] = IF q = p THEN Torn ELSE rec[q]
  <2>1. p \in Pid /\ tomb[p].kind = "absent" /\ part[p].kind = "absent"
    BY DEF FreePids
  <2>2. part[p] = NoRec
    BY <2>1 DEF FilesFit, Valid
  <2> QED BY <1>1, <2>1, <2>2 DEF TypeOK, DiskOK
<1>7. \A t \in Secret \ {s} : pidOf'[t] = pidOf[t]
  BY <1>1, <1>2 DEF TypeOK, WorldOK
<1>8. FilesFit'
  <2>1. RecordXorTombstone'
    BY <1>3, <1>6 DEF FilesFit, RecordXorTombstone
  <2>2. \A q \in Pid : part'[q] = NoRec \/ Valid(part'[q])
    BY <1>3 DEF FilesFit
  <2> QED BY <1>3, <1>5, <1>6, <2>1, <2>2, AbsentFiles, FilesKeep
<1>9. TakersKnowTheirPid'
  BY <1>3, <1>5, OnlyHolder DEF TakersKnowTheirPid, Taking
<1>10. ConsumedMeansGranted'
  <2>1. \A b \in Actor : pc[b] # "c_return"
    BY <1>3, OnlyHolder
  <2>2. \A t \in Secret : Bought(t) => t # s /\ Bought(t)'
    BY <1>3, <1>4, <2>1 DEF Bought
  <2>3. \A q \in Pid : q \in Wasted' => q \in Wasted
    BY <1>3, <1>7, <2>2, WastedSame
  <2>4. faults <= faults' /\ crashes <= crashes'
    BY <1>3, CountsAreNat
  <2> QED BY <2>3, <2>4, WastedKeeps
<1>11. Counted'
  <2>1. \A q \in Pid : Valid(rec'[q]) => rec'[q] = rec[q]
    BY <1>6, NoRecInvalid
  <2>2. \A q \in Pid : Stray(q)' => Stray(q)
    BY <1>3, <1>5 DEF Stray
  <2>3. \A b \in Actor : Issuing(b)' => /\ Issuing(b)
                                        /\ loc'[b].secret = loc[b].secret
    BY <1>2, <1>3, <1>5 DEF Issuing
  <2>4. faults <= faults' /\ crashes <= crashes'
    BY <1>3, CountsAreNat
  <2> QED BY <1>3, <2>1, <2>2, <2>3, <2>4, CountedKeeps
<1> QED BY <1>8, <1>9, <1>10, <1>11

LEMMA FillBooks ==
    ASSUME TypeOK, TypeOK', LockExclusive, OneHolder, Books,
           NEW a \in Actor, FillRecord(a) \/ FillFault(a)
    PROVE  Books'
<1> USE DEF Books
<1>1. PICK p \in Pid : p = loc[a].pid
  BY DEF FillRecord, FillFault, TypeOK, ThreadOK, AtPid
<1>2. PICK s : s = loc[a].secret
  OBVIOUS
<1>3. /\ pc[a] = "i_fill" /\ pc[a] \in Holding /\ Issuing(a)
      /\ UNCHANGED <<part, tomb, misses, grants, issues, pidOf, crashes>>
      /\ rec[p].kind = "torn" /\ part[p] = NoRec
  BY <1>1, HoldingStates DEF FillRecord, FillFault, ghost, world, Issuing, FilesFit
<1>0. faults <= faults' /\ crashes <= crashes'
  BY <1>3, CountsAreNat DEF FillRecord, FillFault, world, Fault
<1>4. s \in Secret /\ misses[s] = 0
  BY <1>2, <1>3, SecretBelow DEF OneHolder, IssuersHold, Counted
<1>5. /\ \A q \in Pid \ {p} : rec'[q] = rec[q]
      /\ rec'[p].secret = s /\ rec'[p].total = 0
  <2>1. rec' = [rec EXCEPT ![p] = Full(s, loc[a].now, 0, 0, 0)]
    BY <1>1, <1>2 DEF FillRecord, FillFault
  <2> QED BY <2>1 DEF TypeOK, DiskOK, Full
<1>6. /\ pc'[a] \in {"remove", "idle"}
      /\ \A b \in Actor \ {a} : pc'[b] = pc[b] /\ loc'[b] = loc[b]
  BY DEF FillRecord, FillFault, Goto, Finish, TypeOK, ThreadOK
<1>7. FilesFit'
  <2>1. RecordXorTombstone'
    BY <1>3, <1>5 DEF FilesFit, RecordXorTombstone
  <2>2. \A q \in Pid : part'[q] = NoRec \/ Valid(part'[q])
    BY <1>3 DEF FilesFit
  <2> QED BY <1>3, <1>6, <2>1, <2>2, FilesKeep
<1>8. TakersKnowTheirPid'
  BY <1>3, <1>6, OnlyHolder DEF TakersKnowTheirPid, Taking
<1>9. ConsumedMeansGranted'
  <2>1. \A t \in Secret : Bought(t) => Bought(t)'
    BY <1>3, <1>6, BoughtKeeps
  <2>2. \A q \in Pid : q \in Wasted' => q \in Wasted
    BY <1>3, <2>1, WastedSame
  <2> QED BY <1>0, <2>2, WastedKeeps
<1>10. Counted'
  <2>1. \A q \in Pid : Stray(q)' => Stray(q)
    BY <1>3, <1>6 DEF Stray
  <2>2. /\ faults \in Nat /\ crashes \in Nat /\ faults' \in Nat /\ ~Stray(p)'
    BY <1>3, TotalsAreNat DEF Stray
  <2>3. ASSUME NEW q \in Pid, Valid(rec'[q])
        PROVE  misses'[rec'[q].secret] + (IF Stray(q)' THEN 1 ELSE 0)
                  <= rec'[q].total + 2 * faults' + crashes'
    <3>1. CASE q = p
      <4>1. misses'[rec'[p].secret] = 0 /\ rec'[p].total = 0
        BY <1>3, <1>4, <1>5
      <4>2. 0 + 0 <= 0 + 2 * faults' + crashes
        <5>1. PICK f \in Nat, c \in Nat : f = faults' /\ c = crashes
          BY <2>2
        <5>2. 0 + 0 <= 0 + 2 * f + c
          OBVIOUS
        <5> QED BY <5>1, <5>2
      <4> QED BY <1>3, <2>2, <3>1, <4>1, <4>2
    <3>2. CASE q # p
      <4>1. rec'[q] = rec[q] /\ Valid(rec[q])
        BY <1>5, <2>3, <3>2
      <4>2. PICK m \in Nat, t \in Nat : m = misses[rec[q].secret] /\ t = rec[q].total
        BY <4>1, SecretBelow, CountsAreNat DEF OneHolder, SecretsOwned
      <4>3. m + (IF Stray(q) THEN 1 ELSE 0) <= t + 2 * faults + crashes
        BY <4>1, <4>2 DEF Counted, LiveRecords
      <4>4. m + (IF Stray(q)' THEN 1 ELSE 0) <= t + 2 * faults' + crashes
        BY <1>0, <2>1, <2>2, <4>2, <4>3
      <4> QED BY <1>3, <4>1, <4>2, <4>4
    <3> QED BY <3>1, <3>2
  <2>4. \A b \in Actor : Issuing(b)' => Issuing(b) /\ loc'[b] = loc[b]
    BY <1>6 DEF Issuing
  <2>5. \A t \in Secret :
            t > issues' \/ (\E b \in Actor : Issuing(b)' /\ loc'[b].secret = t) =>
                misses'[t] = 0
    BY <1>3, <2>4 DEF Counted
  <2> QED BY <2>3, <2>5 DEF Counted, LiveRecords
<1> QED BY <1>7, <1>8, <1>9, <1>10

\* A kill leaves at most one more temporary behind, and is itself counted.
LEMMA CrashBooks ==
    ASSUME TypeOK, TypeOK', LockExclusive, OneHolder, Books,
           NEW c \in Proc, Crash(c)
    PROVE  Books'
<1> USE DEF Books
<1>1. /\ UNCHANGED <<rec, part, tomb, misses, grants, issues, pidOf, faults>>
      /\ crashes' = crashes + 1 /\ crashes \in Nat /\ faults \in Nat
  BY CountsAreNat DEF Crash, disk, ghost
<1>2. \A b \in Actor : \/ pc'[b] = "idle"
                       \/ pc'[b] = pc[b] /\ loc'[b] = loc[b]
  BY DEF Crash
<1>3. FilesFit'
  BY <1>1, <1>2 DEF FilesFit, RecordXorTombstone
<1>4. TakersKnowTheirPid'
  BY <1>1, <1>2 DEF TakersKnowTheirPid, Taking
<1>5. ConsumedMeansGranted'
  <2>1. CASE \A b \in Actor : pc[b] # "c_return"
    <3>1. \A q \in Pid : q \in Wasted' => q \in Wasted
      BY <1>1, <2>1, WastedSame DEF Bought
    <3>2. faults <= faults' /\ crashes <= crashes'
      BY <1>1
    <3> QED BY <3>1, <3>2, WastedKeeps
  <2>2. CASE \E b \in Actor : pc[b] = "c_return"
    <3>1. PICK a \in Actor : pc[a] = "c_return"
      BY <2>2
    <3>2. \A b \in Actor : pc[b] = "c_return" => b = a
      BY <3>1, HoldingStates, OnlyHolder
    <3>3. pidOf[loc[a].secret] = loc[a].pid
      BY <3>1 DEF TakersKnowTheirPid, OneHolder, TakersHold
    <3>4. PICK p : p = loc[a].pid
      OBVIOUS
    <3>5. ASSUME NEW q \in Pid, q # p, NEW t \in Secret, pidOf[t] = q, Bought(t)
          PROVE  Bought(t)'
      BY <1>1, <3>2, <3>3, <3>4, <3>5 DEF Bought
    <3>6. \A q \in Pid : q \in Wasted' => q \in Wasted \/ q = p
      BY <1>1, <3>5, WastedSame
    <3>7. faults + crashes + 1 <= faults' + crashes'
      BY <1>1
    <3> QED BY <3>6, <3>7, WastedGrows
  <2> QED BY <2>1, <2>2
<1>6. Counted'
  <2>1. ASSUME NEW q \in Pid, Valid(rec[q])
        PROVE  misses[rec[q].secret] + (IF Stray(q)' THEN 1 ELSE 0)
                  <= rec[q].total + 2 * faults + (crashes + 1)
    <3>1. PICK m \in Nat, t \in Nat : m = misses[rec[q].secret] /\ t = rec[q].total
      BY <2>1, SecretBelow, CountsAreNat DEF OneHolder, SecretsOwned
    <3>2. m + (IF Stray(q) THEN 1 ELSE 0) <= t + 2 * faults + crashes
      BY <2>1, <3>1 DEF Counted, LiveRecords
    <3>3. m + (IF Stray(q)' THEN 1 ELSE 0) <= t + 2 * faults + (crashes + 1)
      BY <1>1, <3>1, <3>2
    <3> QED BY <3>1, <3>3
  <2>2. \A b \in Actor : Issuing(b)' => Issuing(b) /\ loc'[b] = loc[b]
    BY <1>2 DEF Issuing
  <2>3. \A t \in Secret :
            t > issues' \/ (\E b \in Actor : Issuing(b)' /\ loc'[b].secret = t) =>
                misses'[t] = 0
    BY <1>1, <2>2 DEF Counted
  <2> QED BY <1>1, <2>1, <2>3 DEF Counted, LiveRecords
<1> QED BY <1>3, <1>4, <1>5, <1>6

LEMMA BooksStep ==
    ASSUME TypeOK, TypeOK', LockExclusive, OneHolder, Roles, Books, [Next]_vars
    PROVE  Books'
<1>1. ASSUME NEW a \in Actor,
             Step(a) \/ BeginCall(a) \/ DiskFault(a) \/ Restart(a)
      PROVE  Books'
  <2>1. CASE ConsumeUnderLock(a)
    BY <2>1, ConsumeBooks
  <2>2. CASE CreateTombstone(a) \/ FillTombstone(a)
    BY <2>2, TombstoneBooks
  <2>3. CASE ReturnCredential(a)
    BY <2>3, ReturnBooks
  <2>4. CASE \/ FailUnderLock(a) \/ ReplacePart(a)
             \/ ReplaceFault(a) \/ ReplacedFault(a)
             \/ ReadFault(a) /\ Miss(loc[a].pid) /\ pc[a] = "x_fail"
    BY <2>4, FailureBooks
  <2>5. CASE BeginIssue(a)
    BY <2>5, BeginIssueBooks
  <2>6. CASE AllocateRecord(a)
    BY <2>6, AllocateBooks
  <2>7. CASE FillRecord(a) \/ FillFault(a)
    BY <2>7, FillBooks
  <2>8. CASE Mild(a)
    BY <2>8, MildKeeps
  <2>9. CASE TombstoneFault(a) \/ ReturnFault(a)
    BY <2>9, WasteBooks
  <2>10. CASE ReadFault(a)
    <3>1. UNCHANGED misses \/ (Miss(loc[a].pid) /\ pc[a] = "x_fail")
      BY <2>10 DEF ReadFault
    <3> QED BY <2>4, <2>8, <2>10, <3>1, MildSteps
  <2>11. CASE \/ Acquire(a) \/ LockTimeout(a) \/ Restart(a)
              \/ BeginClaim(a) \/ BeginRevoke(a) \/ BeginSweep(a)
              \/ CheckTombstone(a) \/ CheckRecord(a) \/ ExpireUnderLock(a)
              \/ UnlinkFault(a) \/ ScanFault(a) \/ NoFreePid(a) \/ IssueFault(a)
              \/ RevokeScan(a) \/ StartupScan(a) \/ RemoveNext(a)
              \/ RemoveDone(a) \/ RemoveFault(a)
              \/ SweepScan(a) \/ SweepNext(a) \/ SweepDone(a) \/ SweepFault(a)
    BY <2>8, <2>11, MildSteps
  <2> QED BY <1>1, <2>1, <2>2, <2>3, <2>4, <2>5, <2>6, <2>7, <2>9, <2>10, <2>11
          DEF Step, BeginCall, DiskFault
<1>2. CASE Tick \/ UNCHANGED vars
  <2>1. UNCHANGED <<rec, part, tomb, pc, loc, issues, pidOf, grants, misses,
                    faults, crashes>>
    BY <1>2 DEF Tick, vars, disk, thread, ghost
  <2> QED BY <2>1 DEF Books, FilesFit, RecordXorTombstone, TakersKnowTheirPid,
                      ConsumedMeansGranted, Wasted, Bought, Counted, LiveRecords,
                      Stray, Issuing, Taking
<1> QED BY <1>1, <1>2, CrashBooks DEF Next

LEMMA BooksTell ==
    ASSUME TypeOK, OneHolder, Books PROVE Accounted
<1>1. GuessesCounted
  <2> SUFFICES ASSUME NEW p \in LiveRecords
               PROVE  misses[rec[p].secret] <= rec[p].total + 2 * faults + crashes
    BY DEF GuessesCounted
  <2>1. p \in Pid /\ Valid(rec[p])
    BY DEF LiveRecords
  <2>2. PICK m \in Nat, t \in Nat : m = misses[rec[p].secret] /\ t = rec[p].total
    BY <2>1, SecretBelow, CountsAreNat DEF OneHolder, SecretsOwned
  <2>3. m + (IF Stray(p) THEN 1 ELSE 0) <= t + 2 * faults + crashes
    BY <2>2 DEF Books, Counted
  <2>4. m <= t + 2 * faults + crashes
    BY <2>2, <2>3, CountsAreNat
  <2> QED BY <2>2, <2>4
<1> QED BY <1>1 DEF Accounted, Books, FilesFit

LEMMA RolesAlways == Spec => []Roles
<1>1. Init => Roles
  <2> SUFFICES ASSUME Init PROVE Roles
    OBVIOUS
  <2>1. \A a \in Actor : /\ pc[a] = "idle" /\ loc[a].op = "none"
                         /\ ~Issuing(a) /\ ~Taking(a)
    BY DEF Init, Issuing, Taking, NoLocal, Local
  <2> QED BY <2>1 DEF Roles, ClaimPCs
<1> QED BY <1>1, RolesStep, TypeCorrect, PTL DEF Spec

LEMMA BooksAlways == Spec => []Books
<1>1. Init => Books
  <2> SUFFICES ASSUME Init PROVE Books
    OBVIOUS
  <2>1. \A a \in Actor : pc[a] = "idle" /\ ~Issuing(a) /\ ~Taking(a)
    BY DEF Init, Issuing, Taking
  <2>2. \A p \in Pid : /\ rec[p] = NoRec /\ part[p] = NoRec
                       /\ ~Valid(rec[p]) /\ ~Valid(tomb[p])
                       /\ rec[p].kind = "absent"
    BY NoRecInvalid, AbsentFiles DEF Init
  <2>3. \A s \in Secret : misses[s] = 0
    BY DEF Init
  <2>4. ConsumedMeansGranted
    <3>1. Wasted = {}
      BY <2>2 DEF Wasted
    <3> QED BY <3>1, FS_EmptySet DEF Init, ConsumedMeansGranted
  <2> QED BY <2>1, <2>2, <2>3, <2>4
          DEF Books, FilesFit, RecordXorTombstone, TakersKnowTheirPid,
              Counted, LiveRecords
<1> QED BY <1>1, BooksStep, TypeCorrect, LockSafety, HeldOnce, RolesAlways, PTL
        DEF Spec

\* The books are right: no pid is live and spent at once, a "consumed" pid is
\* one whose credential was given, and no wrong guess is forgotten, for every
\* number of threads, processes, pids, issues, kills and failing writes.
THEOREM BooksAreRight == Spec => []Accounted
BY BooksAlways, BooksTell, TypeCorrect, HeldOnce, PTL
\* A claim that waits for the lock, or has it, found its secret live and in
\* time; it stays in time, for the record of a secret keeps its creation.
InTime ==
    \A a \in Actor : pc[a] \in {"w_claim", "x_claim"} =>
        /\ loc[a].secret \in 1 .. issues
        /\ \A b \in Actor : Issuing(b) => loc[b].secret # loc[a].secret
        /\ \A p \in LiveRecords :
              rec[p].secret = loc[a].secret => loc[a].now < Expiry(rec[p])

\* The pids a removal has still to unlink.
Doomed(a) == {f[2] : f \in loc[a].todo}

Listed ==
    \A a \in Actor : pc[a] = "remove" =>
        /\ loc[a].op = "issue" =>
              /\ loc[a].pid \in LiveRecords \ Doomed(a)
              /\ Records \subseteq {loc[a].pid} \cup Doomed(a)
        /\ loc[a].op = "revoke" => Records \subseteq Doomed(a)
        /\ loc[a].op = "start" =>
              \/ Doomed(a) = {} /\ LiveRecords \subseteq loc[a].skip
              \/ \E n \in LiveRecords \ Doomed(a) :
                    LiveRecords \ loc[a].skip \subseteq {n} \cup Doomed(a)

LEMMA OneRecordEach ==
    ASSUME OneHolder, NEW p \in LiveRecords, NEW q \in LiveRecords,
           rec[p].secret = rec[q].secret
    PROVE  p = q
BY DEF OneHolder, SecretsOwned, LiveRecords

\* How a record comes to be what it is after a step: it was that, or it is the
\* counted version of what it was, or an issuer wrote it; and who may issue.
Evolves ==
    /\ \A p \in Pid : Valid(rec'[p]) =>
          \/ rec'[p] = rec[p]
          \/ /\ Valid(rec[p]) /\ rec'[p].secret = rec[p].secret
             /\ rec'[p].created = rec[p].created
          \/ \E b \in Actor : Issuing(b) /\ loc[b].secret = rec'[p].secret
    /\ \A b \in Actor : Issuing(b)' =>
          \/ Issuing(b) /\ loc'[b].secret = loc[b].secret
          \/ loc'[b].secret = issues + 1
    /\ issues' \in {issues, issues + 1}

LEMMA QuietEvolves ==
    ASSUME NEW a \in Actor, Quiet(a) PROVE Evolves
<1>1. \A b \in Actor : Issuing(b)' => Issuing(b) /\ loc'[b].secret = loc[b].secret
  BY DEF Quiet, Issuing
<1> QED BY <1>1 DEF Quiet, Evolves

LEMMA RecordsEvolve ==
    ASSUME TypeOK, LockExclusive, OneHolder, Books, [Next]_vars
    PROVE  Evolves
<1>1. ASSUME NEW a \in Actor, ConsumeUnderLock(a) PROVE Evolves
  <2>1. /\ \E label \in {"idle", "t_create"} : pc'[a] = label
        /\ \A b \in Actor \ {a} : pc'[b] = pc[b] /\ loc'[b] = loc[b]
        /\ issues' = issues
    BY <1>1 DEF ConsumeUnderLock, UnlinkFor, Goto, Finish, TypeOK, ThreadOK, world
  <2>2. rec' = rec \/ rec' = [rec EXCEPT ![loc[a].pid] = NoRec]
    BY <1>1 DEF ConsumeUnderLock, UnlinkFor
  <2>3. \A p \in Pid : Valid(rec'[p]) => rec'[p] = rec[p]
    BY <2>2, RemovalValid
  <2> QED BY <2>1, <2>3 DEF Evolves, Issuing
<1>2. ASSUME NEW a \in Actor, ReturnCredential(a) PROVE Evolves
  <2>1. /\ pc'[a] = "idle" /\ UNCHANGED <<rec, issues>>
        /\ \A b \in Actor \ {a} : pc'[b] = pc[b] /\ loc'[b] = loc[b]
    BY <1>2 DEF ReturnCredential, Finish, TypeOK, ThreadOK, world, disk
  <2> QED BY <2>1 DEF Evolves, Issuing
<1>3. ASSUME NEW a \in Actor, FailUnderLock(a) PROVE Evolves
  <2>1. /\ pc'[a] \in {"idle", "f_replace"} /\ issues' = issues
        /\ \A b \in Actor \ {a} : pc'[b] = pc[b] /\ loc'[b] = loc[b]
    BY <1>3 DEF FailUnderLock, Goto, Finish, TypeOK, ThreadOK, world
  <2>2. rec' = rec \/ rec' = [rec EXCEPT ![loc[a].pid] = NoRec]
    BY <1>3 DEF FailUnderLock
  <2>3. \A p \in Pid : Valid(rec'[p]) => rec'[p] = rec[p]
    BY <2>2, RemovalValid
  <2> QED BY <2>1, <2>3 DEF Evolves, Issuing
<1>4. ASSUME NEW a \in Actor, ReplacePart(a) \/ ReplacedFault(a) PROVE Evolves
  <2>1. PICK p \in Pid : p = loc[a].pid
    BY <1>4 DEF ReplacePart, ReplacedFault, TypeOK, ThreadOK, AtPid
  <2>2. /\ pc'[a] = "idle" /\ issues' = issues
        /\ \A b \in Actor \ {a} : pc'[b] = pc[b] /\ loc'[b] = loc[b]
        /\ \A q \in Pid : rec'[q] = IF q = p THEN part[p] ELSE rec[q]
    BY <1>4, <2>1
       DEF ReplacePart, ReplacedFault, Finish, TypeOK, ThreadOK, DiskOK, world
  <2>3. /\ Valid(rec[p]) /\ part[p].secret = rec[p].secret
        /\ part[p].created = rec[p].created
    BY <1>4, <2>1
       DEF ReplacePart, ReplacedFault, OneHolder, PartKeepsSecret, Books, FilesFit
  <2> QED BY <2>2, <2>3 DEF Evolves, Issuing
<1>5. ASSUME NEW a \in Actor, BeginIssue(a) PROVE Evolves
  <2>1. /\ loc'[a].secret = issues + 1 /\ rec' = rec /\ issues' = issues + 1
        /\ \A b \in Actor \ {a} : pc'[b] = pc[b] /\ loc'[b] = loc[b]
    BY <1>5 DEF BeginIssue, Begin, Local, TypeOK, ThreadOK, disk
  <2> QED BY <2>1 DEF Evolves, Issuing
<1>6. ASSUME NEW a \in Actor, AllocateRecord(a) PROVE Evolves
  <2>1. PICK p \in Pid :
            /\ rec' = [rec EXCEPT ![p] = Torn]
            /\ Goto(a, "i_fill", [loc[a] EXCEPT !.pid = p, !.now = clock])
    BY <1>6 DEF AllocateRecord, FreePids
  <2>2. /\ loc'[a].secret = loc[a].secret /\ Issuing(a) /\ issues' = issues
        /\ \A b \in Actor \ {a} : pc'[b] = pc[b] /\ loc'[b] = loc[b]
    BY <1>6, <2>1 DEF AllocateRecord, Goto, Issuing, TypeOK, ThreadOK, LocalType
  <2>3. \A q \in Pid : Valid(rec'[q]) => rec'[q] = rec[q]
    BY <2>1, NoRecInvalid DEF TypeOK, DiskOK
  <2> QED BY <2>2, <2>3 DEF Evolves, Issuing
<1>7. ASSUME NEW a \in Actor, FillRecord(a) \/ FillFault(a) PROVE Evolves
  <2>1. /\ pc'[a] \in {"remove", "idle"} /\ Issuing(a) /\ issues' = issues
        /\ \A b \in Actor \ {a} : pc'[b] = pc[b] /\ loc'[b] = loc[b]
    BY <1>7 DEF FillRecord, FillFault, Goto, Finish, Issuing, TypeOK, ThreadOK, world
  <2>2. \A q \in Pid : rec'[q] = rec[q] \/ rec'[q].secret = loc[a].secret
    BY <1>7 DEF FillRecord, FillFault, TypeOK, DiskOK, Full
  <2> QED BY <2>1, <2>2 DEF Evolves, Issuing
<1>8. ASSUME NEW c \in Proc, Crash(c) PROVE Evolves
  <2>1. /\ UNCHANGED <<rec, issues>>
        /\ \A b \in Actor : \/ pc'[b] = "idle"
                            \/ pc'[b] = pc[b] /\ loc'[b] = loc[b]
    BY <1>8 DEF Crash, disk
  <2> QED BY <2>1 DEF Evolves, Issuing
<1>9. CASE Tick \/ UNCHANGED vars
  BY <1>9 DEF Tick, vars, disk, thread, Evolves, Issuing
<1>10. ASSUME NEW a \in Actor,
              Step(a) \/ BeginCall(a) \/ DiskFault(a) \/ Restart(a)
       PROVE  Evolves
  BY <1>1, <1>2, <1>3, <1>4, <1>5, <1>6, <1>7, <1>10, QuietEvolves, QuietSteps
     DEF Step, BeginCall, DiskFault
<1> QED BY <1>8, <1>9, <1>10 DEF Next

\* Where a failing file operation leaves its thread: out of its call, or on its
\* way past what it could not read.
LEMMA FaultMoves ==
    ASSUME TypeOK, NEW a \in Actor, DiskFault(a)
    PROVE  \/ \E result \in {"Invalid", "Unavailable"} : Finish(a, result)
           \/ Goto(a, "c_read", loc[a])
           \/ \E l : Goto(a, "sweep", l)
           \/ pc[a] = "x_start" /\ ScanFault(a) /\ \E l : Goto(a, "remove", l)
<1>1. CASE ReadFault(a)
  BY <1>1 DEF ReadFault
<1>2. CASE ScanFault(a)
  <2>1. CASE pc[a] = "x_start"
    BY <1>2, <2>1, KeepGoes DEF ScanFault
  <2>2. CASE pc[a] # "x_start"
    BY <1>2, <2>2 DEF ScanFault
  <2> QED BY <2>1, <2>2
<1>3. CASE UnlinkFault(a) \/ TombstoneFault(a) \/ ReturnFault(a) \/ ReplaceFault(a)
  BY <1>3 DEF UnlinkFault, TombstoneFault, ReturnFault, ReplaceFault
<1>4. CASE ReplacedFault(a) \/ FillFault(a) \/ IssueFault(a) \/ RemoveFault(a)
           \/ SweepFault(a)
  BY <1>4 DEF ReplacedFault, FillFault, IssueFault, RemoveFault, SweepFault
<1> QED BY <1>1, <1>2, <1>3, <1>4 DEF DiskFault

\* A thread moves by its own steps or is killed; no other thread moves it.
LEMMA OwnSteps ==
    ASSUME TypeOK, [Next]_vars, NEW a \in Actor
    PROVE  \/ Step(a) \/ BeginCall(a) \/ DiskFault(a) \/ Restart(a)
           \/ pc'[a] = "idle" /\ answer'[a] = "none"
           \/ pc'[a] = pc[a] /\ loc'[a] = loc[a] /\ answer'[a] = answer[a]
<1> USE DEF TypeOK, ThreadOK
<1>1. ASSUME NEW b \in Actor, b # a,
             Step(b) \/ BeginCall(b) \/ DiskFault(b) \/ Restart(b)
      PROVE  pc'[a] = pc[a] /\ loc'[a] = loc[a] /\ answer'[a] = answer[a]
  <2>1. \/ \E result : Finish(b, result)
        \/ \E label, l : Goto(b, label, l)
        \/ \E label, l : Begin(b, label, l)
        \/ \E label, l : /\ pc' = [pc EXCEPT ![b] = label]
                         /\ loc' = [loc EXCEPT ![b] = l]
                         /\ \E w : answer' = [answer EXCEPT ![b] = w]
        \/ Acquire(b)
    <3>1. CASE BeginCall(b) \/ Restart(b)
      BY <3>1 DEF BeginCall, Restart, BeginClaim, BeginIssue, BeginRevoke, BeginSweep
    <3>2. CASE DiskFault(b)
      BY <3>2, FaultMoves
    <3>3. CASE Step(b)
      <4>1. CASE LockTimeout(b) \/ CheckTombstone(b) \/ CheckRecord(b)
                 \/ ExpireUnderLock(b) \/ ConsumeUnderLock(b) \/ FailUnderLock(b)
                 \/ CreateTombstone(b) \/ FillTombstone(b) \/ ReturnCredential(b)
        BY <4>1 DEF LockTimeout, CheckTombstone, CheckRecord, ExpireUnderLock,
                    ConsumeUnderLock, FailUnderLock, CreateTombstone,
                    FillTombstone, ReturnCredential, UnlinkFor
      <4>2. CASE ReplacePart(b) \/ AllocateRecord(b) \/ NoFreePid(b)
                 \/ FillRecord(b) \/ RevokeScan(b) \/ StartupScan(b)
                 \/ RemoveNext(b) \/ RemoveDone(b)
        BY <4>2, KeepGoes
           DEF ReplacePart, AllocateRecord, NoFreePid, FillRecord, RevokeScan,
               StartupScan, RemoveNext, RemoveDone
      <4>3. CASE SweepScan(b) \/ SweepNext(b) \/ SweepDone(b)
        BY <4>3 DEF SweepScan, SweepNext, SweepDone, UnlinkFor
      <4> QED BY <3>3, <4>1, <4>2, <4>3 DEF Step
    <3> QED BY <1>1, <3>1, <3>2, <3>3
  <2> QED BY <1>1, <2>1 DEF Finish, Goto, Begin, Acquire
<1>2. ASSUME NEW c \in Proc, Crash(c)
      PROVE  \/ pc'[a] = "idle" /\ answer'[a] = "none"
             \/ pc'[a] = pc[a] /\ loc'[a] = loc[a] /\ answer'[a] = answer[a]
  BY <1>2 DEF Crash
<1>3. CASE Tick \/ UNCHANGED vars
  BY <1>3 DEF Tick, vars, thread
<1> QED BY <1>1, <1>2, <1>3 DEF Next

\* How a thread comes to wait for the lock to claim, or to have it.
LEMMA ClaimsWait ==
    ASSUME TypeOK, [Next]_vars, NEW a \in Actor, pc'[a] \in {"w_claim", "x_claim"}
    PROVE  \/ pc[a] \in {"w_claim", "x_claim"} /\ loc'[a] = loc[a]
           \/ CheckRecord(a) /\ loc'[a] = loc[a] /\ loc[a].pid \in LiveRecords
              /\ rec[loc[a].pid].secret = loc[a].secret
              /\ loc[a].now < Expiry(rec[loc[a].pid])
<1> USE DEF TypeOK, ThreadOK
<1>1. CASE Step(a) \/ BeginCall(a) \/ DiskFault(a) \/ Restart(a)
  <2>1. CASE Acquire(a)
    BY <2>1 DEF Acquire, Waiting, Critical
  <2>2. CASE CheckRecord(a)
    <3>1. loc[a].pid \in Pid
      BY <2>2 DEF CheckRecord, AtPid
    <3> QED BY <2>2, <3>1 DEF CheckRecord, Goto, Finish, LiveRecords
  <2>3. CASE BeginCall(a) \/ Restart(a)
    BY <2>3 DEF BeginCall, Restart, BeginClaim, BeginIssue, BeginRevoke, BeginSweep,
                Begin
  <2>4. CASE DiskFault(a)
    BY <2>4, FaultMoves DEF Finish, Goto
  <2>5. CASE LockTimeout(a) \/ CheckTombstone(a)
             \/ ExpireUnderLock(a) \/ ConsumeUnderLock(a) \/ FailUnderLock(a)
             \/ CreateTombstone(a) \/ FillTombstone(a) \/ ReturnCredential(a)
    BY <2>5 DEF LockTimeout, CheckTombstone, ExpireUnderLock,
                ConsumeUnderLock, FailUnderLock, CreateTombstone,
                FillTombstone, ReturnCredential, UnlinkFor, Goto, Finish
  <2>6. CASE ReplacePart(a) \/ AllocateRecord(a) \/ NoFreePid(a)
             \/ FillRecord(a) \/ RevokeScan(a) \/ StartupScan(a)
             \/ RemoveNext(a) \/ RemoveDone(a)
    BY <2>6, KeepGoes
       DEF ReplacePart, AllocateRecord, NoFreePid, FillRecord, RevokeScan,
           StartupScan, RemoveNext, RemoveDone, Goto, Finish
  <2>7. CASE SweepScan(a) \/ SweepNext(a) \/ SweepDone(a)
    BY <2>7 DEF SweepScan, SweepNext, SweepDone, UnlinkFor, Goto, Finish
  <2> QED BY <1>1, <2>1, <2>2, <2>3, <2>4, <2>5, <2>6, <2>7 DEF Step
<1> QED BY <1>1, OwnSteps

LEMMA InTimeStep ==
    ASSUME TypeOK, LockExclusive, OneHolder, Books, InTime, [Next]_vars
    PROVE  InTime'
<1> SUFFICES ASSUME NEW a \in Actor, pc'[a] \in {"w_claim", "x_claim"}
             PROVE  /\ loc'[a].secret \in 1 .. issues'
                    /\ \A b \in Actor : Issuing(b)' => loc'[b].secret # loc'[a].secret
                    /\ \A p \in Pid :
                          Valid(rec'[p]) /\ rec'[p].secret = loc'[a].secret =>
                              loc'[a].now < Expiry(rec'[p])
  BY DEF InTime, LiveRecords
<1>1. /\ loc'[a] = loc[a] /\ loc[a].secret \in 1 .. issues
      /\ \A b \in Actor : Issuing(b) => loc[b].secret # loc[a].secret
      /\ \A p \in Pid : Valid(rec[p]) /\ rec[p].secret = loc[a].secret =>
                            loc[a].now < Expiry(rec[p])
  <2>1. CASE pc[a] \in {"w_claim", "x_claim"} /\ loc'[a] = loc[a]
    BY <2>1 DEF InTime, LiveRecords
  <2>2. CASE /\ loc'[a] = loc[a] /\ loc[a].pid \in LiveRecords
             /\ rec[loc[a].pid].secret = loc[a].secret
             /\ loc[a].now < Expiry(rec[loc[a].pid])
    <3>1. Live(loc[a].secret)
      BY <2>2 DEF Live
    <3>2. loc[a].secret \in 1 .. issues
      BY <2>2 DEF OneHolder, SecretsOwned, LiveRecords
    <3>3. \A b \in Actor : Issuing(b) => loc[b].secret # loc[a].secret
      BY <3>1 DEF OneHolder, IssuersHold
    <3>4. \A p \in Pid : Valid(rec[p]) /\ rec[p].secret = loc[a].secret =>
                             p = loc[a].pid
      BY <2>2, OneRecordEach DEF LiveRecords
    <3> QED BY <2>2, <3>2, <3>3, <3>4
  <2> QED BY <2>1, <2>2, ClaimsWait
<1>2. Evolves /\ issues \in Nat
  BY RecordsEvolve, CountsAreNat
<1>3. loc[a].secret \in 1 .. issues' /\ loc[a].secret # issues + 1
  BY <1>1, <1>2 DEF Evolves
<1>4. \A b \in Actor : Issuing(b)' => loc'[b].secret # loc[a].secret
  BY <1>1, <1>2, <1>3 DEF Evolves
<1>5. \A p \in Pid : Valid(rec'[p]) /\ rec'[p].secret = loc[a].secret =>
                         loc[a].now < Expiry(rec'[p])
  BY <1>1, <1>2 DEF Evolves, Expiry
<1> QED BY <1>1, <1>3, <1>4, <1>5

\* Only these write or remove a record, and only with the lock.
RecordStep(a) ==
    \/ ExpireUnderLock(a) \/ ConsumeUnderLock(a) \/ FailUnderLock(a)
    \/ ReplacePart(a) \/ ReplacedFault(a) \/ AllocateRecord(a) \/ FillRecord(a)
    \/ FillFault(a) \/ IssueFault(a) \/ RemoveNext(a) \/ SweepNext(a)

LEMMA RecordSteps ==
    ASSUME [Next]_vars, rec' # rec
    PROVE  \E a \in Actor : RecordStep(a)
<1>1. ASSUME NEW a \in Actor,
             Step(a) \/ BeginCall(a) \/ DiskFault(a) \/ Restart(a), ~RecordStep(a)
      PROVE  rec' = rec
  <2> USE DEF disk, RecordStep
  <2>1. CASE BeginCall(a) \/ Restart(a)
    BY <2>1 DEF BeginCall, Restart, BeginClaim, BeginIssue, BeginRevoke, BeginSweep
  <2>2. CASE DiskFault(a)
    BY <1>1, <2>2 DEF DiskFault, ReadFault, ScanFault, UnlinkFault, TombstoneFault,
                      ReturnFault, ReplaceFault, RemoveFault, SweepFault
  <2>3. CASE Step(a)
    BY <1>1, <2>3 DEF Step, Acquire, LockTimeout, CheckTombstone, CheckRecord,
                      CreateTombstone, FillTombstone, ReturnCredential, NoFreePid,
                      RevokeScan, StartupScan, RemoveDone, SweepScan, SweepDone
  <2> QED BY <1>1, <2>1, <2>2, <2>3
<1>2. ASSUME NEW c \in Proc, Crash(c) PROVE rec' = rec
  BY <1>2 DEF Crash, disk
<1>3. CASE Tick \/ UNCHANGED vars
  BY <1>3 DEF Tick, vars, disk
<1> QED BY <1>1, <1>2, <1>3 DEF Next

LEMMA RecordStepHolds ==
    ASSUME NEW a \in Actor, RecordStep(a) PROVE pc[a] \in Holding
BY HoldingStates
   DEF RecordStep, ExpireUnderLock, ConsumeUnderLock, FailUnderLock, ReplacePart,
       ReplacedFault, AllocateRecord, FillRecord, FillFault, IssueFault, RemoveNext,
       SweepNext

\* A claim consumes in time, for every wait between the check and the lock.
THEOREM ConsumesInTime == Spec => ConsumeIsTimely
<1>1. TypeOK /\ LockExclusive /\ InTime /\ [Next]_vars =>
          [\A a \in Actor, p \in Pid :
              pc[a] = "x_claim" /\ Valid(rec[p]) /\ ~Valid(rec[p])' =>
                  /\ loc[a].now < Expiry(rec[p])
                  /\ rec[p].until <= loc[a].now
                  /\ rec[p].secret = loc[a].secret]_vars
  <2> SUFFICES ASSUME TypeOK, LockExclusive, InTime, [Next]_vars,
                      NEW a \in Actor, NEW p \in Pid,
                      pc[a] = "x_claim", Valid(rec[p]), ~Valid(rec'[p])
               PROVE  /\ loc[a].now < Expiry(rec[p])
                      /\ rec[p].until <= loc[a].now
                      /\ rec[p].secret = loc[a].secret
    OBVIOUS
  <2>1. PICK b \in Actor : RecordStep(b)
    BY RecordSteps
  <2>2. b = a
    BY <2>1, RecordStepHolds, OnlyHolder, HoldingStates DEF LockExclusive
  <2>3. ConsumeUnderLock(a)
    BY <2>1, <2>2
       DEF RecordStep, ExpireUnderLock, FailUnderLock, ReplacePart, ReplacedFault,
           AllocateRecord, FillRecord, FillFault, IssueFault, RemoveNext, SweepNext
  <2>4. Recheck(loc[a]) = "consume" /\ rec' = [rec EXCEPT ![loc[a].pid] = NoRec]
    BY <2>3 DEF ConsumeUnderLock, UnlinkFor
  <2>5. p = loc[a].pid
    BY <2>4 DEF TypeOK, DiskOK
  <2>6. ~(rec[p].until > loc[a].now) /\ rec[p].secret = loc[a].secret
    BY <2>4, <2>5 DEF Recheck, TombAnswer
  <2>7. rec[p].until \in Nat /\ loc[a].now \in Nat
    BY DEF TypeOK, DiskOK, ThreadOK, LocalType, RecordFile, Time
  <2>8. loc[a].now < Expiry(rec[p])
    BY <2>6 DEF InTime, LiveRecords
  <2> QED BY <2>6, <2>7, <2>8
<1>2. Init => InTime
  BY DEF Init, InTime
<1>3. Spec => []InTime
  BY <1>2, InTimeStep, TypeCorrect, LockSafety, HeldOnce, BooksAlways, PTL DEF Spec
<1> QED BY <1>1, <1>3, TypeCorrect, LockSafety, PTL DEF Spec, ConsumeIsTimely

-----------------------------------------------------------------------------
(* What a removal has still to do, and hence what it leaves.                 *)

LEMMA RemovalsWait ==
    ASSUME TypeOK, LockExclusive, [Next]_vars, NEW a \in Actor, pc'[a] = "remove"
    PROVE  \/ FillRecord(a) \/ RevokeScan(a) \/ StartupScan(a) \/ RemoveNext(a)
           \/ pc[a] = "x_start" /\ ScanFault(a)
           \/ pc[a] = "remove" /\ loc'[a] = loc[a] /\ rec' = rec
<1> USE DEF TypeOK, ThreadOK
<1>1. CASE Step(a) \/ BeginCall(a) \/ DiskFault(a) \/ Restart(a)
  <2>1. CASE Acquire(a)
    BY <2>1 DEF Acquire, Waiting, Critical
  <2>2. CASE BeginCall(a) \/ Restart(a)
    BY <2>2 DEF BeginCall, Restart, BeginClaim, BeginIssue, BeginRevoke, BeginSweep,
                Begin
  <2>3. CASE DiskFault(a)
    BY <2>3, FaultMoves DEF Finish, Goto
  <2>4. CASE LockTimeout(a) \/ CheckTombstone(a) \/ CheckRecord(a)
             \/ ExpireUnderLock(a) \/ ConsumeUnderLock(a) \/ FailUnderLock(a)
             \/ CreateTombstone(a) \/ FillTombstone(a) \/ ReturnCredential(a)
    BY <2>4 DEF LockTimeout, CheckTombstone, CheckRecord, ExpireUnderLock,
                ConsumeUnderLock, FailUnderLock, CreateTombstone,
                FillTombstone, ReturnCredential, UnlinkFor, Goto, Finish
  <2>5. CASE ReplacePart(a) \/ AllocateRecord(a) \/ NoFreePid(a) \/ RemoveDone(a)
    BY <2>5 DEF ReplacePart, AllocateRecord, NoFreePid, RemoveDone, Goto, Finish
  <2>6. CASE SweepScan(a) \/ SweepNext(a) \/ SweepDone(a)
    BY <2>6 DEF SweepScan, SweepNext, SweepDone, UnlinkFor, Goto, Finish
  <2> QED BY <1>1, <2>1, <2>2, <2>3, <2>4, <2>5, <2>6 DEF Step
<1>2. CASE pc'[a] = pc[a] /\ loc'[a] = loc[a]
  <2>1. CASE rec' # rec
    <3>1. PICK b \in Actor : RecordStep(b)
      BY <2>1, RecordSteps
    <3>2. pc[a] \in Holding /\ pc[b] \in Holding
      BY <1>2, <3>1, HoldingStates, RecordStepHolds
    <3>3. b = a
      BY <3>2 DEF LockExclusive
    <3> QED BY <1>1, <3>1, <3>3 DEF RecordStep, Step, DiskFault
  <2> QED BY <1>2, <2>1
<1> QED BY <1>1, <1>2, OwnSteps

LEMMA ListedStep ==
    ASSUME TypeOK, LockExclusive, OneHolder, Roles, Listed, [Next]_vars
    PROVE  Listed'
<1> SUFFICES ASSUME NEW a \in Actor, pc'[a] = "remove"
             PROVE  /\ loc'[a].op = "issue" =>
                          /\ loc'[a].pid \in LiveRecords' \ Doomed(a)'
                          /\ Records' \subseteq {loc'[a].pid} \cup Doomed(a)'
                    /\ loc'[a].op = "revoke" => Records' \subseteq Doomed(a)'
                    /\ loc'[a].op = "start" =>
                          \/ /\ Doomed(a)' = {}
                             /\ LiveRecords' \subseteq loc'[a].skip
                          \/ \E n \in LiveRecords' \ Doomed(a)' :
                                LiveRecords' \ loc'[a].skip
                                    \subseteq {n} \cup Doomed(a)'
  BY DEF Listed
<1>1. LiveRecords \subseteq Records
  BY DEF LiveRecords, Records, Valid
<1>2. CASE FillRecord(a)
  <2>1. PICK p \in Pid : p = loc[a].pid
    BY <1>2 DEF FillRecord, TypeOK, ThreadOK, AtPid
  <2>2. /\ loc'[a].pid = p /\ loc'[a].op = "issue"
        /\ loc'[a].todo = {"rec"} \X (Records \ {p})
    BY <1>2, <2>1 DEF FillRecord, Goto, OtherRecords, Roles, Issuing, TypeOK,
                      ThreadOK, LocalType
  <2>3. Valid(rec'[p]) /\ \A q \in Pid \ {p} : rec'[q] = rec[q]
    <3>1. rec' = [rec EXCEPT ![p] = Full(loc[a].secret, loc[a].now, 0, 0, 0)]
      BY <1>2, <2>1 DEF FillRecord
    <3>2. Valid(Full(loc[a].secret, loc[a].now, 0, 0, 0))
      BY DEF Full, Valid
    <3> QED BY <3>1, <3>2 DEF TypeOK, DiskOK
  <2>4. Doomed(a)' = Records \ {p}
    <3>1. \A q \in Records \ {p} : <<"rec", q>> \in loc'[a].todo
      BY <2>2
    <3>2. \A f \in loc'[a].todo : f[2] \in Records \ {p}
      BY <2>2
    <3>3. \A q \in Records \ {p} : <<"rec", q>>[2] = q
      OBVIOUS
    <3> QED BY <3>1, <3>2, <3>3 DEF Doomed
  <2>5. p \in LiveRecords'
    BY <2>3 DEF LiveRecords
  <2>6. Records' \subseteq {p} \cup Records
    BY <2>3 DEF Records
  <2> QED BY <2>2, <2>4, <2>5, <2>6
<1>3. CASE RevokeScan(a)
  <2>1. /\ loc'[a].op = "revoke" /\ loc'[a].todo = {"rec"} \X (Records \ {NoPid})
        /\ rec' = rec
    BY <1>3 DEF RevokeScan, Goto, OtherRecords, Roles, TypeOK, ThreadOK, LocalType,
                disk
  <2>2. Records' = Records /\ NoPid \notin Records
    BY <2>1, ConstantsOK DEF Records
  <2>3. \A q \in Records : <<"rec", q>> \in loc'[a].todo /\ <<"rec", q>>[2] = q
    BY <2>1, <2>2
  <2>4. Records \subseteq Doomed(a)'
    BY <2>3 DEF Doomed
  <2> QED BY <2>1, <2>2, <2>4
<1>4. ASSUME NEW skip, pc[a] = "x_start", rec' = rec, KeepNewest(a, skip)
      PROVE  /\ loc'[a].op = "start"
             /\ \/ Doomed(a)' = {} /\ LiveRecords' \subseteq loc'[a].skip
                \/ \E n \in LiveRecords' \ Doomed(a)' :
                      LiveRecords' \ loc'[a].skip \subseteq {n} \cup Doomed(a)'
  <2>1. PICK l : /\ Goto(a, "remove", l) /\ l.op = loc[a].op /\ l.skip = skip
                 /\ \/ LiveRecords \subseteq skip /\ l.todo = {}
                    \/ \E n \in LiveRecords \ skip :
                          l.todo = {"rec"} \X ((LiveRecords \ skip) \ {n})
    BY <1>4, KeepGoes
  <2>2. loc'[a] = l /\ l.op = "start" /\ LiveRecords' = LiveRecords
    BY <1>4, <2>1 DEF Goto, Roles, TypeOK, ThreadOK, LiveRecords
  <2>3. CASE LiveRecords \subseteq skip /\ l.todo = {}
    <3>1. Doomed(a)' = {}
      BY <2>2, <2>3 DEF Doomed
    <3> QED BY <2>1, <2>2, <2>3, <3>1
  <2>4. ASSUME NEW n \in LiveRecords \ skip,
               l.todo = {"rec"} \X ((LiveRecords \ skip) \ {n})
        PROVE  /\ n \in LiveRecords \ Doomed(a)'
               /\ LiveRecords \ skip \subseteq {n} \cup Doomed(a)'
    <3>1. \A q \in (LiveRecords \ skip) \ {n} : <<"rec", q>> \in l.todo
                                                /\ <<"rec", q>>[2] = q
      BY <2>4
    <3>2. \A f \in l.todo : f[2] # n
      BY <2>4
    <3> QED BY <2>2, <3>1, <3>2 DEF Doomed
  <2> QED BY <2>1, <2>2, <2>3, <2>4
<1>5. CASE RemoveNext(a)
  <2>1. PICK f \in loc[a].todo :
            /\ rec' = [rec EXCEPT ![f[2]] = NoRec]
            /\ Goto(a, "remove", [loc[a] EXCEPT !.todo = @ \ {f}])
    BY <1>5 DEF RemoveNext
  <2>2. /\ pc[a] = "remove" /\ loc'[a].op = loc[a].op /\ loc'[a].pid = loc[a].pid
        /\ loc'[a].todo = loc[a].todo \ {f} /\ loc'[a].skip = loc[a].skip
    BY <1>5, <2>1 DEF RemoveNext, Goto, TypeOK, ThreadOK, LocalType
  <2>3. PICK p : p = f[2]
    OBVIOUS
  <2>4. \A q \in Pid : rec'[q] = IF q = p THEN NoRec ELSE rec[q]
    BY <2>1, <2>3 DEF TypeOK, DiskOK
  <2>5. /\ Doomed(a)' \subseteq Doomed(a) /\ Doomed(a) \subseteq Doomed(a)' \cup {p}
        /\ p \in Doomed(a)
    BY <2>2, <2>3 DEF Doomed
  <2>6. /\ LiveRecords' = LiveRecords \ {p} /\ Records' = Records \ {p}
    BY <2>4, NoRecInvalid, AbsentFiles DEF LiveRecords, Records
  <2>7. /\ loc[a].op = "issue" =>
              /\ loc[a].pid \in LiveRecords \ Doomed(a)
              /\ Records \subseteq {loc[a].pid} \cup Doomed(a)
        /\ loc[a].op = "revoke" => Records \subseteq Doomed(a)
        /\ loc[a].op = "start" =>
              \E n \in LiveRecords \ Doomed(a) :
                  LiveRecords \ loc[a].skip \subseteq {n} \cup Doomed(a)
    BY <2>2, <2>5 DEF Listed
  <2>8. CASE loc[a].op = "issue"
    BY <2>2, <2>5, <2>6, <2>7, <2>8
  <2>9. CASE loc[a].op = "revoke"
    BY <2>2, <2>5, <2>6, <2>7, <2>9
  <2>10. CASE loc[a].op = "start"
    <3>1. PICK n \in LiveRecords \ Doomed(a) :
                LiveRecords \ loc[a].skip \subseteq {n} \cup Doomed(a)
      BY <2>7, <2>10
    <3>2. /\ n \in LiveRecords' \ Doomed(a)'
          /\ LiveRecords' \ loc'[a].skip \subseteq {n} \cup Doomed(a)'
      BY <2>2, <2>5, <2>6, <3>1
    <3> QED BY <2>2, <2>10, <3>2
  <2> QED BY <2>2, <2>8, <2>9, <2>10
<1>6. CASE pc[a] = "remove" /\ loc'[a] = loc[a] /\ rec' = rec
  <2>1. LiveRecords' = LiveRecords /\ Records' = Records /\ Doomed(a)' = Doomed(a)
    BY <1>6 DEF LiveRecords, Records, Doomed
  <2> QED BY <1>6, <2>1 DEF Listed
<1>7. CASE StartupScan(a) \/ (pc[a] = "x_start" /\ ScanFault(a))
  <2>1. pc[a] = "x_start" /\ rec' = rec /\ \E skip : KeepNewest(a, skip)
    BY <1>7 DEF StartupScan, ScanFault, disk
  <2>2. /\ loc'[a].op = "start"
        /\ \/ Doomed(a)' = {} /\ LiveRecords' \subseteq loc'[a].skip
           \/ \E n \in LiveRecords' \ Doomed(a)' :
                 LiveRecords' \ loc'[a].skip \subseteq {n} \cup Doomed(a)'
    BY <1>4, <2>1
  <2>3. loc'[a].op # "issue" /\ loc'[a].op # "revoke"
    BY <2>2
  <2> QED BY <2>2, <2>3
<1>8. \/ FillRecord(a) \/ RevokeScan(a) \/ StartupScan(a) \/ RemoveNext(a)
      \/ pc[a] = "x_start" /\ ScanFault(a)
      \/ pc[a] = "remove" /\ loc'[a] = loc[a] /\ rec' = rec
  BY RemovalsWait
<1> QED BY <1>2, <1>3, <1>5, <1>6, <1>7, <1>8

LEMMA ListedAlways == Spec => []Listed
<1>1. Init => Listed
  BY DEF Init, Listed
<1> QED BY <1>1, ListedStep, TypeCorrect, LockSafety, HeldOnce, RolesAlways, PTL
        DEF Spec

\* Only the end of a removal answers that it issued, revoked or started.
LEMMA Completions ==
    ASSUME TypeOK, [Next]_vars, NEW a \in Actor, answer[a] = "none",
           answer'[a] \in {"Issued", "Revoked", "Started"}
    PROVE  /\ pc[a] = "remove" /\ loc[a].todo = {} /\ rec' = rec
           /\ loc[a].op = "issue" <=> answer'[a] = "Issued"
           /\ loc[a].op = "revoke" <=> answer'[a] = "Revoked"
           /\ loc[a].op = "start" <=> answer'[a] = "Started"
<1> USE DEF TypeOK, ThreadOK
<1>1. Step(a) \/ BeginCall(a) \/ DiskFault(a) \/ Restart(a)
  BY OwnSteps
<1>2. CASE BeginCall(a) \/ Restart(a)
  BY <1>2 DEF BeginCall, Restart, BeginClaim, BeginIssue, BeginRevoke, BeginSweep,
              Begin
<1>3. CASE DiskFault(a)
  BY <1>3, FaultMoves DEF Finish, Goto
<1>4. CASE Acquire(a) \/ LockTimeout(a) \/ CheckTombstone(a) \/ CheckRecord(a)
           \/ CreateTombstone(a) \/ FillTombstone(a) \/ ReturnCredential(a)
  BY <1>4 DEF Acquire, LockTimeout, CheckTombstone, CheckRecord, CreateTombstone,
              FillTombstone, ReturnCredential, TombAnswer, Goto, Finish
<1>5. CASE ExpireUnderLock(a) \/ ConsumeUnderLock(a) \/ FailUnderLock(a)
  BY <1>5 DEF ExpireUnderLock, ConsumeUnderLock, FailUnderLock, GoneAnswer,
              TombAnswer, Recheck, UnlinkFor, Goto, Finish
<1>6. CASE ReplacePart(a) \/ AllocateRecord(a) \/ NoFreePid(a) \/ FillRecord(a)
           \/ RevokeScan(a) \/ StartupScan(a) \/ RemoveNext(a)
           \/ SweepScan(a) \/ SweepNext(a) \/ SweepDone(a)
  BY <1>6, KeepGoes
     DEF ReplacePart, AllocateRecord, NoFreePid, FillRecord, RevokeScan, StartupScan,
         RemoveNext, SweepScan, SweepNext, SweepDone, UnlinkFor, Goto, Finish
<1>7. CASE RemoveDone(a)
  BY <1>7 DEF RemoveDone, Finish, disk
<1> QED BY <1>1, <1>2, <1>3, <1>4, <1>5, <1>6, <1>7 DEF Step

LEMMA Settles ==
    ASSUME TypeOK, Listed, [Next]_vars, NEW a \in Actor
    PROVE  /\ Completes(a, "Issued") => /\ Records' = {loc[a].pid}
                                        /\ LiveRecords' = Records'
           /\ Completes(a, "Revoked") => Records' = {}
           /\ Completes(a, "Started") =>
                  Cardinality(LiveRecords' \ loc[a].skip) <= 1
<1>1. LiveRecords \subseteq Records
  BY DEF LiveRecords, Records, Valid
<1>2. loc[a].todo = {} => Doomed(a) = {}
  BY DEF Doomed
<1>3. rec' = rec => Records' = Records /\ LiveRecords' = LiveRecords
  BY DEF Records, LiveRecords
<1>4. CASE Completes(a, "Issued")
  <2>1. /\ pc[a] = "remove" /\ loc[a].todo = {} /\ rec' = rec
        /\ loc[a].op = "issue" /\ answer'[a] = "Issued"
    BY <1>4, Completions DEF Completes
  <2>2. loc[a].pid \in LiveRecords /\ Records \subseteq {loc[a].pid}
    BY <1>2, <2>1 DEF Listed
  <2> QED BY <1>1, <1>3, <2>1, <2>2 DEF Completes
<1>5. CASE Completes(a, "Revoked")
  <2>1. /\ pc[a] = "remove" /\ loc[a].todo = {} /\ rec' = rec
        /\ loc[a].op = "revoke" /\ answer'[a] = "Revoked"
    BY <1>5, Completions DEF Completes
  <2>2. Records \subseteq {}
    BY <1>2, <2>1 DEF Listed
  <2> QED BY <1>3, <2>1, <2>2 DEF Completes
<1>6. CASE Completes(a, "Started")
  <2>1. /\ pc[a] = "remove" /\ loc[a].todo = {} /\ rec' = rec
        /\ loc[a].op = "start" /\ answer'[a] = "Started"
    BY <1>6, Completions DEF Completes
  <2>2. \/ LiveRecords \ loc[a].skip = {}
        \/ \E n : LiveRecords \ loc[a].skip = {n}
    BY <1>2, <2>1 DEF Listed
  <2>3. Cardinality(LiveRecords \ loc[a].skip) <= 1
    <3>1. Cardinality({}) = 0 /\ \A n : Cardinality({n}) = 1
      BY FS_EmptySet, FS_Singleton
    <3>2. Cardinality(LiveRecords \ loc[a].skip) \in {0, 1}
      BY <2>2, <3>1
    <3> QED BY <3>2
  <2> QED BY <1>3, <2>1, <2>3 DEF Completes
<1> QED BY <1>4, <1>5, <1>6

\* New first: a step that removes the last complete record is a fault's, a
\* claim's, a sweep's or a revocation's.
LEMMA NewFirst ==
    ASSUME TypeOK, OneHolder, Roles, Listed, [Next]_vars,
           LiveRecords # {}, LiveRecords' = {}
    PROVE  \/ faults' # faults
           \/ \E a \in Actor :
                 \/ pc[a] \in {"x_expire", "x_claim", "x_fail", "sweep"}
                 \/ pc[a] = "remove" /\ loc[a].op = "revoke"
<1>1. rec' # rec
  BY DEF LiveRecords
<1>2. PICK a \in Actor : RecordStep(a)
  BY <1>1, RecordSteps
<1>3. PICK n \in Pid : Valid(rec[n])
  BY DEF LiveRecords
<1>4. ~Valid(rec'[n])
  BY DEF LiveRecords
<1>5. CASE ExpireUnderLock(a) \/ ConsumeUnderLock(a) \/ FailUnderLock(a) \/ SweepNext(a)
  BY <1>5 DEF ExpireUnderLock, ConsumeUnderLock, FailUnderLock, SweepNext
<1>11. CASE ReplacedFault(a) \/ FillFault(a)
  BY <1>11, CountsAreNat DEF ReplacedFault, FillFault, Fault
<1>6. CASE ReplacePart(a)
  <2>1. PICK p \in Pid : p = loc[a].pid
    BY <1>6 DEF ReplacePart, TypeOK, ThreadOK, AtPid
  <2>2. Valid(rec'[p])
    BY <1>6, <2>1 DEF ReplacePart, OneHolder, PartKeepsSecret, TypeOK, DiskOK
  <2> QED BY <2>2 DEF LiveRecords
<1>7. CASE AllocateRecord(a)
  <2>1. PICK p \in Pid : rec' = [rec EXCEPT ![p] = Torn] /\ rec[p].kind = "absent"
    BY <1>7 DEF AllocateRecord, FreePids
  <2>2. n # p
    BY <1>3, <2>1 DEF Valid
  <2> QED BY <1>3, <1>4, <2>1, <2>2 DEF TypeOK, DiskOK
<1>8. CASE FillRecord(a)
  <2>1. PICK p \in Pid : p = loc[a].pid
    BY <1>8 DEF FillRecord, TypeOK, ThreadOK, AtPid
  <2>2. rec'[p] = Full(loc[a].secret, loc[a].now, 0, 0, 0)
    BY <1>8, <2>1 DEF FillRecord, TypeOK, DiskOK
  <2>3. Valid(rec'[p])
    BY <2>2 DEF Full, Valid
  <2> QED BY <2>3 DEF LiveRecords
<1>9. CASE IssueFault(a)
  BY <1>9, CountsAreNat DEF IssueFault, Fault
<1>10. CASE RemoveNext(a)
  <2>1. PICK f \in loc[a].todo : rec' = [rec EXCEPT ![f[2]] = NoRec]
    BY <1>10 DEF RemoveNext
  <2>2. pc[a] = "remove" /\ f[2] \in Doomed(a)
    BY <1>10 DEF RemoveNext, Doomed
  <2>3. \A p \in LiveRecords : p = f[2]
    BY <2>1 DEF LiveRecords, TypeOK, DiskOK
  <2>4. loc[a].op \notin {"issue", "start"}
    BY <1>3, <2>2, <2>3 DEF Listed, LiveRecords
  <2> QED BY <2>2, <2>4 DEF Roles
<1> QED BY <1>2, <1>5, <1>6, <1>7, <1>8, <1>9, <1>10, <1>11 DEF RecordStep

\* What a completed call leaves and what a replacement goes through, for every
\* history of kills and faults before it.
THEOREM StepsAreSound == Spec => SoundSteps
<1>1. TypeOK /\ Listed /\ [Next]_vars =>
          [\A a \in Actor :
              /\ Completes(a, "Issued") => Records' = {loc[a].pid}
                                           /\ LiveRecords' = Records'
              /\ Completes(a, "Revoked") => Records' = {}
              /\ Completes(a, "Started") =>
                    Cardinality(LiveRecords' \ loc[a].skip) <= 1]_vars
  BY Settles
<1>2. TypeOK /\ OneHolder /\ Roles /\ Listed /\ [Next]_vars =>
          [LiveRecords # {} /\ LiveRecords' = {} =>
              \/ faults' # faults
              \/ \E a \in Actor :
                    \/ pc[a] \in {"x_expire", "x_claim", "x_fail", "sweep"}
                    \/ pc[a] = "remove" /\ loc[a].op = "revoke"]_vars
  BY NewFirst
<1>3. Spec => SettledStore
  BY <1>1, TypeCorrect, ListedAlways, PTL DEF Spec, SettledStore
<1>4. Spec => NeverNoneByReplacement
  BY <1>2, TypeCorrect, HeldOnce, RolesAlways, ListedAlways, PTL
     DEF Spec, NeverNoneByReplacement
<1> QED BY <1>3, <1>4 DEF SoundSteps
-----------------------------------------------------------------------------
(* The store implements OneTimeCredential.  A secret is live in one record,  *)
(* granted, in the hand of a taker or pending with its issuer, never two of  *)
(* these; a step that only takes such places away is Lose.                   *)

InHand(s)  == \E a \in Actor : Taking(a) /\ loc[a].secret = s
Pending(s) == s > issues \/ \E a \in Actor : Issuing(a) /\ loc[a].secret = s
Place(live, granted, taken, pending) ==
    IF live THEN "live" ELSE IF granted THEN "granted"
    ELSE IF taken THEN "taken" ELSE IF pending THEN "unborn" ELSE "dead"

LEMMA Issuers ==
    ASSUME TypeOK, Roles, NEW a \in Actor
    PROVE  loc[a].op = "issue" /\ pc[a] # "remove" <=> Issuing(a)
<1>1. pc[a] \in {"idle", "w_issue", "x_issue", "i_fill", "w_revoke", "x_revoke",
                 "w_start", "x_start", "w_sweep", "x_sweep", "sweep", "remove",
                 "t_create", "t_fill"} \cup ClaimPCs
  <2>1. pc[a] \in PCs
    BY DEF TypeOK, ThreadOK
  <2> QED BY <2>1, HoldingStates DEF PCs, Holding, Waiting, Critical, ClaimPCs
<1> QED BY <1>1 DEF Roles, Issuing

LEMMA OnePlace ==
    ASSUME TypeOK, OneHolder, NEW s \in Secret
    PROVE  /\ Live(s) => ~(grants[s] > 0) /\ ~InHand(s) /\ ~Pending(s)
           /\ grants[s] > 0 => ~InHand(s) /\ ~Pending(s)
           /\ InHand(s) => ~Pending(s)
<1> USE DEF OneHolder
<1>1. issues \in Nat /\ s \in Nat /\ grants[s] \in Nat
  BY CountsAreNat DEF Secret, TypeOK, GhostOK
<1>2. Live(s) => s \in 1 .. issues
  BY DEF SecretsOwned, Live, LiveRecords
<1>3. Live(s) => ~(grants[s] > 0) /\ ~InHand(s) /\ ~Pending(s)
  BY <1>1, <1>2 DEF GrantedIsSpent, TakersHold, IssuersHold, InHand, Pending
<1>4. grants[s] > 0 => ~InHand(s) /\ ~Pending(s)
  BY <1>1 DEF GrantedIsSpent, TakersHold, IssuersHold, InHand, Pending
<1>5. ASSUME InHand(s), Pending(s) PROVE FALSE
  <2>1. PICK a \in Actor : Taking(a) /\ loc[a].secret = s
    BY <1>5 DEF InHand
  <2>2. s \in 1 .. issues
    BY <2>1 DEF TakersHold
  <2>3. PICK b \in Actor : Issuing(b) /\ loc[b].secret = s
    BY <1>1, <1>5, <2>2 DEF Pending
  <2>4. a # b
    BY <2>1, <2>3 DEF Taking, Issuing
  <2> QED BY <2>1, <2>3, <2>4 DEF IssuersHold
<1> QED BY <1>3, <1>4, <1>5

LEMMA StatusIs ==
    ASSUME TypeOK, OneHolder, Roles, NEW s \in Secret
    PROVE  StatusOf(s) = Place(Live(s), grants[s] > 0, InHand(s), Pending(s))
<1>1. Unborn(s) <=> Pending(s)
  BY Issuers DEF Unborn, Pending
<1>2. grants[s] \in Nat
  BY DEF TypeOK, GhostOK
<1>3. grants[s] = 0 <=> ~(grants[s] > 0)
  BY <1>2
<1>4. CASE Live(s)
  BY <1>4 DEF StatusOf, Place
<1>5. CASE ~Live(s) /\ grants[s] > 0
  BY <1>3, <1>5 DEF StatusOf, Place
<1>6. CASE ~Live(s) /\ grants[s] = 0 /\ InHand(s)
  <2>1. ~Unborn(s) /\ \E a \in Actor : Taking(a) /\ loc[a].secret = s
    BY <1>1, <1>6, OnePlace DEF InHand
  <2>2. StatusOf(s) = "taken"
    BY <1>3, <1>6, <2>1 DEF StatusOf
  <2> QED BY <1>3, <1>6, <2>2 DEF Place
<1>7. CASE ~Live(s) /\ grants[s] = 0 /\ ~InHand(s) /\ Pending(s)
  BY <1>1, <1>3, <1>7 DEF StatusOf, Place, InHand
<1>8. CASE ~Live(s) /\ grants[s] = 0 /\ ~InHand(s) /\ ~Pending(s)
  BY <1>1, <1>3, <1>8 DEF StatusOf, Place, InHand
<1> QED BY <1>3, <1>4, <1>5, <1>6, <1>7, <1>8

Placed ==
    \A s \in Secret :
        StatusOf(s) = Place(Live(s), grants[s] > 0, InHand(s), Pending(s))

LEMMA PlacedAlways == Spec => []Placed
<1>1. TypeOK /\ OneHolder /\ Roles => Placed
  BY StatusIs DEF Placed
<1> QED BY <1>1, TypeCorrect, HeldOnce, RolesAlways, PTL

\* A step that gives a secret no new place.
Shrinks ==
    /\ \A s \in Secret : Live(s)' => Live(s)
    /\ \A s \in Secret : InHand(s)' => InHand(s)
    /\ \A s \in Secret : Pending(s)' => Pending(s)
    /\ grants' = grants

LEMMA ShrinkLoses ==
    ASSUME TypeOK, OneHolder, Placed, Placed', Shrinks
    PROVE  Abstract!Lose
<1>1. ASSUME NEW s \in Secret
      PROVE  \/ StatusOf(s)' = StatusOf(s)
             \/ StatusOf(s)' = "dead" /\ StatusOf(s) # "granted"
  <2>1. StatusOf(s) = Place(Live(s), grants[s] > 0, InHand(s), Pending(s))
    BY DEF Placed
  <2>2. StatusOf(s)' = Place(Live(s)', grants'[s] > 0, InHand(s)', Pending(s)')
    BY DEF Placed
  <2>3. /\ Live(s)' => Live(s)
        /\ InHand(s)' => InHand(s)
        /\ Pending(s)' => Pending(s)
        /\ grants' = grants
    BY DEF Shrinks
  <2> QED BY <2>1, <2>2, <2>3, OnePlace DEF Place
<1> DEFINE lost == {s \in Secret : StatusOf(s)' # StatusOf(s)}
<1>2. PICK L : L = lost
  OBVIOUS
<1>3. \A s \in Secret : s \in L <=> StatusOf(s)' # StatusOf(s)
  BY <1>2
<1>4. L \in SUBSET {s \in Secret : [t \in Secret |-> StatusOf(t)][s] # "granted"}
  <2>1. \A s \in L : s \in Secret
    BY <1>2
  <2> HIDE DEF lost
  <2> QED BY <1>1, <1>3, <2>1
<1>5. [s \in Secret |-> StatusOf(s)]' =
          [s \in Secret |-> IF s \in L THEN "dead"
                            ELSE [t \in Secret |-> StatusOf(t)][s]]
  <2> HIDE DEF lost
  <2>1. \A s \in Secret : StatusOf(s)' = IF s \in L THEN "dead" ELSE StatusOf(s)
    BY <1>1, <1>3
  <2> QED BY <2>1
<1> QED BY <1>4, <1>5 DEF Abstract!Lose

LEMMA QuietShrinks ==
    ASSUME NEW a \in Actor, Quiet(a) PROVE Shrinks
<1>1. \A s : Live(s)' => Live(s)
  BY DEF Quiet, Live, LiveRecords
<1>2. \A b \in Actor : /\ Taking(b)' => Taking(b) /\ loc'[b].secret = loc[b].secret
                       /\ Issuing(b)' => Issuing(b) /\ loc'[b].secret = loc[b].secret
  BY DEF Quiet, Taking, Issuing
<1>3. UNCHANGED <<issues, grants>>
  BY DEF Quiet
<1>4. \A s \in Secret : InHand(s)' => InHand(s)
  BY <1>2 DEF InHand
<1>5. \A s \in Secret : Pending(s)' => Pending(s)
  BY <1>2, <1>3 DEF Pending
<1> QED BY <1>1, <1>3, <1>4, <1>5 DEF Shrinks

LEMMA ShrinkSteps ==
    ASSUME TypeOK, LockExclusive, OneHolder, [Next]_vars,
           \A a \in Actor : ~ConsumeUnderLock(a) /\ ~ReturnCredential(a)
                            /\ ~FillRecord(a) /\ ~FillFault(a)
    PROVE  Shrinks
<1>1. ASSUME NEW a \in Actor, FailUnderLock(a) \/ ReplacePart(a) \/ ReplacedFault(a)
      PROVE  Shrinks
  <2>1. /\ pc'[a] \in {"idle", "f_replace"} /\ pc[a] \in {"x_fail", "f_replace"}
        /\ UNCHANGED <<issues, grants>>
        /\ \A b \in Actor \ {a} : pc'[b] = pc[b] /\ loc'[b] = loc[b]
    BY <1>1 DEF FailUnderLock, ReplacePart, ReplacedFault, Goto, Finish, TypeOK,
                ThreadOK, world
  <2>2. \A s : Live(s)' => Live(s)
    <3>1. PICK p \in Pid : p = loc[a].pid
      BY <1>1 DEF FailUnderLock, ReplacePart, ReplacedFault, TypeOK, ThreadOK, AtPid
    <3>2. \A q \in Pid : Valid(rec'[q]) =>
              Valid(rec[q]) /\ rec'[q].secret = rec[q].secret
      <4>1. CASE FailUnderLock(a)
        <5>1. rec' = rec \/ rec' = [rec EXCEPT ![p] = NoRec]
          BY <3>1, <4>1 DEF FailUnderLock
        <5> QED BY <5>1, NoRecInvalid DEF TypeOK, DiskOK
      <4>2. CASE ReplacePart(a) \/ ReplacedFault(a)
        <5>1. rec' = [rec EXCEPT ![p] = part[p]] /\ pc[a] = "f_replace"
          BY <3>1, <4>2 DEF ReplacePart, ReplacedFault
        <5>2. Valid(rec[p]) /\ part[p].secret = rec[p].secret
          BY <3>1, <5>1 DEF OneHolder, PartKeepsSecret
        <5> QED BY <5>1, <5>2 DEF TypeOK, DiskOK
      <4> QED BY <1>1, <4>1, <4>2
    <3> QED BY <3>2 DEF Live, LiveRecords
  <2>3. \A b \in Actor : /\ Taking(b)' => Taking(b) /\ loc'[b] = loc[b]
                         /\ Issuing(b)' => Issuing(b) /\ loc'[b] = loc[b]
    BY <2>1 DEF Taking, Issuing
  <2> QED BY <2>1, <2>2, <2>3 DEF Shrinks, InHand, Pending
<1>2. ASSUME NEW a \in Actor, BeginIssue(a) PROVE Shrinks
  <2>1. /\ pc'[a] = "w_issue" /\ loc'[a].secret = issues + 1 /\ issues' = issues + 1
        /\ UNCHANGED <<rec, grants>> /\ issues \in Nat
        /\ \A b \in Actor \ {a} : pc'[b] = pc[b] /\ loc'[b] = loc[b]
    BY <1>2, CountsAreNat
       DEF BeginIssue, Begin, Local, TypeOK, ThreadOK, disk, ghost
  <2>2. \A s : Live(s)' => Live(s)
    BY <2>1 DEF Live, LiveRecords
  <2>3. \A s \in Secret : InHand(s)' => InHand(s)
    BY <2>1 DEF InHand, Taking
  <2>4. ASSUME NEW s \in Secret, Pending(s)' PROVE Pending(s)
    <3>1. s \in Nat
      BY DEF Secret
    <3>2. CASE s > issues'
      BY <2>1, <3>1, <3>2 DEF Pending
    <3>3. CASE \E b \in Actor : Issuing(b)' /\ loc'[b].secret = s
      <4>1. PICK b \in Actor : Issuing(b)' /\ loc'[b].secret = s
        BY <3>3
      <4>2. CASE b = a
        BY <2>1, <4>1, <4>2 DEF Pending
      <4>3. CASE b # a
        <5>1. Issuing(b) /\ loc[b].secret = s
          BY <2>1, <4>1, <4>3 DEF Issuing
        <5> QED BY <5>1 DEF Pending
      <4> QED BY <4>2, <4>3
    <3> QED BY <2>4, <3>2, <3>3 DEF Pending
  <2> QED BY <2>1, <2>2, <2>3, <2>4 DEF Shrinks
<1>3. ASSUME NEW a \in Actor, AllocateRecord(a) PROVE Shrinks
  <2>1. PICK p \in Pid :
            /\ rec' = [rec EXCEPT ![p] = Torn]
            /\ Goto(a, "i_fill", [loc[a] EXCEPT !.pid = p, !.now = clock])
    BY <1>3 DEF AllocateRecord, FreePids
  <2>2. /\ loc'[a].secret = loc[a].secret /\ Issuing(a) /\ pc'[a] = "i_fill"
        /\ UNCHANGED <<issues, grants>>
        /\ \A b \in Actor \ {a} : pc'[b] = pc[b] /\ loc'[b] = loc[b]
    BY <1>3, <2>1
       DEF AllocateRecord, Goto, Issuing, TypeOK, ThreadOK, LocalType, ghost
  <2>3. \A q \in Pid : Valid(rec'[q]) => rec'[q] = rec[q]
    BY <2>1, NoRecInvalid DEF TypeOK, DiskOK
  <2>4. \A s : Live(s)' => Live(s)
    BY <2>3 DEF Live, LiveRecords
  <2>5. \A b \in Actor : /\ Taking(b)' => Taking(b) /\ loc'[b] = loc[b]
                         /\ Issuing(b)' => Issuing(b)
                                           /\ loc'[b].secret = loc[b].secret
    BY <2>2 DEF Taking, Issuing
  <2> QED BY <2>2, <2>4, <2>5 DEF Shrinks, InHand, Pending
<1>4. ASSUME NEW c \in Proc, Crash(c) PROVE Shrinks
  <2>1. /\ UNCHANGED <<rec, issues, grants>>
        /\ \A b \in Actor : \/ pc'[b] = "idle"
                            \/ pc'[b] = pc[b] /\ loc'[b] = loc[b]
    BY <1>4 DEF Crash, disk, ghost
  <2>2. \A b \in Actor : /\ Taking(b)' => Taking(b) /\ loc'[b] = loc[b]
                         /\ Issuing(b)' => Issuing(b) /\ loc'[b] = loc[b]
    BY <2>1 DEF Taking, Issuing
  <2>3. \A s : Live(s)' => Live(s)
    BY <2>1 DEF Live, LiveRecords
  <2> QED BY <2>1, <2>2, <2>3 DEF Shrinks, InHand, Pending
<1>5. CASE Tick \/ UNCHANGED vars
  <2>1. UNCHANGED <<rec, pc, loc, issues, grants>>
    BY <1>5 DEF Tick, vars, disk, thread, ghost
  <2> QED BY <2>1 DEF Shrinks, InHand, Pending, Taking, Issuing, Live, LiveRecords
<1>6. ASSUME NEW a \in Actor,
             Step(a) \/ BeginCall(a) \/ DiskFault(a) \/ Restart(a)
      PROVE  Shrinks
  BY <1>1, <1>2, <1>3, <1>6, QuietShrinks, QuietSteps DEF Step, BeginCall, DiskFault
<1> QED BY <1>4, <1>5, <1>6 DEF Next

\* Every other secret stays in its place, and s moves.
LEMMA OneMoves ==
    ASSUME Placed, Placed', NEW s \in Secret, NEW from, NEW to,
           StatusOf(s) = from, StatusOf(s)' = to,
           \A t \in Secret \ {s} : StatusOf(t)' = StatusOf(t)
    PROVE  Abstract!Become(s, from, to)
<1>1. [t \in Secret |-> StatusOf(t)]' =
          [[t \in Secret |-> StatusOf(t)] EXCEPT ![s] = to]
  OBVIOUS
<1>2. [t \in Secret |-> StatusOf(t)][s] = from
  OBVIOUS
<1> QED BY <1>1, <1>2 DEF Abstract!Become

LEMMA Stays ==
    ASSUME Placed, Placed', NEW t \in Secret, Live(t)' <=> Live(t),
           grants'[t] = grants[t], InHand(t)' <=> InHand(t), Pending(t)' <=> Pending(t)
    PROVE  StatusOf(t)' = StatusOf(t)
<1>1. StatusOf(t) = Place(Live(t), grants[t] > 0, InHand(t), Pending(t))
  BY DEF Placed
<1>2. StatusOf(t)' = Place(Live(t)', grants'[t] > 0, InHand(t)', Pending(t)')
  BY DEF Placed
<1> QED BY <1>1, <1>2 DEF Place

\* The issuer writes its record: Mint.
LEMMA FillMints ==
    ASSUME TypeOK, LockExclusive, OneHolder, Books, Placed, Placed',
           NEW a \in Actor, FillRecord(a) \/ FillFault(a)
    PROVE  \E s \in Secret : Abstract!Mint(s)
<1>1. PICK p \in Pid : p = loc[a].pid
  BY DEF FillRecord, FillFault, TypeOK, ThreadOK, AtPid
<1>2. PICK s : s = loc[a].secret
  OBVIOUS
<1>3. /\ pc[a] = "i_fill" /\ pc[a] \in Holding /\ Issuing(a)
      /\ UNCHANGED <<grants, issues>>
  BY HoldingStates DEF FillRecord, FillFault, ghost, world, Issuing
<1>4. s \in Secret /\ Pending(s) /\ ~Live(s) /\ ~(grants[s] > 0)
  <2>1. s \in 1 .. issues /\ ~Live(s) /\ grants[s] = 0
    BY <1>2, <1>3 DEF OneHolder, IssuersHold
  <2> QED BY <1>2, <1>3, <2>1, SecretBelow DEF Pending
<1>5. \A q \in Pid : rec'[q] = IF q = p THEN Full(s, loc[a].now, 0, 0, 0) ELSE rec[q]
  BY <1>1, <1>2 DEF FillRecord, FillFault, TypeOK, DiskOK
<1>6. Valid(rec'[p]) /\ rec'[p].secret = s
  BY <1>5 DEF Full, Valid
<1>7. /\ pc'[a] \in {"remove", "idle"}
      /\ \A b \in Actor \ {a} : pc'[b] = pc[b] /\ loc'[b] = loc[b]
  BY DEF FillRecord, FillFault, Goto, Finish, TypeOK, ThreadOK
<1>8. Live(s)'
  BY <1>6 DEF Live, LiveRecords
<1>9. rec[p].kind = "torn" /\ ~Valid(rec[p])
  BY <1>1, <1>3 DEF Books, FilesFit, Valid
<1>10. StatusOf(s) = "unborn" /\ StatusOf(s)' = "live"
  <2>1. ~InHand(s)
    BY <1>4, OnePlace
  <2>2. StatusOf(s) = Place(Live(s), grants[s] > 0, InHand(s), Pending(s))
    BY <1>4 DEF Placed
  <2>3. StatusOf(s)' = Place(Live(s)', grants'[s] > 0, InHand(s)', Pending(s)')
    BY <1>4 DEF Placed
  <2> QED BY <1>4, <1>8, <2>1, <2>2, <2>3 DEF Place
<1>11. ASSUME NEW t \in Secret \ {s} PROVE StatusOf(t)' = StatusOf(t)
  <2>1. Live(t)' <=> Live(t)
    BY <1>5, <1>6, <1>9 DEF Live, LiveRecords
  <2>2. ~InHand(t) /\ ~InHand(t)'
    BY <1>3, <1>7, OnlyHolder DEF InHand, Taking
  <2>3. Pending(t)' <=> Pending(t)
    BY <1>2, <1>3, <1>7 DEF Pending, Issuing
  <2> QED BY <1>3, <2>1, <2>2, <2>3, Stays
<1>12. Abstract!Become(s, "unborn", "live")
  BY <1>4, <1>10, <1>11, OneMoves
<1> QED BY <1>4, <1>12 DEF Abstract!Mint

\* A claim takes its record: Take, when nobody else has taken one.
LEMMA ConsumeTakes ==
    ASSUME TypeOK, LockExclusive, OneHolder, Placed, Placed',
           NEW a \in Actor, ConsumeUnderLock(a)
    PROVE  Shrinks \/ \E s \in Secret : Abstract!Take(s)
<1>1. PICK p \in Pid : p = loc[a].pid
  BY DEF ConsumeUnderLock, TypeOK, ThreadOK, AtPid
<1>2. PICK s : s = loc[a].secret
  OBVIOUS
<1>3. /\ pc[a] = "x_claim" /\ pc[a] \in Holding
      /\ UNCHANGED <<part, pidOf, grants, issues>>
  BY HoldingStates DEF ConsumeUnderLock, ghost, world
<1>4. CASE UNCHANGED rec /\ \E result : Finish(a, result)
  <2>1. Quiet(a)
    BY <1>3, <1>4, FinishQuiet
  <2> QED BY <2>1, QuietShrinks
<1>5. CASE Recheck(loc[a]) = "consume" /\ UnlinkFor(a, loc[a], p, "consumed")
  <2>1. Valid(rec[p]) /\ rec[p].secret = s
    BY <1>1, <1>2, <1>5 DEF Recheck, TombAnswer
  <2>2. s \in Secret /\ Live(s)
    BY <2>1, SecretBelow DEF OneHolder, SecretsOwned, Live, LiveRecords
  <2>3. \A q \in Pid : rec'[q] = IF q = p THEN NoRec ELSE rec[q]
    BY <1>5 DEF UnlinkFor, TypeOK, DiskOK
  <2>4. /\ pc'[a] = "t_create" /\ loc'[a].secret = s /\ loc'[a].state = "consumed"
        /\ \A b \in Actor \ {a} : pc'[b] = pc[b] /\ loc'[b] = loc[b]
    BY <1>2, <1>5 DEF UnlinkFor, Goto, TypeOK, ThreadOK, LocalType
  <2>5. InHand(s)' /\ ~Live(s)'
    <3>1. \A q \in Pid \ {p} : Valid(rec[q]) => rec[q].secret # s
      BY <2>1, OneRecordEach DEF LiveRecords
    <3>2. ~Live(s)'
      BY <2>3, <3>1, NoRecInvalid DEF Live, LiveRecords
    <3>3. Taking(a)'
      BY <2>4 DEF Taking
    <3> QED BY <2>4, <3>2, <3>3 DEF InHand
  <2>6. \A t \in Secret : ~InHand(t)
    BY <1>3, OnlyHolder DEF InHand, Taking
  <2>7. StatusOf(s) = "live" /\ StatusOf(s)' = "taken"
    <3>1. StatusOf(s) = Place(Live(s), grants[s] > 0, InHand(s), Pending(s))
      BY <2>2 DEF Placed
    <3>2. StatusOf(s)' = Place(Live(s)', grants'[s] > 0, InHand(s)', Pending(s)')
      BY <2>2 DEF Placed
    <3>3. ~(grants[s] > 0)
      BY <2>2, OnePlace
    <3> QED BY <1>3, <2>2, <2>5, <3>1, <3>2, <3>3 DEF Place
  <2>8. ASSUME NEW t \in Secret \ {s} PROVE StatusOf(t)' = StatusOf(t)
    <3>1. Live(t)' <=> Live(t)
      BY <2>1, <2>3, NoRecInvalid DEF Live, LiveRecords
    <3>2. ~InHand(t)'
      <4>1. \A b \in Actor : Taking(b)' => b = a
        BY <1>3, <2>4, OnlyHolder DEF Taking
      <4> QED BY <2>4, <4>1 DEF InHand
    <3>3. Pending(t)' <=> Pending(t)
      BY <1>3, <2>4 DEF Pending, Issuing
    <3> QED BY <1>3, <2>6, <3>1, <3>2, <3>3, Stays
  <2>9. Abstract!Become(s, "live", "taken")
    BY <2>2, <2>7, <2>8, OneMoves
  <2>10. \A t \in Secret : [u \in Secret |-> StatusOf(u)][t] # "taken"
    <3> SUFFICES ASSUME NEW t \in Secret PROVE StatusOf(t) # "taken"
      OBVIOUS
    <3>1. StatusOf(t) = Place(Live(t), grants[t] > 0, InHand(t), Pending(t))
      BY DEF Placed
    <3> QED BY <2>6, <3>1 DEF Place
  <2> QED BY <2>2, <2>9, <2>10 DEF Abstract!Take
<1> QED BY <1>1, <1>4, <1>5 DEF ConsumeUnderLock

\* The credential is handed over: Deliver.
LEMMA ReturnDelivers ==
    ASSUME TypeOK, LockExclusive, OneHolder, Placed, Placed',
           NEW a \in Actor, ReturnCredential(a)
    PROVE  \E s \in Secret : Abstract!Deliver(s)
<1>1. PICK s : s = loc[a].secret
  OBVIOUS
<1>2. /\ pc[a] = "c_return" /\ pc[a] \in Holding /\ Taking(a)
      /\ UNCHANGED <<rec, issues>>
      /\ grants' = [grants EXCEPT ![s] = @ + 1]
  BY <1>1, HoldingStates
     DEF ReturnCredential, disk, world, OneHolder, TakersHold
<1>3. s \in Secret /\ ~Live(s) /\ grants[s] = 0 /\ InHand(s)
  BY <1>1, <1>2, SecretBelow DEF OneHolder, TakersHold, InHand
<1>4. grants'[s] = 1 /\ \A t \in Secret \ {s} : grants'[t] = grants[t]
  BY <1>2, <1>3 DEF TypeOK, GhostOK
<1>5. /\ pc'[a] = "idle"
      /\ \A b \in Actor \ {a} : pc'[b] = pc[b] /\ loc'[b] = loc[b]
  BY DEF ReturnCredential, Finish, TypeOK, ThreadOK
<1>6. \A t : Live(t)' <=> Live(t)
  BY <1>2 DEF Live, LiveRecords
<1>7. StatusOf(s) = "taken" /\ StatusOf(s)' = "granted"
  <2>1. StatusOf(s) = Place(Live(s), grants[s] > 0, InHand(s), Pending(s))
    BY <1>3 DEF Placed
  <2>2. StatusOf(s)' = Place(Live(s)', grants'[s] > 0, InHand(s)', Pending(s)')
    BY <1>3 DEF Placed
  <2>3. ~(0 > 0) /\ 1 > 0
    OBVIOUS
  <2> QED BY <1>3, <1>4, <1>6, <2>1, <2>2, <2>3 DEF Place
<1>8. ASSUME NEW t \in Secret \ {s} PROVE StatusOf(t)' = StatusOf(t)
  <2>1. ~InHand(t) /\ ~InHand(t)'
    <3>1. \A b \in Actor \ {a} : ~Taking(b) /\ ~Taking(b)'
      BY <1>2, <1>5, OnlyHolder DEF Taking
    <3>2. ~Taking(a)'
      BY <1>5 DEF Taking
    <3> QED BY <1>1, <3>1, <3>2 DEF InHand
  <2>2. Pending(t)' <=> Pending(t)
    BY <1>2, <1>5 DEF Pending, Issuing
  <2> QED BY <1>4, <1>6, <2>1, <2>2, Stays
<1>9. Abstract!Become(s, "taken", "granted")
  BY <1>3, <1>7, <1>8, OneMoves
<1> QED BY <1>3, <1>9 DEF Abstract!Deliver

\* The store implements the one-time credential: whatever files, locks, kills
\* and reused names do, no secret is minted twice, comes back once it was
\* consumed, revoked or expired, or is taken out while another one is.
THEOREM OneTimeHolds == Spec => OneTime
<1>1. Init => Abstract!Init
  <2> SUFFICES ASSUME Init PROVE Abstract!Init
    OBVIOUS
  <2>1. ASSUME NEW s \in Secret PROVE StatusOf(s) = "unborn"
    <3>1. ~Live(s)
      BY NoRecInvalid DEF Init, Live, LiveRecords
    <3>2. grants[s] = 0 /\ ~(0 > 0)
      BY DEF Init
    <3>3. \A a \in Actor : ~Taking(a)
      BY DEF Init, Taking
    <3>4. Unborn(s)
      BY DEF Init, Unborn, Secret
    <3> QED BY <3>1, <3>2, <3>3, <3>4 DEF StatusOf
  <2> QED BY <2>1 DEF Abstract!Init
<1>2. TypeOK /\ LockExclusive /\ OneHolder /\ Books /\ Placed /\ Placed'
      /\ [Next]_vars => Abstract!Next
  <2> SUFFICES ASSUME TypeOK, LockExclusive, OneHolder, Books, Placed, Placed',
                      [Next]_vars
               PROVE  Abstract!Next
    OBVIOUS
  <2>1. CASE \E a \in Actor : FillRecord(a) \/ FillFault(a)
    BY <2>1, FillMints DEF Abstract!Next
  <2>2. CASE \E a \in Actor : ConsumeUnderLock(a)
    BY <2>2, ConsumeTakes, ShrinkLoses DEF Abstract!Next
  <2>3. CASE \E a \in Actor : ReturnCredential(a)
    BY <2>3, ReturnDelivers DEF Abstract!Next
  <2>4. CASE \A a \in Actor : ~ConsumeUnderLock(a) /\ ~ReturnCredential(a)
                              /\ ~FillRecord(a) /\ ~FillFault(a)
    BY <2>4, ShrinkSteps, ShrinkLoses DEF Abstract!Next
  <2> QED BY <2>1, <2>2, <2>3, <2>4
<1> QED BY <1>1, <1>2, TypeCorrect, LockSafety, HeldOnce, BooksAlways, PlacedAlways,
           PTL DEF Spec, OneTime, Abstract!Spec
=============================================================================
