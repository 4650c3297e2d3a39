-------------------------- MODULE PushEventsProofs --------------------------
(* Proofs about PushEvents, for every number of clients, keys, contents and  *)
(* sessions, every size of ring and response, and every bound.               *)
EXTENDS PushEvents, FiniteSetTheorems, SequenceTheorems, TLAPS

\* The cursor of a client is of this process or of an earlier one, and what it
\* has got of this one is not after it.
Acknowledged(r) == /\ cursor[r].boot <= boot
                   /\ \A s \in got[r] : cursor[r].boot = boot /\ s <= cursor[r].seq

\* A read under way is at or past its client's cursor.
Waits(r) == pc[r] \in {"waiting", "woken"}
Forward(r) == Waits(r) => /\ from[r] <= Len(log)
                          /\ cursor[r].boot = boot => cursor[r].seq <= from[r]

\* What a read that waits has passed over had expired, or was pushed out of the
\* ring while it slept; and so has what its response passes over.
Over(r, s) == log[s].exp <= clock \/ (slept[r] /\ s < Oldest)
PassedOver(r) == Waits(r) /\ cursor[r].boot = boot =>
                    \A s \in (cursor[r].seq + 1) .. from[r] : Over(r, s)
Accounted(r) == Following(r) /\ ~reply[r].gap =>
                   \A s \in Skipped(r) : slept[r] /\ s < Oldest

\* A response is of this process, and its events lie between the two cursors.
Responded(r) ==
    pc[r] = "reply" =>
       /\ reply[r].next.boot = boot /\ reply[r].next.seq <= Len(log)
       /\ \A s \in reply[r].events : s <= reply[r].next.seq
       /\ cursor[r].boot = boot => /\ cursor[r].seq <= reply[r].next.seq
                                   /\ \A s \in reply[r].events : s > cursor[r].seq

ReaderInv(r) == Acknowledged(r) /\ Forward(r) /\ PassedOver(r) /\ Accounted(r) /\ Responded(r)
IInv == /\ TypeOK
        /\ \A r \in Reader : ReaderInv(r)
        /\ RetriesCollapse /\ AnswerMatchesPush

-----------------------------------------------------------------------------
(* Numbers, and what the ring and a batch of it are.                        *)

LEMMA Least == ASSUME NEW S \in SUBSET Nat, S # {} PROVE \E m \in S : \A n \in S : m <= n
<1>1. PICK R : IsWellFoundedOn(R, Nat) /\ \A m, n \in Nat : m < n => <<m, n>> \in R
  <2>1. \A m, n \in Nat : m < n => <<m, n>> \in OpToRel(<, Nat)
    BY DEF OpToRel
  <2> QED BY <2>1, NatLessThanWellFounded
<1>2. IsWellFoundedOn(R, Nat)
  BY <1>1
<1>3. PICK m \in S : \A n \in S : ~(<<n, m>> \in R)
  BY <1>2, WFMin
<1>4. \A n \in S : ~(n < m)
  BY <1>1, <1>3
<1> QED BY <1>4

LEMMA Greatest == ASSUME NEW S \in SUBSET Nat, S # {}, NEW k \in Nat, \A n \in S : n <= k
                  PROVE Largest(S) \in S /\ \A n \in S : n <= Largest(S)
<1> DEFINE U == {m \in Nat : \A n \in S : n <= m}
<1>1. PICK m \in U : \A n \in U : m <= n
  BY Least
<1>2. m \in S
  <2> SUFFICES ASSUME m \notin S PROVE FALSE
    OBVIOUS
  <2>1. PICK n \in S : n # m
    OBVIOUS
  <2>2. m - 1 \in Nat /\ \A i \in S : i <= m - 1
    BY <2>1
  <2> QED BY <1>1, <2>2
<1> QED BY <1>1, <1>2 DEF Largest

LEMMA RingFacts == ASSUME TypeOK
                   PROVE /\ Len(log) \in Nat /\ Oldest \in Nat \ {0}
                         /\ Oldest > Len(log) - MaxLen
                         /\ log # <<>> => Oldest <= Len(log)
                         /\ \A s \in Int : s \in Ring <=> Oldest <= s /\ s <= Len(log)
                         /\ \A s \in 1 .. Len(log) : log[s] \in Envelope /\ log[s].exp \in Nat
<1>1. Len(log) \in Nat /\ (log # <<>> => Len(log) > 0)
  BY EmptySeq DEF TypeOK
<1>2. \A s \in 1 .. Len(log) : log[s] \in Envelope
  BY ElementOfSeq DEF TypeOK
<1> QED BY <1>1, <1>2, PushConstants DEF Oldest, Larger, Ring, Envelope

\* A batch holds every event up to the cursor it advances to that is in the
\* ring, after the one it was read from and still valid.
LEMMA BatchFacts == ASSUME TypeOK, NEW f \in 0 .. Len(log)
                    PROVE /\ Advance(f) \in f .. Len(log)
                          /\ Batch(f) \subseteq (f + 1) .. Advance(f)
                          /\ \A s \in Fresh(f) : s <= Advance(f) => s \in Batch(f)
<1> DEFINE F == Fresh(f)
           B == Batch(f)
           UpTo(s) == {t \in F : t <= s}
<1>1. F \in SUBSET Nat /\ F \subseteq (f + 1) .. Len(log) /\ IsFiniteSet(F) /\ f \in Nat
      /\ Len(log) \in Nat
  <2>1. Len(log) \in Nat /\ f \in Nat /\ Ring \subseteq 1 .. Len(log)
    BY RingFacts DEF Ring
  <2>2. \A s \in Fresh(f) : s \in Ring /\ s > f
    BY DEF Fresh
  <2>4. F \subseteq (f + 1) .. Len(log)
    <3> SUFFICES ASSUME NEW s \in F PROVE s \in (f + 1) .. Len(log)
      OBVIOUS
    <3>1. s \in 1 .. Len(log) /\ s > f
      BY <2>1, <2>2
    <3> QED BY <2>1, <3>1
  <2>3. IsFiniteSet((f + 1) .. Len(log))
    BY <2>1, FS_Interval
  <2> QED BY <2>1, <2>3, <2>4, FS_Subset
<1>2. B \subseteq F /\ IsFiniteSet(B) /\ \A s \in F : s \in B <=> Cardinality(UpTo(s)) <= Limit
  BY <1>1, FS_Subset DEF Batch
<1>3. \A s \in F : IsFiniteSet(UpTo(s)) /\ Cardinality(UpTo(s)) \in Nat
  BY <1>1, FS_Subset, FS_CardinalityType
<1>4. Cardinality(B) \in Nat /\ Limit \in Nat \ {0}
  BY <1>2, FS_CardinalityType, PushConstants
<1> HIDE DEF F, B
<1>5. \A s \in B, t \in F : t <= s => t \in B
  <2> SUFFICES ASSUME NEW s \in B, NEW t \in F, t <= s PROVE t \in B
    OBVIOUS
  <2>1. s \in F /\ s \in Nat /\ t \in Nat /\ F \subseteq Nat
    BY <1>1, <1>2
  <2>2. UpTo(t) \subseteq UpTo(s)
    <3>1. \A x \in F : x <= t => x <= s
      BY <2>1
    <3> QED BY <3>1
  <2>3. Cardinality(UpTo(t)) <= Cardinality(UpTo(s))
    BY <1>3, <2>1, <2>2, FS_Subset
  <2>4. Cardinality(UpTo(s)) <= Limit
    BY <1>2, <2>1
  <2>5. Cardinality(UpTo(t)) \in Nat /\ Cardinality(UpTo(s)) \in Nat
    BY <1>3, <2>1
  <2>6. Cardinality(UpTo(t)) <= Limit
    BY <1>4, <2>3, <2>4, <2>5
  <2> QED BY <1>2, <2>6
<1>6. CASE Cardinality(B) = Limit
  <2>1. B # {}
    BY <1>4, <1>6, FS_EmptySet
  <2>2. Largest(B) \in B /\ \A s \in B : s <= Largest(B)
    <3>1. B \in SUBSET Nat /\ Len(log) \in Nat /\ \A s \in B : s <= Len(log)
      BY <1>1, <1>2, RingFacts
    <3> QED BY <2>1, <3>1, Greatest
  <2>3. Advance(f) = Largest(B)
    BY <1>6 DEF Advance, B
  <2>4. Advance(f) \in f .. Len(log) /\ B \subseteq (f + 1) .. Advance(f)
    <3>1. \A s \in B : s \in Nat /\ f + 1 <= s /\ s <= Len(log)
      BY <1>1, <1>2
    <3> QED BY <1>1, <2>2, <2>3, <3>1
  <2>5. \A s \in F : s <= Advance(f) => s \in B
    BY <1>5, <2>2, <2>3
  <2> QED BY <2>4, <2>5 DEF F, B
<1>7. CASE Cardinality(B) # Limit
  <2>1. B = F
    <3> SUFFICES ASSUME F \ B # {} PROVE FALSE
      BY <1>2
    <3>1. PICK s \in F \ B : \A t \in F \ B : s <= t
      <4>1. F \ B \in SUBSET Nat
        BY <1>1
      <4> QED BY <4>1, Least
    <3>2. UpTo(s) = B \cup {s}
      <4>1. \A t \in B : t <= s
        BY <1>1, <1>2, <1>5, <3>1
      <4>2. \A t \in F : t <= s /\ t # s => t \in B
        BY <1>1, <3>1
      <4> QED BY <1>1, <1>2, <3>1, <4>1, <4>2
    <3>3. Cardinality(UpTo(s)) = Cardinality(B) + 1
      BY <1>2, <3>1, <3>2, FS_AddElement
    <3>4. ~(Cardinality(UpTo(s)) <= Limit)
      BY <1>2, <3>1
    <3>5. Cardinality(B) <= Limit
      <4>1. CASE B = {}
        BY <1>4, <4>1, FS_EmptySet
      <4>2. CASE B # {}
        <5>1. Largest(B) \in B /\ \A t \in B : t <= Largest(B)
          <6>1. B \in SUBSET Nat /\ Len(log) \in Nat /\ \A t \in B : t <= Len(log)
            BY <1>1, <1>2, RingFacts
          <6> QED BY <4>2, <6>1, Greatest
        <5>2. B \subseteq UpTo(Largest(B)) /\ Largest(B) \in F
          BY <1>2, <5>1
        <5>3. Cardinality(B) <= Cardinality(UpTo(Largest(B)))
          BY <1>3, <5>2, FS_Subset
        <5>4. Cardinality(UpTo(Largest(B))) <= Limit
          BY <1>2, <5>1, <5>2
        <5>5. Cardinality(UpTo(Largest(B))) \in Nat
          BY <1>3, <5>2
        <5> QED BY <1>4, <5>3, <5>4, <5>5
      <4> QED BY <4>1, <4>2
    <3> QED BY <1>4, <1>7, <3>3, <3>4, <3>5
  <2>2. Advance(f) = Larger(f, Len(log))
    BY <1>7 DEF Advance, B
  <2>3. Advance(f) = Len(log)
    BY <2>2, RingFacts DEF Larger
  <2>4. B \subseteq (f + 1) .. Len(log) /\ Advance(f) \in f .. Len(log)
    BY <1>1, <2>1, <2>3, RingFacts
  <2> QED BY <2>1, <2>3, <2>4 DEF F, B
<1> QED BY <1>6, <1>7

-----------------------------------------------------------------------------
(* Steps that leave a client where it is.                                   *)

LEMMA InitIInv == Init => IInv
<1> SUFFICES ASSUME Init PROVE IInv
  OBVIOUS
<1>1. log = <<>> /\ Len(log) = 0 /\ log \in Seq(Envelope)
  BY EmptySeq DEF Init
<1>2. NoCursor \in CursorType /\ NoCursor.boot = 0 /\ NoReply.next = NoCursor
      /\ NoReply.events = {} /\ NoReply.gap = FALSE
  BY PushConstants DEF NoCursor, Cursor, CursorType, Seq0, NoReply
<1>3. TypeOK
  <2>1. reply \in [Reader -> [events : SUBSET Seq0, next : CursorType, gap : BOOLEAN]]
    BY <1>2 DEF Init, NoReply
  <2> QED BY <1>1, <1>2, <2>1, PushConstants DEF TypeOK, Init, Seq0
<1>4. \A r \in Reader : ReaderInv(r)
  BY <1>2 DEF Init, ReaderInv, Acknowledged, Forward, PassedOver, Accounted, Responded, Waits, Following
<1> QED BY <1>1, <1>3, <1>4 DEF IInv, RetriesCollapse, AnswerMatchesPush, Init

\* Of a client that no step touches, nothing is lost by what is published and
\* by the passing of time.
LEMMA Untouched ==
    ASSUME TypeOK, TypeOK', NEW r \in Reader, ReaderInv(r),
           boot' = boot, clock <= clock', Len(log) <= Len(log'),
           \A s \in 1 .. Len(log) : log'[s] = log[s],
           cursor'[r] = cursor[r], from'[r] = from[r], slept'[r] = slept[r],
           reply'[r] = reply[r], got'[r] = got[r],
           Waits(r)' <=> Waits(r), pc'[r] = "reply" <=> pc[r] = "reply"
    PROVE  ReaderInv(r)'
<1>1. Len(log) \in Nat /\ Len(log') \in Nat /\ MaxLen \in Nat
  BY LenProperties, PushConstants DEF TypeOK
<1>2. Oldest \in Nat /\ Oldest' \in Nat /\ Oldest <= Oldest'
  BY <1>1 DEF Oldest, Larger
<1>3. clock \in Nat /\ clock' \in Nat /\ from[r] \in Nat /\ cursor[r].seq \in Nat
      /\ reply[r].next.seq \in Nat
  BY PushConstants DEF TypeOK, Seq0, CursorType
<1>4. \A s \in 1 .. Len(log) : log[s].exp \in Nat
  BY RingFacts
<1>5. Acknowledged(r)' /\ Forward(r)' /\ Responded(r)'
  BY <1>1, <1>3 DEF ReaderInv, Acknowledged, Forward, Responded
<1>6. PassedOver(r)'
  <2> SUFFICES ASSUME Waits(r), cursor[r].boot = boot, NEW s \in (cursor[r].seq + 1) .. from[r]
               PROVE Over(r, s)'
    BY DEF PassedOver
  <2>1. s \in 1 .. Len(log) /\ Over(r, s)
    BY <1>1, <1>3 DEF ReaderInv, Forward, PassedOver
  <2> QED BY <1>1, <1>2, <1>3, <1>4, <2>1 DEF Over
<1>7. Accounted(r)'
  <2> SUFFICES ASSUME Following(r), ~reply[r].gap, NEW s \in Skipped(r)'
               PROVE slept[r] /\ s < Oldest'
    BY DEF Accounted, Following
  <2>1. s \in (cursor[r].seq + 1) .. reply[r].next.seq /\ s \notin reply[r].events /\ log'[s].exp > clock'
    BY DEF Skipped
  <2>2. s \in 1 .. Len(log)
    BY <1>1, <1>3, <2>1 DEF ReaderInv, Responded, Following
  <2>3. s \in Skipped(r)
    BY <1>3, <1>4, <2>1, <2>2 DEF Skipped
  <2>4. slept[r] /\ s < Oldest
    BY <2>3 DEF ReaderInv, Accounted
  <2> QED BY <1>1, <1>2, <2>2, <2>4
<1> QED BY <1>5, <1>6, <1>7 DEF ReaderInv

LEMMA TickKeeps == ASSUME IInv, Tick \/ UNCHANGED vars PROVE IInv'
<1>1. UNCHANGED <<queue, reader, losses>> /\ clock' \in 0 .. MaxTime /\ clock <= clock'
      /\ (pushed' = {} \/ pushed' = pushed)
  <2>1. clock \in 0 .. MaxTime /\ MaxTime \in Nat
    BY PushConstants DEF IInv, TypeOK
  <2>2. CASE Tick
    BY <2>1, <2>2 DEF Tick
  <2>3. CASE UNCHANGED vars
    BY <2>1, <2>3 DEF vars, queue, reader
  <2> QED BY <2>2, <2>3
<1>2. TypeOK'
  BY <1>1 DEF queue, reader, IInv, TypeOK
<1>3. Len(log) <= Len(log)
  BY RingFacts DEF IInv
<1>4. \A r \in Reader : ReaderInv(r)'
  BY <1>1, <1>2, <1>3, Untouched DEF queue, reader, IInv, Waits
<1> QED BY <1>1, <1>2, <1>4 DEF queue, IInv, RetriesCollapse, AnswerMatchesPush

-----------------------------------------------------------------------------
(* Publishing.                                                              *)

LEMMA AcceptKeeps == ASSUME IInv, NEW k \in Key \cup {NoKey}, NEW c \in Content, NEW n \in Named,
                            Accept(k, c, n), UNCHANGED <<boot, clock, cursor, from, slept, reply, got, losses>>
                     PROVE IInv'
<1> DEFINE e == [key |-> k, content |-> c, session |-> n.session, src |-> n.src, exp |-> clock + Ttl]
<1>1. e \in Envelope
  BY PushConstants DEF IInv, TypeOK, Envelope, Named
<1>2. e.key = k /\ e.content = c /\ e.session = n.session /\ e.src = n.src
  OBVIOUS
<1> HIDE DEF e
<1>3. log' = Append(log, e) /\ Len(log) < MaxSeq /\ Tracked(k) = {} /\ pc' = WakeAll
      /\ pushed' = {[seq |-> Len(log) + 1, content |-> c, named |-> n]}
  BY DEF Accept, e
<1>4. log \in Seq(Envelope) /\ Len(log) \in Nat
  BY RingFacts DEF IInv, TypeOK
<1>5. /\ log' \in Seq(Envelope) /\ Len(log') = Len(log) + 1 /\ log'[Len(log) + 1] = e
      /\ \A s \in 1 .. Len(log) : log'[s] = log[s]
  BY <1>1, <1>3, <1>4, AppendProperties
<1>6. /\ pc' \in [Reader -> {"idle", "waiting", "woken", "reply"}]
      /\ \A r \in Reader : (Waits(r)' <=> Waits(r)) /\ (pc'[r] = "reply" <=> pc[r] = "reply")
  BY <1>3 DEF WakeAll, Waits, IInv, TypeOK
<1>7. TypeOK'
  BY <1>3, <1>4, <1>5, <1>6, PushConstants DEF IInv, TypeOK, Seq0, CursorType
<1>8. \A r \in Reader : ReaderInv(r)'
  <2>1. clock <= clock' /\ Len(log) <= Len(log')
    BY <1>4, <1>5 DEF IInv, TypeOK
  <2> QED BY <1>5, <1>6, <1>7, <2>1, Untouched DEF IInv
<1>9. RetriesCollapse'
  <2> SUFFICES ASSUME NEW i \in 1 .. Len(log'), NEW j \in 1 .. Len(log'), i < j,
                      log'[i].key = log'[j].key, log'[i].key # NoKey
               PROVE j - i >= MaxLen
    BY DEF RetriesCollapse
  <2>1. CASE j <= Len(log)
    BY <1>4, <1>5, <2>1 DEF IInv, RetriesCollapse
  <2>2. CASE j = Len(log) + 1
    <3>1. i \in 1 .. Len(log) /\ log[i].key = k /\ k # NoKey
      BY <1>2, <1>4, <1>5, <2>2
    <3>2. i \notin Ring
      BY <1>3, <3>1 DEF Tracked
    <3>3. i < Oldest /\ MaxLen \in Nat
      BY <3>1, <3>2, RingFacts, PushConstants DEF IInv
    <3>4. i < Len(log) - MaxLen + 1
      BY <1>4, <3>1, <3>3 DEF Oldest, Larger
    <3> QED BY <1>4, <2>2, <3>1, <3>3, <3>4
  <2> QED BY <1>4, <1>5, <2>1, <2>2
<1>10. AnswerMatchesPush'
  BY <1>2, <1>3, <1>5 DEF AnswerMatchesPush
<1> QED BY <1>7, <1>8, <1>9, <1>10 DEF IInv

LEMMA PublishKeeps == ASSUME IInv, NEW k \in Key \cup {NoKey}, NEW c \in Content, NEW n \in Named,
                             Publish(k, c, n)
                      PROVE IInv'
<1>1. UNCHANGED <<boot, clock, cursor, from, slept, reply, got, losses>>
  BY DEF Publish
<1>2. CASE Accept(k, c, n)
  BY <1>1, <1>2, AcceptKeeps
<1>3. CASE Duplicate(k, c, n) \/ Conflict(k, c, n)
  <2>1. UNCHANGED <<log, pc>>
    BY <1>3 DEF Duplicate, Conflict
  <2>2. TypeOK'
    BY <1>1, <2>1 DEF IInv, TypeOK
  <2>3. clock <= clock /\ Len(log) <= Len(log)
    BY RingFacts DEF IInv, TypeOK
  <2>4. \A r \in Reader : ReaderInv(r)'
    BY <1>1, <2>1, <2>2, <2>3, Untouched DEF IInv, Waits
  <2>5. AnswerMatchesPush'
    BY <1>3, <2>1 DEF AnswerMatchesPush, Duplicate, Conflict, SameEvent
  <2> QED BY <2>1, <2>2, <2>4, <2>5 DEF IInv, RetriesCollapse
<1> QED BY <1>2, <1>3 DEF Publish

-----------------------------------------------------------------------------
(* Reading.                                                                 *)

\* A step of one client that leaves the events and the clock alone.
LEMMA OthersKeep ==
    ASSUME IInv, TypeOK', NEW r \in Reader, UNCHANGED <<boot, log, clock>>, pushed' = {},
           \A q \in Reader \ {r} : /\ pc'[q] = pc[q] /\ cursor'[q] = cursor[q] /\ from'[q] = from[q]
                                   /\ slept'[q] = slept[q] /\ reply'[q] = reply[q] /\ got'[q] = got[q],
           ReaderInv(r)'
    PROVE  IInv'
<1>1. clock <= clock' /\ Len(log) <= Len(log') /\ boot' = boot /\ log' = log
  BY RingFacts DEF IInv, TypeOK
<1>2. \A q \in Reader \ {r} : ReaderInv(q)'
  BY <1>1, Untouched DEF IInv, Waits
<1> QED BY <1>1, <1>2 DEF IInv, RetriesCollapse, AnswerMatchesPush

\* A pass from f answers with every event after f that is still valid, up to
\* where it has looked, or waits having seen none.
LEMMA PassKeeps ==
    ASSUME IInv, NEW r \in Reader, NEW f \in 0 .. Len(log), NEW gap \in BOOLEAN, NEW late \in BOOLEAN,
           Pass(r, f, gap, late), UNCHANGED <<queue, clock, cursor, got, losses>>, pushed' = {},
           slept' \in [Reader -> BOOLEAN], \A q \in Reader \ {r} : slept'[q] = slept[q],
           cursor[r].boot = boot => cursor[r].seq <= f,
           cursor[r].boot = boot /\ ~gap =>
              /\ \A s \in (cursor[r].seq + 1) .. f : log[s].exp <= clock \/ (slept'[r] /\ s < Oldest)
              /\ \A s \in (f + 1) .. Len(log) : s \in Ring \/ slept'[r]
    PROVE  IInv'
<1> DEFINE a == Advance(f)
           B == Batch(f)
<1>1. /\ Len(log) \in Nat /\ f \in Nat /\ Oldest \in Nat /\ a \in f .. Len(log) /\ a \in Nat
      /\ B \subseteq (f + 1) .. a /\ B \subseteq Seq0 /\ a \in Seq0
      /\ boot \in 1 .. MaxBoots /\ clock \in Nat /\ MaxBoots \in Nat
      /\ cursor[r].seq \in Nat /\ cursor[r].boot \in Nat
  <2>1. a \in f .. Len(log) /\ B \subseteq (f + 1) .. a /\ Len(log) \in Nat /\ Oldest \in Nat
    BY BatchFacts, RingFacts DEF IInv
  <2>2. Len(log) <= MaxSeq /\ MaxSeq \in Nat
    BY PushConstants DEF IInv, TypeOK
  <2> QED BY <2>1, <2>2, PushConstants DEF IInv, TypeOK, Seq0, CursorType
<1>2. \A s \in (f + 1) .. a : s \in Ring /\ log[s].exp > clock => s \in B
  <2>1. \A s \in (f + 1) .. a : s \in Ring /\ log[s].exp > clock => s \in Fresh(f) /\ s <= a
    BY <1>1 DEF Fresh
  <2> QED BY <2>1, BatchFacts DEF IInv
<1>3. \A s \in 1 .. Len(log) : log[s].exp \in Nat /\ (s \notin Ring => s < Oldest)
  BY RingFacts DEF IInv
<1> HIDE DEF a, B
<1>4. log' = log /\ boot' = boot /\ clock' = clock /\ cursor' = cursor /\ got' = got /\ Oldest' = Oldest
  BY DEF queue, Oldest
\* What lies before a and is not in the answer.
<1>5. cursor[r].boot = boot /\ ~gap =>
         \A s \in (cursor[r].seq + 1) .. a : s \notin B => log[s].exp <= clock \/ (slept'[r] /\ s < Oldest)
  <2> SUFFICES ASSUME cursor[r].boot = boot, ~gap, NEW s \in (cursor[r].seq + 1) .. a, s \notin B
               PROVE log[s].exp <= clock \/ (slept'[r] /\ s < Oldest)
    OBVIOUS
  <2>1. CASE s <= f
    BY <1>1, <2>1
  <2>2. CASE s > f
    <3>1. s \in (f + 1) .. a /\ s \in (f + 1) .. Len(log) /\ s \in 1 .. Len(log)
      BY <1>1, <2>2
    <3>2. s \in Ring => log[s].exp <= clock
      BY <1>1, <1>2, <1>3, <3>1
    <3>3. s \notin Ring => slept'[r] /\ s < Oldest
      BY <1>3, <3>1
    <3> QED BY <3>2, <3>3
  <2> QED BY <1>1, <2>1, <2>2
<1>6. ASSUME Respond(r, B, a, gap) PROVE IInv'
  <2> DEFINE w == [events |-> B, gap |-> gap, next |-> Cursor(boot, a)]
  <2>1. /\ w \in [events : SUBSET Seq0, next : CursorType, gap : BOOLEAN]
        /\ w.events = B /\ w.gap = gap /\ w.next.boot = boot /\ w.next.seq = a
    BY <1>1 DEF Cursor, CursorType
  <2>2. pc' = [pc EXCEPT ![r] = "reply"] /\ reply' = [reply EXCEPT ![r] = w]
        /\ from' = [from EXCEPT ![r] = 0]
    BY <1>6 DEF Respond
  <2> HIDE DEF w
  <2>3. /\ pc'[r] = "reply" /\ reply'[r] = w
        /\ \A q \in Reader \ {r} : /\ pc'[q] = pc[q] /\ cursor'[q] = cursor[q] /\ from'[q] = from[q]
                                   /\ slept'[q] = slept[q] /\ reply'[q] = reply[q] /\ got'[q] = got[q]
    BY <1>4, <2>2 DEF IInv, TypeOK
  <2>4. TypeOK'
    BY <1>4, <2>1, <2>2, PushConstants DEF IInv, TypeOK, Seq0
  <2>5. Acknowledged(r)' /\ Forward(r)' /\ PassedOver(r)' /\ Responded(r)'
    <3>1. Acknowledged(r)' /\ Forward(r)' /\ PassedOver(r)'
      BY <1>4, <2>3 DEF IInv, ReaderInv, Acknowledged, Forward, PassedOver, Waits
    <3>2. a <= Len(log) /\ \A s \in B : f < s /\ s <= a
      BY <1>1
    <3>3. cursor[r].boot = boot => cursor[r].seq <= a /\ \A s \in B : s > cursor[r].seq
      BY <1>1, <3>2
    <3> QED BY <1>4, <2>1, <2>3, <3>1, <3>2, <3>3 DEF Responded
  <2>6. Accounted(r)'
    <3> SUFFICES ASSUME cursor[r].boot = boot, ~gap, NEW s \in Skipped(r)'
                 PROVE slept'[r] /\ s < Oldest
      BY <1>4, <2>1, <2>3 DEF Accounted, Following
    <3>1. s \in (cursor[r].seq + 1) .. a /\ s \notin B /\ log[s].exp > clock
      BY <1>4, <2>1, <2>3 DEF Skipped
    <3>2. s \in 1 .. Len(log)
      BY <1>1, <3>1
    <3> QED BY <1>1, <1>3, <1>5, <3>1, <3>2
  <2> QED BY <1>4, <2>3, <2>4, <2>5, <2>6, OthersKeep DEF ReaderInv
<1>7. ASSUME B = {}, ~gap, pc' = [pc EXCEPT ![r] = "waiting"], from' = [from EXCEPT ![r] = a], reply' = reply
      PROVE IInv'
  <2>1. /\ pc'[r] = "waiting" /\ from'[r] = a
        /\ \A q \in Reader \ {r} : /\ pc'[q] = pc[q] /\ cursor'[q] = cursor[q] /\ from'[q] = from[q]
                                   /\ slept'[q] = slept[q] /\ reply'[q] = reply[q] /\ got'[q] = got[q]
    BY <1>4, <1>7 DEF IInv, TypeOK
  <2>2. TypeOK'
    BY <1>1, <1>4, <1>7 DEF IInv, TypeOK
  <2>3. Acknowledged(r)' /\ Forward(r)' /\ Accounted(r)' /\ Responded(r)'
    BY <1>1, <1>4, <2>1 DEF IInv, ReaderInv, Acknowledged, Forward, Accounted, Responded, Following
  <2>4. PassedOver(r)'
    BY <1>4, <1>5, <1>7, <2>1 DEF PassedOver, Over
  <2> QED BY <1>4, <2>1, <2>2, <2>3, <2>4, OthersKeep DEF ReaderInv
<1> QED BY <1>6, <1>7 DEF Pass, a, B

LEMMA StartReadKeeps == ASSUME IInv, NEW r \in Reader, StartRead(r) PROVE IInv'
<1> DEFINE c == cursor[r]
           gap == c # NoCursor /\ Gap(c)
           f == IF c = NoCursor THEN Len(log) ELSE IF gap THEN Oldest - 1 ELSE c.seq
<1>1. PICK late \in BOOLEAN : Pass(r, f, gap, late)
  BY DEF StartRead
<1>2. UNCHANGED <<queue, clock, cursor, slept, got, losses>> /\ pushed' = {}
  BY DEF StartRead
<1>3. c \in CursorType /\ c.seq \in Nat /\ c.boot \in Nat /\ (c.boot = boot => c.seq <= Len(log))
      /\ boot \in Nat \ {0} /\ NoCursor.boot = 0
  BY PushConstants DEF IInv, TypeOK, CursorType, Seq0, NoCursor, Cursor
<1>4. /\ Len(log) \in Nat /\ Oldest \in Nat \ {0} /\ (log # <<>> => Oldest <= Len(log))
      /\ \A s \in Int : s \in Ring <=> Oldest <= s /\ s <= Len(log)
  BY RingFacts DEF IInv
<1>5. log = <<>> => Len(log) = 0
  OBVIOUS
<1>6. f \in 0 .. Len(log) /\ (c.boot = boot => c.seq <= f) /\ (c.boot = boot /\ ~gap => f = c.seq)
  <2>1. CASE c = NoCursor
    BY <1>3, <1>4, <2>1
  <2>2. CASE c # NoCursor /\ gap
    <3>1. c.boot = boot => log # <<>> /\ c.seq < Oldest
      BY <2>2 DEF Gap
    <3>2. Oldest - 1 \in 0 .. Len(log)
      BY <1>4, <1>5, PushConstants DEF Oldest, Larger
    <3> QED BY <1>3, <1>4, <2>2, <3>1, <3>2
  <2>3. CASE c # NoCursor /\ ~gap
    BY <1>3, <1>4, <2>3 DEF Gap
  <2> QED BY <2>1, <2>2, <2>3
<1>7. c.boot = boot /\ ~gap => \A s \in (f + 1) .. Len(log) : s \in Ring
  <2> SUFFICES ASSUME c.boot = boot, ~gap, NEW s \in (f + 1) .. Len(log) PROVE s \in Ring
    OBVIOUS
  <2>1. f = c.seq /\ log # <<>> /\ c # NoCursor
    BY <1>3, <1>4, <1>5, <1>6
  <2>2. ~(c.seq < Oldest)
    BY <2>1 DEF Gap
  <2> QED BY <1>3, <1>4, <2>1, <2>2
<1>8. slept' \in [Reader -> BOOLEAN] /\ \A q \in Reader \ {r} : slept'[q] = slept[q]
  BY <1>2 DEF IInv, TypeOK
<1>9. c.boot = boot /\ ~gap => \A s \in (c.seq + 1) .. f : FALSE
  BY <1>3, <1>6
<1>10. gap \in BOOLEAN
  OBVIOUS
<1> HIDE DEF f, gap
<1> QED BY <1>1, <1>2, <1>6, <1>7, <1>8, <1>9, <1>10, PassKeeps

LEMMA ResumeKeeps == ASSUME IInv, NEW r \in Reader, NEW late \in BOOLEAN, Resume(r, late) PROVE IInv'
<1>1. /\ Waits(r) /\ Pass(r, from[r], FALSE, late) /\ slept' = [slept EXCEPT ![r] = TRUE]
      /\ pushed' = {} /\ UNCHANGED <<queue, clock, cursor, got, losses>>
  BY DEF Resume, Waits
<1>2. from[r] \in 0 .. Len(log) /\ (cursor[r].boot = boot => cursor[r].seq <= from[r])
  BY <1>1, PushConstants, RingFacts DEF IInv, TypeOK, Seq0, ReaderInv, Forward
<1>3. slept' \in [Reader -> BOOLEAN] /\ slept'[r] /\ \A q \in Reader \ {r} : slept'[q] = slept[q]
  BY <1>1 DEF IInv, TypeOK
<1>4. cursor[r].boot = boot => \A s \in (cursor[r].seq + 1) .. from[r] : log[s].exp <= clock \/ s < Oldest
  BY <1>1 DEF IInv, ReaderInv, PassedOver, Over
<1> QED BY <1>1, <1>2, <1>3, <1>4, PassKeeps

LEMMA DeliverKeeps == ASSUME IInv, NEW r \in Reader, Deliver(r) \/ LoseReply(r) PROVE IInv'
<1>1. /\ pc[r] = "reply" /\ pc' = [pc EXCEPT ![r] = "idle"] /\ reply' = [reply EXCEPT ![r] = NoReply]
      /\ slept' = [slept EXCEPT ![r] = FALSE] /\ pushed' = {} /\ UNCHANGED <<queue, clock, from>>
  BY DEF Deliver, LoseReply
<1>2. log' = log /\ boot' = boot
  BY <1>1 DEF queue
<1>3. /\ reply[r].events \subseteq Seq0 /\ reply[r].next \in CursorType
      /\ reply[r].next.boot = boot /\ reply[r].next.seq <= Len(log)
  BY <1>1 DEF IInv, TypeOK, ReaderInv, Responded
<1>4. NoReply \in [events : SUBSET Seq0, next : CursorType, gap : BOOLEAN]
  BY PushConstants DEF NoReply, NoCursor, Cursor, CursorType, Seq0
<1>5. /\ cursor' \in [Reader -> CursorType] /\ got' \in [Reader -> SUBSET Seq0] /\ losses' \in 0 .. MaxLost
      /\ \A q \in Reader \ {r} : cursor'[q] = cursor[q] /\ got'[q] = got[q]
      /\ \/ cursor'[r] = reply[r].next /\ got'[r] = got[r] \cup reply[r].events
         \/ cursor'[r] = cursor[r] /\ got'[r] = got[r]
  <2>1. CASE Deliver(r)
    BY <1>3, <2>1 DEF Deliver, IInv, TypeOK
  <2>2. CASE LoseReply(r)
    BY <2>2, PushConstants DEF LoseReply, IInv, TypeOK
  <2> QED BY <2>1, <2>2
<1>6. TypeOK'
  BY <1>1, <1>2, <1>3, <1>4, <1>5 DEF IInv, TypeOK
<1>7. \A q \in Reader \ {r} : /\ pc'[q] = pc[q] /\ cursor'[q] = cursor[q] /\ from'[q] = from[q]
                              /\ slept'[q] = slept[q] /\ reply'[q] = reply[q] /\ got'[q] = got[q]
  BY <1>1, <1>5 DEF IInv, TypeOK
<1>8. pc'[r] = "idle"
  BY <1>1 DEF IInv, TypeOK
<1>9. Acknowledged(r)'
  <2>1. boot \in Nat /\ \A q \in Reader : cursor[q].seq \in Nat /\ reply[q].next.seq \in Nat
    BY PushConstants DEF IInv, TypeOK, CursorType, Seq0
  <2>2. \A s \in got[r] : s \in Nat /\ cursor[r].boot = boot /\ s <= cursor[r].seq
    BY PushConstants DEF IInv, TypeOK, Seq0, ReaderInv, Acknowledged
  <2>3. \A s \in reply[r].events : s <= reply[r].next.seq
    BY <1>1 DEF IInv, ReaderInv, Responded
  <2>4. cursor[r].boot = boot => cursor[r].seq <= reply[r].next.seq
    BY <1>1 DEF IInv, ReaderInv, Responded
  <2>5. cursor[r].boot <= boot
    BY DEF IInv, ReaderInv, Acknowledged
  <2> QED BY <1>2, <1>3, <1>5, <2>1, <2>2, <2>3, <2>4, <2>5 DEF Acknowledged
<1>10. ReaderInv(r)'
  BY <1>8, <1>9 DEF ReaderInv, Forward, PassedOver, Accounted, Responded, Waits, Following
<1> QED BY <1>1, <1>2, <1>6, <1>7, <1>10, OthersKeep

LEMMA RestartKeeps == ASSUME IInv, Restart PROVE IInv'
<1>1. log' = <<>> /\ Len(log') = 0 /\ log' \in Seq(Envelope) /\ boot' = boot + 1 /\ boot < MaxBoots
  BY EmptySeq DEF Restart
<1>2. boot \in 1 .. MaxBoots /\ MaxBoots \in Nat
  BY PushConstants DEF IInv, TypeOK
<1>3. \A r \in Reader : cursor[r].boot <= boot /\ cursor[r].boot \in Nat
  BY PushConstants DEF IInv, TypeOK, CursorType, ReaderInv, Acknowledged
<1>4. TypeOK'
  <2>1. NoReply \in [events : SUBSET Seq0, next : CursorType, gap : BOOLEAN]
    BY PushConstants DEF NoReply, NoCursor, Cursor, CursorType, Seq0
  <2>2. \A r \in Reader : cursor[r].boot # boot'
    BY <1>1, <1>2, <1>3
  <2> QED BY <1>1, <1>2, <2>1, <2>2, PushConstants DEF Restart, IInv, TypeOK, Seq0
<1>5. \A r \in Reader : ReaderInv(r)'
  BY <1>1, <1>2, <1>3 DEF Restart, ReaderInv, Acknowledged, Forward, PassedOver, Accounted, Responded,
     Waits, Following
<1> QED BY <1>1, <1>4, <1>5 DEF Restart, IInv, RetriesCollapse, AnswerMatchesPush

-----------------------------------------------------------------------------
(* The theorems.                                                            *)

LEMMA StepIInv == IInv /\ [Next]_vars => IInv'
<1> SUFFICES ASSUME IInv, [Next]_vars PROVE IInv'
  OBVIOUS
<1> QED BY PublishKeeps, StartReadKeeps, ResumeKeeps, DeliverKeeps, RestartKeeps, TickKeeps DEF Next

\* The inductive invariant.
THEOREM Invariance == Spec => []IInv
<1> QED BY InitIInv, StepIInv, PTL DEF Spec

\* Every variable has its type, and nobody holds a cursor into the future of the
\* process (push_events.py: the cursors that read() hands out).
THEOREM TypeCorrect == Spec => []TypeOK
<1>1. IInv => TypeOK
  BY DEF IInv
<1> QED BY <1>1, Invariance, PTL

\* A client that follows its cursor is given each valid push exactly once or is
\* told of a gap, whatever expires, is pushed out of the ring, is lost on the
\* way or dies with the process; retries of a push collapse, and each is
\* answered with its own envelope.
THEOREM EachOnce == Spec => []ExactlyOnce
<1>1. IInv => NoRedelivery
  <2> SUFFICES ASSUME IInv, NEW r \in Reader, pc[r] = "reply", NEW s \in reply[r].events \cap got[r]
               PROVE FALSE
    BY DEF NoRedelivery
  <2>1. cursor[r].boot = boot /\ s <= cursor[r].seq /\ s \in Nat /\ cursor[r].seq \in Nat
    BY PushConstants DEF IInv, TypeOK, Seq0, CursorType, ReaderInv, Acknowledged
  <2>2. s > cursor[r].seq
    BY <2>1 DEF IInv, ReaderInv, Responded
  <2> QED BY <2>1, <2>2
<1>2. IInv => NoSilentLoss
  BY DEF IInv, ReaderInv, Accounted, NoSilentLoss
<1>3. IInv => ExactlyOnce
  BY <1>1, <1>2 DEF IInv, ExactlyOnce
<1> QED BY <1>3, Invariance, PTL
=============================================================================
