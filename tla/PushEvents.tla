----------------------------- MODULE PushEvents -----------------------------
(***************************************************************************)
(* push_events.py: the bounded event log behind POST /push and the long    *)
(* poll GET /events, with the client that follows next_cursor.             *)
(*                                                                         *)
(* publish() and each pass of read()'s loop run under one condition        *)
(* variable, so each is a step; between a wake-up and the next pass other  *)
(* publishers run.  The ring is the last MaxLen entries of log, which      *)
(* holds everything published since the process started; a restart begins  *)
(* an empty log under a new boot id.  Responses may be lost on the way.    *)
(***************************************************************************)
EXTENDS Integers, Sequences, FiniteSets

CONSTANTS Reader,       \* long-polling clients
          Key, NoKey,   \* event_key values; NoKey is null
          Content,      \* kind, payload and audience
          Session, NoSession,
          MaxLen,       \* PushEventQueue.maxlen
          Limit,        \* read(limit=...)
          Ttl,          \* ttl_s, after its clamp
          MaxSeq,       \* bound: events per process
          MaxTime,      \* bound: clock readings 0..MaxTime
          MaxBoots,     \* bound: processes
          MaxLost       \* bound: responses that never reach a client

ASSUME PushConstants ==
    /\ NoKey \notin Key /\ NoSession \notin Session
    /\ {MaxLen, Limit, Ttl, MaxBoots} \subseteq Nat \ {0}
    /\ {MaxSeq, MaxTime, MaxLost} \subseteq Nat

VARIABLES boot, log,    \* the process, and what it has published
          clock,
          pc,           \* per reader: idle / waiting / woken / reply
          cursor,       \* per reader: the cursor its client holds
          from,         \* per reader: cursor_seq of the read in progress
          slept,        \* per reader: that read has waited
          reply,        \* per reader: the response on its way
          got,          \* per reader: this process's events its client has
          pushed,       \* the publish just made and the envelope it answered
          losses

queue  == <<boot, log>>
reader == <<pc, cursor, from, slept, reply, got>>
vars   == <<boot, log, clock, pc, cursor, from, slept, reply, got, pushed, losses>>

Larger(m, n) == IF m > n THEN m ELSE n
Largest(S) == CHOOSE s \in S : \A t \in S : t <= s

Seq0    == 0 .. MaxSeq
Cursor(b, s) == [boot |-> b, seq |-> s]
NoCursor == Cursor(0, 0)
NoReply == [events |-> {}, next |-> NoCursor, gap |-> FALSE]

\* _events: deque(maxlen) has dropped all but the last MaxLen.
Oldest == Larger(1, Len(log) - MaxLen + 1)
Ring   == Oldest .. Len(log)

Init ==
    /\ boot = 1 /\ log = <<>> /\ clock = 0
    /\ pc = [r \in Reader |-> "idle"]
    /\ cursor = [r \in Reader |-> NoCursor]
    /\ from = [r \in Reader |-> 0]
    /\ slept = [r \in Reader |-> FALSE]
    /\ reply = [r \in Reader |-> NoReply]
    /\ got = [r \in Reader |-> {}]
    /\ pushed = {}
    /\ losses = 0

-----------------------------------------------------------------------------
(* publish_with_status().                                                   *)

\* The caller names a session, or the handler attaches the conversation that
\* was recent when it looked, or there is none.
Named == [src : {"explicit", "auto"}, session : Session] \cup
         [src : {"none"}, session : {NoSession}]

SameEvent(e, c, n) ==
    /\ e.content = c
    /\ \/ n.src # "explicit" /\ e.src # "explicit"
       \/ e.session = n.session

Tracked(k) == {s \in Ring : k # NoKey /\ log[s].key = k}

WakeAll == [r \in Reader |-> IF pc[r] = "waiting" THEN "woken" ELSE pc[r]]

Accept(k, c, n) ==
    /\ Tracked(k) = {}
    /\ Len(log) < MaxSeq
    /\ log' = Append(log, [key |-> k, content |-> c, session |-> n.session,
                           src |-> n.src, exp |-> clock + Ttl])
    /\ pc' = WakeAll
    /\ pushed' = {[seq |-> Len(log) + 1, content |-> c, named |-> n]}

Duplicate(k, c, n) ==
    /\ \E s \in Tracked(k) :
          /\ SameEvent(log[s], c, n)
          /\ pushed' = {[seq |-> s, content |-> c, named |-> n]}
    /\ UNCHANGED <<log, pc>>

\* DuplicateKeyError, answered 409.
Conflict(k, c, n) ==
    /\ \E s \in Tracked(k) : ~SameEvent(log[s], c, n)
    /\ pushed' = {}
    /\ UNCHANGED <<log, pc>>

Publish(k, c, n) ==
    /\ Accept(k, c, n) \/ Duplicate(k, c, n) \/ Conflict(k, c, n)
    /\ UNCHANGED <<boot, clock, cursor, from, slept, reply, got, losses>>

-----------------------------------------------------------------------------
(* read(): one pass of its loop from cursor f, then a response or a wait.   *)

\* _read_after: the first Limit unexpired entries after f, and the cursor past
\* everything looked at.
Fresh(f) == {s \in Ring : s > f /\ log[s].exp > clock}
Batch(f) == {s \in Fresh(f) : Cardinality({t \in Fresh(f) : t <= s}) <= Limit}
AdvanceNowhere(f) == f
AdvanceOnePast(f) == Larger(f, Len(log) + 1)
Advance(f) == IF Cardinality(Batch(f)) = Limit THEN Largest(Batch(f))
                                               ELSE Larger(f, Len(log))

Respond(r, events, next, gap) ==
    /\ pc' = [pc EXCEPT ![r] = "reply"]
    /\ reply' = [reply EXCEPT ![r] = [events |-> events, gap |-> gap,
                                      next |-> Cursor(boot, next)]]
    /\ from' = [from EXCEPT ![r] = 0]

Pass(r, f, gap, late) ==
    \/ /\ Batch(f) # {} \/ gap \/ late
       /\ Respond(r, Batch(f), Advance(f), gap)
    \/ /\ Batch(f) = {} /\ ~gap /\ ~late
       /\ pc' = [pc EXCEPT ![r] = "waiting"]
       /\ from' = [from EXCEPT ![r] = Advance(f)]
       /\ UNCHANGED reply

\* Is this cursor from another process, or older than the ring?
GapIgnoresRing(c) == c.boot # boot
Gap(c) == c.boot # boot \/ (log # <<>> /\ c.seq < Oldest)

\* GET /events: no cursor starts at the tail, a gap at the oldest entry.
StartRead(r) ==
    /\ pc[r] = "idle"
    /\ LET c == cursor[r]
           gap == c # NoCursor /\ Gap(c)
           f == IF c = NoCursor THEN Len(log)
                ELSE IF gap THEN Oldest - 1 ELSE c.seq
       IN \E late \in BOOLEAN : Pass(r, f, gap, late)   \* wait=0 or more
    /\ pushed' = {}
    /\ UNCHANGED <<queue, clock, cursor, slept, got, losses>>

\* Notified, or out of time: the loop looks once more.
Resume(r, late) ==
    /\ pc[r] = "woken" \/ (pc[r] = "waiting" /\ late)
    /\ Pass(r, from[r], FALSE, late)
    /\ slept' = [slept EXCEPT ![r] = TRUE]
    /\ pushed' = {}
    /\ UNCHANGED <<queue, clock, cursor, got, losses>>

\* The response arrives and the client keeps next_cursor ...
Deliver(r) ==
    /\ pc[r] = "reply"
    /\ pc' = [pc EXCEPT ![r] = "idle"]
    /\ got' = [got EXCEPT ![r] = @ \cup reply[r].events]
    /\ cursor' = [cursor EXCEPT ![r] = reply[r].next]
    /\ reply' = [reply EXCEPT ![r] = NoReply]
    /\ slept' = [slept EXCEPT ![r] = FALSE]
    /\ pushed' = {}
    /\ UNCHANGED <<queue, clock, from, losses>>

\* ... or it does not, and the client asks again with its old one.
LoseReply(r) ==
    /\ pc[r] = "reply" /\ losses < MaxLost
    /\ losses' = losses + 1
    /\ pc' = [pc EXCEPT ![r] = "idle"]
    /\ reply' = [reply EXCEPT ![r] = NoReply]
    /\ slept' = [slept EXCEPT ![r] = FALSE]
    /\ pushed' = {}
    /\ UNCHANGED <<queue, clock, cursor, from, got>>

-----------------------------------------------------------------------------
\* A new process: boot_id, sequence and ring start afresh, polls are cut off.
Restart ==
    /\ boot < MaxBoots
    /\ boot' = boot + 1
    /\ log' = <<>>
    /\ pushed' = {}
    /\ got' = [r \in Reader |-> {}]
    /\ pc' = [r \in Reader |-> "idle"]
    /\ from' = [r \in Reader |-> 0]
    /\ reply' = [r \in Reader |-> NoReply]
    /\ slept' = [r \in Reader |-> FALSE]
    /\ UNCHANGED <<clock, cursor, losses>>

Tick ==
    /\ clock < MaxTime
    /\ clock' = clock + 1
    /\ pushed' = {}
    /\ UNCHANGED <<queue, reader, losses>>

Next ==
    \/ \E k \in Key \cup {NoKey}, c \in Content, n \in Named : Publish(k, c, n)
    \/ \E r \in Reader :
          \/ StartRead(r) \/ Resume(r, FALSE) \/ Resume(r, TRUE)
          \/ Deliver(r) \/ LoseReply(r)
    \/ Restart
    \/ Tick

Spec == Init /\ [][Next]_vars

\* A notified thread runs, a client that is following polls again, and not all
\* of its responses are lost.  Nothing makes a poll time out.
FairSpec ==
    /\ Spec
    /\ \A r \in Reader : /\ WF_vars(StartRead(r)) /\ WF_vars(Resume(r, FALSE))
                         /\ SF_vars(Deliver(r))
-----------------------------------------------------------------------------
(* Properties.                                                              *)

Envelope == [key : Key \cup {NoKey}, content : Content,
             session : Session \cup {NoSession},
             src : {"explicit", "auto", "none"}, exp : Nat]
CursorType == [boot : 0 .. MaxBoots, seq : Seq0]

\* Every variable has its type, and nobody holds a cursor into the future.
TypeOK ==
    /\ boot \in 1 .. MaxBoots /\ log \in Seq(Envelope) /\ Len(log) <= MaxSeq
    /\ clock \in 0 .. MaxTime /\ losses \in 0 .. MaxLost
    /\ pc \in [Reader -> {"idle", "waiting", "woken", "reply"}]
    /\ cursor \in [Reader -> CursorType] /\ from \in [Reader -> Seq0]
    /\ slept \in [Reader -> BOOLEAN] /\ got \in [Reader -> SUBSET Seq0]
    /\ reply \in [Reader -> [events : SUBSET Seq0, next : CursorType,
                             gap : BOOLEAN]]
    /\ \A r \in Reader : cursor[r].boot = boot => cursor[r].seq <= Len(log)

\* What a response passes over without handing it to a client that has a cursor.
Skipped(r) == {s \in (cursor[r].seq + 1) .. reply[r].next.seq :
                  s \notin reply[r].events /\ log[s].exp > clock}
Following(r) == pc[r] = "reply" /\ cursor[r].boot = boot

\* A response that reports no gap passes over no event that is still valid,
\* through evictions, restarts, lost responses and limits; the one exception is
\* a reader overtaken by a whole ring between its notification and its next pass.
NoSilentLoss ==
    \A r \in Reader : Following(r) /\ ~reply[r].gap =>
        \A s \in Skipped(r) : slept[r] /\ s < Oldest

\* tests/test_push_events.py:76: "ring overflow marks stale cursor as gap",
\* also for a reader that was waiting.
OverflowIsReported ==
    \A r \in Reader : Following(r) /\ ~reply[r].gap => Skipped(r) = {}

\* No client is handed an event it already has: neither a retry after a lost
\* response nor a resynchronisation replays below what was acknowledged.
NoRedelivery ==
    \A r \in Reader : pc[r] = "reply" =>
        reply[r].events \cap got[r] = {}

\* Publishing again under one key makes a second event only once the first has
\* left the ring (or its process): retries of a push collapse.
RetriesCollapse ==
    \A i, j \in 1 .. Len(log) :
        i < j /\ log[i].key = log[j].key /\ log[i].key # NoKey => j - i >= MaxLen

\* A publish answered 200 names an envelope with its content, and one that named
\* its session is never answered with an envelope of another session.
AnswerMatchesPush ==
    \A p \in pushed :
        /\ log[p.seq].content = p.content
        /\ p.named.src = "explicit" => log[p.seq].session = p.named.session

\* A client that follows its cursor is given each valid push exactly once or is
\* told of a gap, through retries, evictions, restarts and lost responses.
ExactlyOnce == NoSilentLoss /\ NoRedelivery /\ RetriesCollapse /\ AnswerMatchesPush

\* An event reaches every client that keeps polling, unless it expires, is
\* pushed out of the ring or dies with the process, and without any poll having
\* to time out.
Owed(r, s) == /\ s \in Ring /\ log[s].exp > clock
              /\ cursor[r].boot = boot /\ cursor[r].seq < s
EventsArrive == \A r \in Reader, s \in 1 .. MaxSeq : Owed(r, s) ~> ~Owed(r, s)
=============================================================================
