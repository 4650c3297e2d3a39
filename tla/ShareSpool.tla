----------------------------- MODULE ShareSpool -----------------------------
(***************************************************************************)
(* share_store.py: files a phone stages for its next turn, published as a  *)
(* data file and a sidecar, read once, swept when they expire; with the    *)
(* gateway process that owns the store (startup cleanup, the jobs that own *)
(* claimed files).                                                         *)
(*                                                                         *)
(* Every operation runs under the store's lock, so one call is in progress *)
(* at a time (op), but each file operation is a step of its own: the       *)
(* process can be killed between any two, and a file operation may fail.   *)
(* A removal returns to op.next, a sweep to op.then.                       *)
(***************************************************************************)
EXTENDS Integers, Sequences, FiniteSets

CONSTANTS Session, Key, NoKey,
          MaxLive,       \* SHARE_MAX_LIVE_PER_SESSION
          Ttl, Grace,    \* ttl_seconds, sweep_grace_seconds
          MaxShares,     \* bound: share ids ever allocated
          MaxTime,       \* bound: clock readings 0..MaxTime
          MaxCrashes,    \* bound: kills of the process
          MaxFaults      \* bound: failures (of one operation, or of one call's
                         \* reads or removals together)

ASSUME ShareConstants ==
    /\ NoKey \notin Key /\ {"none", "screen"} \cap Session = {}
    /\ {MaxLive, Ttl, Grace, MaxShares} \subseteq Nat \ {0}
    /\ {MaxTime, MaxCrashes, MaxFaults} \subseteq Nat /\ Ttl <= Grace

Share   == 1 .. MaxShares
NoShare == 0
File    == {"data.part", "side.part", "data", "side", "claimed.part", "claimed"}

VARIABLES disk,      \* per share: its files
          what,      \* per share: for whom it was staged, and when
          known, idem, gone,   \* _metadata, _idempotency, _expired
          up, opened, sweeping, \* process running; store built; sweeper started
          owned,     \* claimed files some job will remove
          pc, op,    \* the call in progress
          clock, crashes, faults,
          given,     \* history: takes answered with the share
          refused,   \* history: shares a take called expired
          stuck,     \* history: files that could not be unlinked
          unread     \* history: shares whose sidecar a start could not read

memory == <<known, idem, gone>>
bounds == <<clock, crashes, faults>>
story  == <<given, refused, stuck, unread>>
vars   == <<disk, what, memory, up, opened, sweeping, owned, pc, op, bounds, story>>

Nothing == [session |-> "none", key |-> NoKey, born |-> 0]
Frame   == [session |-> "screen", key |-> NoKey, born |-> 0]
NoOp == [share |-> NoShare, session |-> "none", ask |-> Nothing, exclude |-> NoShare,
         rm |-> NoShare, strict |-> FALSE, failed |-> FALSE, next |-> "idle",
         then |-> "idle", out |-> "none", step |-> 0, now |-> 0, missed |-> {}]
OpNow == [NoOp EXCEPT !.now = clock]    \* now = time.time()

Used(s)  == what[s] # Nothing
Age(s)    == clock - what[s].born
AgeNow(s) == op.now - what[s].born
IdemKey(s) == <<what[s].session, what[s].key>>
IdemKeys == Session \X Key

Init ==
    /\ disk = [s \in Share |-> {}] /\ what = [s \in Share |-> Nothing]
    /\ known = {} /\ idem = [k \in IdemKeys |-> NoShare] /\ gone = {}
    /\ up = TRUE /\ opened = FALSE /\ sweeping = FALSE /\ owned = {}
    /\ pc = "idle" /\ op = NoOp
    /\ clock = 0 /\ crashes = 0 /\ faults = 0
    /\ given = <<>> /\ refused = {} /\ stuck = {} /\ unread = {}

Goto(l) == pc' = l
Fault == faults < MaxFaults /\ faults' = faults + 1

-----------------------------------------------------------------------------
(* _remove_locked: out of memory, then the sidecar, then the data file.     *)

Forget(s) ==
    /\ known' = known \ {s}
    /\ idem' = [k \in IdemKeys |-> IF s \in known /\ idem[k] = s THEN NoShare
                                                                 ELSE idem[k]]

Remove(o, s, strict, next) ==
    /\ Forget(s)
    /\ op' = [o EXCEPT !.rm = s, !.strict = strict, !.next = next]
    /\ Goto("unlink_side")

\* One file; a strict removal remembers the failure and goes on.
Unlink(file, last) ==
    LET o == IF last THEN [op EXCEPT !.rm = NoShare] ELSE op
    IN /\ \/ /\ disk' = [disk EXCEPT ![op.rm] = @ \ {file}]
             /\ op' = o
             /\ UNCHANGED <<faults, stuck>>
          \/ /\ file \in disk[op.rm] /\ Fault
             /\ stuck' = stuck \cup {<<op.rm, file>>}
             /\ op' = [o EXCEPT !.failed = @ \/ op.strict]
             /\ UNCHANGED disk
       /\ UNCHANGED <<what, memory, up, opened, sweeping, owned, clock, crashes,
                      given, refused, unread>>

UnlinkSidecar == pc = "unlink_side" /\ Unlink("side", FALSE) /\ Goto("unlink_data")
UnlinkData    == pc = "unlink_data" /\ Unlink("data", TRUE) /\ Goto(op.next)

-----------------------------------------------------------------------------
(* _sweep_locked.                                                           *)

Sweep(o, then, exclude) ==
    /\ op' = [o EXCEPT !.then = then, !.exclude = exclude]
    /\ Goto("sweep")

Due(s) == s \in known /\ s # op.exclude /\ AgeNow(s) >= Ttl

SweepOne ==
    /\ pc = "sweep"
    /\ \E s \in Share :
          /\ Due(s)
          /\ Remove(op, s, FALSE, "sweep")
          /\ gone' = IF AgeNow(s) >= Grace THEN gone \ {s} ELSE gone \cup {s}
    /\ UNCHANGED <<disk, what, up, opened, sweeping, owned, bounds, story>>

\* No share is due: drop half-written files, and whatever outlived the grace.
Stale(s) == Used(s) /\ AgeNow(s) >= Grace
Litter(s) == IF Stale(s) THEN {"data", "side", "data.part", "side.part"}
                         ELSE {"data.part", "side.part"}
SweepRest ==
    /\ pc = "sweep" /\ ~\E s \in Share : Due(s)
    /\ LET old == {s \in Share : Stale(s) /\ disk[s] \cap {"data", "side"} # {}}
       IN /\ known' = known \ old
          /\ idem' = [k \in IdemKeys |-> IF idem[k] \in known \cap old THEN NoShare
                                         ELSE idem[k]]
          /\ gone' = {s \in gone : ~Stale(s)}
    /\ \/ disk' = [s \in Share |-> disk[s] \ Litter(s)] /\ UNCHANGED <<faults, stuck>>
       \/ \E s \in Share : \E file \in disk[s] \cap Litter(s) :
             /\ Fault /\ stuck' = stuck \cup {<<s, file>>}
             /\ disk' = [t \in Share |-> disk[t] \ (Litter(t) \
                                           (IF t = s THEN {file} ELSE {}))]
    /\ Goto(op.then)
    /\ UNCHANGED <<what, up, opened, sweeping, owned, op, clock, crashes, given, refused,
                   unread>>

\* Files whose stat fails are passed over, and all if the directory cannot be listed.
Unseen == {Share \X File} \cup {S \X {"data", "side"} : S \in SUBSET Share \ {{}}}
Seen(s, missed) == {f \in disk[s] \cap Litter(s) : <<s, f>> \notin missed}

SweepPast ==
    /\ pc = "sweep" /\ (~\E s \in Share : Due(s)) /\ Fault
    /\ \E missed \in Unseen :
          LET old == {s \in Share : Stale(s) /\ Seen(s, missed) \cap {"data", "side"} # {}}
          IN /\ known' = known \ old
             /\ idem' = [k \in IdemKeys |-> IF idem[k] \in known \cap old THEN NoShare
                                            ELSE idem[k]]
             /\ gone' = {s \in gone : ~Stale(s)}
             /\ disk' = [s \in Share |-> disk[s] \ Seen(s, missed)]
             /\ op' = [op EXCEPT !.missed = missed]
    /\ Goto(op.then)
    /\ UNCHANGED <<what, up, opened, sweeping, owned, clock, crashes, story>>

\* The last step of a call: its answer, and the lock is free.
Answer ==
    /\ pc = "answer"
    /\ refused' = IF op.out = "expired" THEN refused \cup {op.share} ELSE refused
    /\ given' = IF op.out \in {"delivered", "claimed"}
                THEN Append(given, [share |-> op.share, to |-> op.session,
                                     at |-> op.now])
                ELSE given
    /\ Goto("idle") /\ op' = NoOp
    /\ UNCHANGED <<disk, what, memory, up, opened, sweeping, owned, bounds, stuck, unread>>

-----------------------------------------------------------------------------
(* The process: first use builds the store, a kill loses everything but the *)
(* files, startup removes what no job owns any more.                        *)

\* _load_sidecars_locked; of two sidecars with one key the younger counts (ids
\* are allocated in that order).  One that cannot be read is skipped, and all are
\* if the directory cannot be listed.
Sidecars == {s \in Share : "side" \in disk[s]}
LoadedFor(k) == {s \in Sidecars : IdemKey(s) = k}
Youngest(S) == IF S = {} THEN NoShare ELSE CHOOSE s \in S : \A t \in S : t <= s
Open ==
    /\ up /\ ~opened /\ pc = "idle"
    /\ opened' = TRUE
    /\ \E skipped \in SUBSET Sidecars :
          /\ IF skipped = {} THEN UNCHANGED faults ELSE Fault
          /\ known' = Sidecars \ skipped
          /\ idem' = [k \in IdemKeys |-> Youngest(LoadedFor(k) \ skipped)]
          /\ unread' = unread \cup skipped
    /\ Sweep(OpNow, "idle", NoShare)
    /\ UNCHANGED <<disk, what, gone, up, sweeping, owned, clock, crashes, given,
                   refused, stuck>>

Crash ==
    /\ up /\ crashes < MaxCrashes
    /\ crashes' = crashes + 1
    /\ up' = FALSE /\ opened' = FALSE /\ sweeping' = FALSE
    /\ known' = {} /\ idem' = [k \in IdemKeys |-> NoShare] /\ gone' = {}
    /\ owned' = {}
    /\ Goto("idle") /\ op' = NoOp
    /\ UNCHANGED <<disk, what, clock, faults, story>>

\* cleanup_claimed_orphans, before the socket is opened.
Orphans(s) == disk[s] \cap {"claimed", "claimed.part"}
Restart ==
    /\ ~up
    /\ up' = TRUE
    /\ \/ disk' = [s \in Share |-> disk[s] \ Orphans(s)] /\ UNCHANGED <<faults, stuck>>
       \/ \E kept \in [Share -> SUBSET {"claimed", "claimed.part"}] :
             /\ Fault /\ \A s \in Share : kept[s] \subseteq disk[s]
             /\ stuck' = stuck \cup UNION {{s} \X kept[s] : s \in Share}
             /\ disk' = [s \in Share |-> (disk[s] \ Orphans(s)) \cup kept[s]]
    /\ UNCHANGED <<what, memory, opened, sweeping, owned, pc, op, clock, crashes,
                   given, refused, unread>>

\* The job that was handed a claimed file is done with it.
JobEnds(s) ==
    /\ s \in owned
    /\ owned' = owned \ {s}
    /\ \/ disk' = [disk EXCEPT ![s] = @ \ {"claimed"}] /\ UNCHANGED <<faults, stuck>>
       \/ Fault /\ stuck' = stuck \cup {<<s, "claimed">>} /\ UNCHANGED disk
    /\ UNCHANGED <<what, memory, up, opened, sweeping, pc, op, clock, crashes,
                   given, refused, unread>>

Tick ==
    /\ clock < MaxTime /\ clock' = clock + 1
    /\ UNCHANGED <<disk, what, memory, up, opened, sweeping, owned, pc, op,
                   crashes, faults, story>>

-----------------------------------------------------------------------------
(* sweep(), and put().                                                      *)

Ready == up /\ opened /\ pc = "idle"

BeginSweep ==
    /\ Ready /\ sweeping
    /\ Sweep(OpNow, "idle", NoShare)
    /\ UNCHANGED <<disk, what, memory, up, opened, sweeping, owned, bounds, story>>

BeginPut(ask) ==
    /\ Ready /\ \E s \in Share : ~Used(s)
    /\ sweeping' = TRUE
    /\ Sweep([OpNow EXCEPT !.ask = ask], "lookup", NoShare)
    /\ UNCHANGED <<disk, what, memory, up, opened, owned, bounds, story>>

AskKey == <<op.ask.session, op.ask.key>>
Keyed == IF op.ask.key = NoKey THEN NoShare ELSE idem[AskKey]
Kept(s) == s \in known /\ "data" \in disk[s]

\* A retried upload finds its share, or conflicts with it ...
FoundAlready ==
    /\ pc = "lookup" /\ Keyed # NoShare /\ Kept(Keyed)
    /\ \E out \in {"staged", "conflict"} :      \* same bytes, or not
          op' = [op EXCEPT !.share = Keyed, !.out = out]
    /\ Goto("answer")
    /\ UNCHANGED <<disk, what, memory, up, opened, sweeping, owned, bounds, story>>

\* ... or its share lost its data, and its remains are removed first.
FoundRemains ==
    /\ pc = "lookup" /\ Keyed # NoShare /\ ~Kept(Keyed)
    /\ idem' = [idem EXCEPT ![AskKey] = NoShare]
    /\ known' = known \ {Keyed}
    /\ op' = [op EXCEPT !.rm = Keyed, !.strict = FALSE, !.next = "quota"]
    /\ Goto("unlink_side")
    /\ UNCHANGED <<disk, what, gone, up, opened, sweeping, owned, bounds, story>>

NotFound ==
    /\ pc = "lookup" /\ Keyed = NoShare
    /\ Goto("quota")
    /\ UNCHANGED <<disk, what, memory, up, opened, sweeping, owned, op, bounds, story>>

\* _check_live_share_quota_locked, then a share id nobody has used.
QuotaRemains ==
    /\ pc = "quota"
    /\ \E s \in known : /\ what[s].session = op.ask.session /\ "data" \notin disk[s]
                        /\ Remove(op, s, FALSE, "quota")
    /\ UNCHANGED <<disk, what, gone, up, opened, sweeping, owned, bounds, story>>

LiveOf(session) == {s \in known : what[s].session = session}
OverQuotaLate(session) == Cardinality(LiveOf(session)) > MaxLive
OverQuota(session) == Cardinality(LiveOf(session)) >= MaxLive

Allocate ==
    /\ pc = "quota" /\ LiveOf(op.ask.session) \subseteq {s \in Share : "data" \in disk[s]}
    /\ \/ /\ OverQuota(op.ask.session)
          /\ op' = [op EXCEPT !.out = "quota"] /\ Goto("answer")
          /\ UNCHANGED what
       \/ /\ ~OverQuota(op.ask.session)
          /\ \E s \in Share :
                /\ ~Used(s) /\ \A t \in 1 .. s - 1 : Used(t)
                /\ what' = [what EXCEPT ![s] = [op.ask EXCEPT !.born = op.now]]
                /\ op' = [op EXCEPT !.share = s, !.step = 1] /\ Goto("publish")
    /\ UNCHANGED <<disk, memory, up, opened, sweeping, owned, bounds, story>>

\* _publish_locked: both files are written aside, then renamed, data first.
WrittenSidecarFirst(n, files) ==
    CASE n = 1 -> files \cup {"data.part"}
      [] n = 2 -> files \cup {"side.part"}
      [] n = 3 -> (files \ {"side.part"}) \cup {"side"}
      [] n = 4 -> (files \ {"data.part"}) \cup {"data"}
Written(n, files) ==
    CASE n = 1 -> files \cup {"data.part"}
      [] n = 2 -> files \cup {"side.part"}
      [] n = 3 -> (files \ {"data.part"}) \cup {"data"}
      [] n = 4 -> (files \ {"side.part"}) \cup {"side"}

Publish ==
    /\ pc = "publish" /\ op.step <= 4
    /\ disk' = [disk EXCEPT ![op.share] = Written(op.step, @)]
    /\ op' = [op EXCEPT !.step = @ + 1]
    /\ UNCHANGED <<what, memory, up, opened, sweeping, owned, pc, bounds, story>>

\* After a failure the rest is cleared away, but for what cannot be unlinked.
Left(s, rest) ==
    \E kept \in SUBSET (disk[s] \ rest) :
       /\ disk' = [disk EXCEPT ![s] = rest \cup kept]
       /\ stuck' = stuck \cup ({s} \X kept)

SidecarLeft(files) == files \cap {"side"}
Unpublished(files) == {}
PublishFault ==
    /\ pc = "publish" /\ Fault
    /\ Left(op.share, Unpublished(disk[op.share]))
    /\ op' = [op EXCEPT !.out = "error"] /\ Goto("answer")
    /\ UNCHANGED <<what, memory, up, opened, sweeping, owned, clock, crashes, given,
                   refused, unread>>

Published ==
    /\ pc = "publish" /\ op.step = 5
    /\ known' = known \cup {op.share}
    /\ idem' = IF op.ask.key = NoKey THEN idem ELSE [idem EXCEPT ![AskKey] = op.share]
    /\ op' = [op EXCEPT !.out = "staged"] /\ Goto("answer")
    /\ UNCHANGED <<disk, what, gone, up, opened, sweeping, owned, bounds, story>>

-----------------------------------------------------------------------------
(* take(): _read_valid_share_locked, then what the bytes are decides.       *)

\* A share unknown to this process is loaded from its sidecar.
LoadSidecar(s) ==
    IF s \in known \/ "side" \notin disk[s] THEN UNCHANGED <<known, idem>>
    ELSE /\ known' = known \cup {s}
         /\ idem' = IF what[s].key = NoKey THEN idem
                    ELSE LET c == idem[IdemKey(s)]
                         IN IF c \in known => c <= s
                            THEN [idem EXCEPT ![IdemKey(s)] = s] ELSE idem

BeginTake(s, session) ==
    LET o == [OpNow EXCEPT !.share = s, !.session = session]
    IN /\ Ready /\ what[s].session \in Session
       /\ \/ /\ s \in gone
             /\ Sweep([o EXCEPT !.out = "expired"], "answer", NoShare)
             /\ UNCHANGED <<known, idem>>
          \/ /\ s \notin gone
             /\ LoadSidecar(s)
             /\ op' = o /\ Goto("read")
       /\ UNCHANGED <<disk, what, gone, up, opened, sweeping, owned, bounds, story>>

\* The sidecar cannot be read: the share is not there, and its files are removed.
TakeUnread(s, session) ==
    /\ Ready /\ what[s].session \in Session /\ s \notin gone
    /\ s \notin known /\ "side" \in disk[s]
    /\ IF s \in unread THEN UNCHANGED faults ELSE Fault     \* still, or now
    /\ op' = [OpNow EXCEPT !.share = s, !.session = session] /\ Goto("read")
    /\ UNCHANGED <<disk, what, memory, up, opened, sweeping, owned, clock, crashes, story>>

NotThere ==
    /\ pc = "read" /\ ~Kept(op.share)
    /\ Remove([op EXCEPT !.out = "missing", !.then = "answer", !.now = clock], op.share, FALSE, "sweep")
    /\ UNCHANGED <<disk, what, gone, up, opened, sweeping, owned, bounds, story>>

ExpiredLate(s) == Age(s) >= Grace
Expired(s) == Age(s) >= Ttl
TakeExpired ==
    /\ pc = "read" /\ Kept(op.share) /\ Expired(op.share)
    /\ Remove([op EXCEPT !.out = "expired", !.then = "answer", !.now = clock], op.share, FALSE, "sweep")
    /\ gone' = IF Age(op.share) < Grace THEN gone \cup {op.share} ELSE gone
    /\ UNCHANGED <<disk, what, up, opened, sweeping, owned, bounds, story>>

TakeMismatch ==
    /\ pc = "read" /\ Kept(op.share) /\ ~Expired(op.share)
    /\ what[op.share].session # op.session
    /\ Sweep([op EXCEPT !.out = "mismatch", !.now = clock], "answer", op.share)
    /\ UNCHANGED <<disk, what, memory, up, opened, sweeping, owned, bounds, story>>

Matches == /\ pc = "read" /\ Kept(op.share) /\ ~Expired(op.share)
           /\ what[op.share].session = op.session

\* The bytes are text for the turn, or an image by declaration only ...
TakeText ==
    /\ Matches
    /\ \E out \in {"delivered", "rejected"} :
          Remove([op EXCEPT !.out = out, !.then = "answer", !.now = clock],
                 op.share, TRUE, "removed")
    /\ UNCHANGED <<disk, what, gone, up, opened, sweeping, owned, bounds, story>>

\* ... or an attachment, and os.replace out of the spool is the claim.
TakeBinary ==
    /\ Matches
    /\ disk' = [disk EXCEPT ![op.share] = (@ \ {"data"}) \cup {"claimed"}]
    /\ op' = [op EXCEPT !.out = "claimed", !.then = "answer", !.now = clock] /\ Goto("chmod")
    /\ UNCHANGED <<what, memory, up, opened, sweeping, owned, bounds, story>>

TakeFault ==
    /\ Matches /\ Fault       \* the read, or the claim itself
    /\ \/ /\ Remove([op EXCEPT !.out = "missing"], op.share, FALSE, "answer")
       \/ /\ op' = [op EXCEPT !.out = "error"] /\ Goto("answer")
          /\ UNCHANGED <<known, idem>>
    /\ UNCHANGED <<disk, what, gone, up, opened, sweeping, owned, clock, crashes, story>>

\* After the claim: chmod, then the strict removal; failing either, the
\* claimed file goes too.
Chmod ==
    /\ pc = "chmod"
    /\ Remove(op, op.share, TRUE, "removed")
    /\ UNCHANGED <<disk, what, gone, up, opened, sweeping, owned, bounds, story>>

ChmodFault ==
    /\ pc = "chmod" /\ Fault
    /\ Left(op.share, disk[op.share] \ {"claimed"})
    /\ op' = [op EXCEPT !.out = "error"] /\ Goto("answer")
    /\ UNCHANGED <<what, memory, up, opened, sweeping, owned, clock, crashes, given,
                   refused, unread>>

Compensated(s) == disk[s] \ {"claimed"}
Removed ==
    /\ pc = "removed"
    /\ \/ /\ op.failed
          /\ Left(op.share, Compensated(op.share))
          /\ op' = [op EXCEPT !.out = "error"] /\ Goto("answer")
          /\ UNCHANGED owned
       \/ /\ ~op.failed
          /\ owned' = IF op.out = "claimed" THEN owned \cup {op.share} ELSE owned
          /\ Goto("sweep")
          /\ UNCHANGED <<disk, op, stuck>>
    /\ UNCHANGED <<what, memory, up, opened, sweeping, bounds, given, refused, unread>>

-----------------------------------------------------------------------------
(* stage_claimed_bytes(): a screen frame goes to the claimed files directly. *)

BeginStage ==
    /\ Ready
    /\ Sweep(OpNow, "stage", NoShare)
    /\ UNCHANGED <<disk, what, memory, up, opened, sweeping, owned, bounds, story>>

StageWrite ==
    /\ pc = "stage"
    /\ \/ Goto("answer") /\ UNCHANGED <<disk, what, op>>      \* not an image
       \/ \E s \in Share :
             /\ ~Used(s) /\ \A t \in 1 .. s - 1 : Used(t)
             /\ what' = [what EXCEPT ![s] = [Frame EXCEPT !.born = clock]]
             /\ disk' = [disk EXCEPT ![s] = {"claimed.part"}]
             /\ op' = [op EXCEPT !.share = s] /\ Goto("staged")
    /\ UNCHANGED <<memory, up, opened, sweeping, owned, bounds, story>>

StageDone ==
    /\ pc = "staged"
    /\ \/ /\ disk' = [disk EXCEPT ![op.share] = {"claimed"}]
          /\ owned' = owned \cup {op.share}
          /\ UNCHANGED <<faults, stuck>>
       \/ /\ Fault /\ UNCHANGED owned
          /\ \E left \in {{}, {"claimed.part"}, {"claimed"}} :
                /\ disk' = [disk EXCEPT ![op.share] = left]
                /\ stuck' = stuck \cup ({op.share} \X left)
    /\ Goto("answer")
    /\ UNCHANGED <<what, memory, up, opened, sweeping, op, clock, crashes, given,
                   refused, unread>>

-----------------------------------------------------------------------------
Asks == [session : Session, key : Key \cup {NoKey}, born : {0}]

Call ==
    \/ \E ask \in Asks : BeginPut(ask)
    \/ \E s \in Share, session \in Session :
          BeginTake(s, session) \/ TakeUnread(s, session)
    \/ BeginSweep \/ BeginStage

Proceed ==
    \/ UnlinkSidecar \/ UnlinkData \/ SweepOne \/ SweepRest \/ SweepPast \/ Answer
    \/ FoundAlready \/ FoundRemains \/ NotFound \/ QuotaRemains \/ Allocate
    \/ Publish \/ PublishFault \/ Published
    \/ NotThere \/ TakeExpired \/ TakeMismatch \/ TakeText \/ TakeBinary
    \/ TakeFault \/ Chmod \/ ChmodFault \/ Removed
    \/ StageWrite \/ StageDone

Next ==
    \/ Open \/ Call \/ Proceed
    \/ Crash \/ Restart \/ Tick
    \/ \E s \in Share : JobEnds(s)

Spec == Init /\ [][Next]_vars
-----------------------------------------------------------------------------
(* Properties.                                                              *)

What == [session : Session \cup {"none", "screen"}, key : Key \cup {NoKey},
         born : 0 .. MaxTime]
Labels == {"idle", "unlink_side", "unlink_data", "sweep", "answer", "lookup", "quota",
           "publish", "read", "chmod", "removed", "stage", "staged"}

\* Every variable has its type, and a sidecar, even one found after a kill, was
\* published after its data.
TypeOK ==
    /\ disk \in [Share -> SUBSET File] /\ what \in [Share -> What]
    /\ known \cup gone \cup owned \cup refused \subseteq Share
    /\ stuck \subseteq Share \X File
    /\ idem \in [IdemKeys -> Share \cup {NoShare}]
    /\ {up, opened, sweeping} \subseteq BOOLEAN /\ pc \in Labels
    /\ clock \in 0 .. MaxTime /\ crashes \in 0 .. MaxCrashes
    /\ faults \in 0 .. MaxFaults
    /\ \A s \in Share : "side" \in disk[s] => "data.part" \notin disk[s]

\* A share is handed out at most once, to the session it was staged for, before
\* it expires, and never once a request was told it had expired: through kills,
\* restarts that reload the spool, and a failing file operation.
DeliveredAsStaged ==
    \A i \in 1 .. Len(given) :
        LET g == given[i]
        IN /\ g.to = what[g.share].session
           /\ g.at - what[g.share].born < Ttl
           /\ g.share \notin refused
           /\ \A j \in 1 .. i - 1 : given[j].share # g.share

Idle == up /\ opened /\ pc = "idle"

\* A share gone astray may be on disk while memory does not know it, and come back
\* when a take names it: its two files could not be unlinked, or a start could not
\* read its sidecar.
Astray(s) == s \in unread \/ {<<s, "side">>, <<s, "data">>} \subseteq stuck

\* A session's retried upload never leaves two live shares under one key, and
\* the next retry finds the one there is, also after a restart; a share gone astray
\* is found or not.
OneSharePerKey ==
    Idle => \A s \in Share : Kept(s) /\ what[s].key # NoKey /\ ~Astray(s)
                             => idem[IdemKey(s)] = s

\* No session holds more than its quota of live shares, those gone astray apart.
QuotaHeld ==
    \A session \in Session :
        Cardinality({s \in LiveOf(session) : "data" \in disk[s] /\ ~Astray(s)}) <= MaxLive

\* What a restart would load is what this process knows: nothing it promised is
\* lost, nothing it answered or dropped comes back, but for a sidecar that could not
\* be unlinked; and it knows all that is there, but for one it could not read.
RestartIsTransparent ==
    Idle => \A s \in Share : <<s, "side">> \notin stuck =>
        /\ s \in known => s \in Sidecars
        /\ s \in Sidecars => s \in known \cup unread

\* Between calls every claimed file belongs to a job that will remove it, and a
\* running job's file is there: failures and kills leave no orphan behind.
ClaimedIsOwned ==
    up /\ pc = "idle" => \A s \in Share :
        s \in owned <=> {f \in disk[s] \cap {"claimed", "claimed.part"} :
                            <<s, f>> \notin stuck} # {}

\* A sweep leaves no half-written file, no expired share that a restart could
\* load, and nothing at all, on disk or in memory, older than the grace,
\* whatever kills left behind (the put that ran it has not written yet), but for a
\* file that it could not see or unlink, or whose sidecar was never read.
SweptClean ==
    pc = "lookup" => \A s \in Share :
        LET left == {f \in disk[s] : <<s, f>> \notin stuck \cup op.missed}
        IN /\ left \cap {"data.part", "side.part"} = {}
           /\ Used(s) /\ AgeNow(s) >= Ttl => s \notin known /\ ("side" \in left => s \in unread)
           /\ Stale(s) => s \notin gone /\ left \cap {"data", "side"} = {}

\* A share goes once to the session it was staged for, one share under one key,
\* and while a turn has it its file has an owner that removes it.
DeliveredOnce == DeliveredAsStaged /\ OneSharePerKey /\ ClaimedIsOwned

\* Kills, failing file operations and restarts neither bring back nor lose a
\* share, and the sweep clears whatever they left.
SurvivesRestart == RestartIsTransparent /\ SweptClean
=============================================================================
