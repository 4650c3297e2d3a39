---------------------------- MODULE PairingStore ----------------------------
(***************************************************************************)
(* The disk-authoritative pairing store of caty_gateway/pairing_store.py.  *)
(*                                                                         *)
(* One directory per member holds <pid>.json records, <pid>.json.part      *)
(* temporaries and <pid>.tombstone files.  Every mutation happens under    *)
(* one flock; claims also read tombstone and record WITHOUT it first.      *)
(* The resident server (several threads) and the QR command (a process of  *)
(* its own) share the directory, and a process may be killed between any   *)
(* two file operations: its lock is released by the kernel, its files      *)
(* stay.                                                                   *)
(*                                                                         *)
(* A step is one file operation that another process can observe; reads    *)
(* made under the lock are part of the step that acts on them.  A secret   *)
(* is the ordinal of its issue (the digest comparison is injective); 0     *)
(* stands for a wrong guess.                                               *)
(***************************************************************************)
EXTENDS Integers, FiniteSets

CONSTANTS Proc,         \* operating-system processes sharing the directory
          Server,       \* those that serve requests; the others only issue (QR)
          Actor,        \* their threads
          ProcOf,       \* the process of each thread
          Pid,          \* 8-hex-digit record names (reused once free)
          NoActor, NoPid,
          Ttl,          \* PairingConfig.ttl_seconds
          MaxFailures,  \* PairingConfig.max_failures
          Lockout,      \* PairingConfig.lockout_seconds
          MaxFailTotal, \* PairingConfig.max_fail_total
          Grace,        \* TOMBSTONE_GRACE_SECONDS
          MaxTime,      \* bound: clock readings 0..MaxTime
          MaxIssues,    \* bound: secrets ever minted
          MaxFaults,    \* bound: failing file operations
          MaxCrashes    \* bound: killed processes

ASSUME ConstantsOK ==
    /\ ProcOf \in [Actor -> Proc] /\ Server \subseteq Proc
    /\ NoActor \notin Actor /\ NoPid \notin Pid
    /\ IsFiniteSet(Pid) /\ Pid # {}
    /\ {Ttl, MaxFailures, Lockout, MaxFailTotal} \subseteq Nat \ {0}
    /\ {Grace, MaxTime, MaxIssues, MaxFaults, MaxCrashes} \subseteq Nat

VARIABLES rec,      \* [Pid -> record file]
          part,     \* [Pid -> .json.part temporary]
          tomb,     \* [Pid -> tombstone file]
          lock,     \* holder of .lockf
          up,       \* [Proc -> down / starting / up]
          pc, loc,  \* per thread: where it is, and its locals
          answer,   \* per thread: outcome of its latest call
          clock,
          issues, pidOf, \* secrets minted so far, and the pid of each
          shown,    \* secrets an issue has returned, hence known to clients
          grants,   \* per secret: claims answered with the credential
          misses,   \* per secret: wrong guesses answered "invalid"
          faults, crashes

disk   == <<rec, part, tomb>>
thread == <<pc, loc, answer>>
ghost  == <<grants, misses>>
world  == <<clock, issues, pidOf, shown, faults, crashes>>
vars   == <<rec, part, tomb, lock, up, pc, loc, answer, clock, issues, pidOf,
            shown, grants, misses, faults, crashes>>

Secret == 1 .. MaxIssues
Time   == 0 .. MaxTime

-----------------------------------------------------------------------------
(* Files.  A file created O_EXCL exists "torn" until its contents are       *)
(* written; every reader treats a torn file as absent, lexists() does not.  *)

Full(s, created, count, total, until) ==
    [kind |-> "full", secret |-> s, created |-> created,
     count |-> count, total |-> total, until |-> until]
NoRec == [Full(0, 0, 0, 0, 0) EXCEPT !.kind = "absent"]
Torn  == [Full(0, 0, 0, 0, 0) EXCEPT !.kind = "torn"]
Tomb(kind, state, exp) == [kind |-> kind, state |-> state, exp |-> exp]
NoTomb   == Tomb("absent", "none", 0)
TornTomb == Tomb("torn", "none", 0)

Valid(r)  == r.kind = "full"
ExpiryBackwards(r) == r.created - Ttl
Expiry(r) == r.created + Ttl
Records   == {p \in Pid : rec[p].kind # "absent"}
LiveRecords == {p \in Pid : Valid(rec[p])}

\* The locals of a thread running op.
Local(op, pid, s, enforce, now) ==
    [op |-> op, pid |-> pid, secret |-> s, enforce |-> enforce, now |-> now,
     todo |-> {}, skip |-> {}, state |-> "none", exp |-> 0]
NoLocal == Local("none", NoPid, 0, FALSE, 0)

\* _FileLock: the seven critical sections, by the state that waits for each.
Critical == [w_expire |-> "x_expire", w_fail |-> "x_fail",
             w_claim |-> "x_claim", w_issue |-> "x_issue",
             w_revoke |-> "x_revoke", w_sweep |-> "x_sweep",
             w_start |-> "x_start"]
Waiting == DOMAIN Critical
Holding == {Critical[w] : w \in Waiting} \cup
           {"f_replace", "t_create", "t_fill", "c_return", "i_fill", "remove",
            "sweep"}
PCs == {"idle", "c_tomb", "c_read"} \cup Waiting \cup Holding

Init ==
    /\ rec = [p \in Pid |-> NoRec]
    /\ part = [p \in Pid |-> NoRec]
    /\ tomb = [p \in Pid |-> NoTomb]
    /\ lock = NoActor
    /\ up = [c \in Proc |-> "up"]
    /\ pc = [a \in Actor |-> "idle"]
    /\ loc = [a \in Actor |-> NoLocal]
    /\ answer = [a \in Actor |-> "none"]
    /\ clock = 0
    /\ issues = 0
    /\ pidOf = [s \in Secret |-> NoPid]
    /\ shown = {}
    /\ grants = [s \in Secret |-> 0]
    /\ misses = [s \in Secret |-> 0]
    /\ faults = 0
    /\ crashes = 0

-----------------------------------------------------------------------------
(* Control moves of one thread.                                             *)

Goto(a, label, l) ==
    /\ pc' = [pc EXCEPT ![a] = label]
    /\ loc' = [loc EXCEPT ![a] = l]
    /\ UNCHANGED <<answer, lock, up>>

LockFreeAlways == TRUE
LockFree == lock = NoActor

\* The call returns or raises: the with-statement releases the flock, and a
\* store whose constructor raised is never used.
Finish(a, result) ==
    /\ pc' = [pc EXCEPT ![a] = "idle"]
    /\ loc' = [loc EXCEPT ![a] = NoLocal]
    /\ answer' = [answer EXCEPT ![a] = result]
    /\ lock' = IF lock = a THEN NoActor ELSE lock
    /\ up' = IF loc[a].op = "start"
             THEN [up EXCEPT ![ProcOf[a]] =
                       IF result = "Started" THEN "up" ELSE "down"]
             ELSE up

\* _raise_for_tombstone: the outcome a complete tombstone stands for.
TombAnswer(p) == IF tomb[p].state = "consumed" THEN "Consumed" ELSE "Expired"
\* ... or, when there is none, the PairingInvalid that follows it.
GoneAnswer(p) == IF Valid(tomb[p]) THEN TombAnswer(p) ELSE "Invalid"

Begin(a, label, l) ==
    /\ pc[a] = "idle" /\ up[ProcOf[a]] = "up"
    /\ pc' = [pc EXCEPT ![a] = label]
    /\ loc' = [loc EXCEPT ![a] = l]
    /\ answer' = [answer EXCEPT ![a] = "none"]
    /\ UNCHANGED <<lock, up>>

Fault == faults < MaxFaults /\ faults' = faults + 1

\* _file_lock().__enter__: polled until LOCK_WAIT_SECONDS have passed.
Acquire(a) ==
    /\ pc[a] \in Waiting /\ LockFree
    /\ lock' = a
    /\ pc' = [pc EXCEPT ![a] = Critical[pc[a]]]
    /\ UNCHANGED <<disk, up, loc, answer, ghost, world>>

LockTimeout(a) ==
    /\ pc[a] \in Waiting /\ ~LockFree
    /\ Finish(a, "Unavailable")
    /\ UNCHANGED <<disk, ghost, world>>

-----------------------------------------------------------------------------
(* claim(): two unlocked reads, then one of three critical sections.        *)

BeginClaim(a) ==
    /\ ProcOf[a] \in Server
    /\ \E p \in Pid, e \in BOOLEAN,
          s \in {0} \cup {s \in shown : pidOf[s] \in Pid} :
          /\ s # 0 => pidOf[s] = p
          /\ Begin(a, "c_tomb", Local("claim", p, s, e, clock))
    /\ UNCHANGED <<disk, ghost, world>>

CheckTombstone(a) ==
    /\ pc[a] = "c_tomb"
    /\ \/ /\ Valid(tomb[loc[a].pid])
          /\ Finish(a, TombAnswer(loc[a].pid))
       \/ /\ ~Valid(tomb[loc[a].pid])
          /\ Goto(a, "c_read", loc[a])
    /\ UNCHANGED <<disk, ghost, world>>

CheckRecord(a) ==
    LET l == loc[a]
        r == rec[l.pid]
    IN /\ pc[a] = "c_read"
       /\ \/ ~Valid(r) /\ Finish(a, "Invalid")
          \/ Valid(r) /\ l.now >= Expiry(r) /\ Goto(a, "w_expire", l)
          \/ /\ Valid(r) /\ l.now < Expiry(r)
             /\ \/ r.until > l.now /\ Finish(a, "RateLimited")
                \/ /\ r.until <= l.now
                   /\ Goto(a, IF r.secret = l.secret THEN "w_claim"
                                                     ELSE "w_fail", l)
       /\ UNCHANGED <<disk, ghost, world>>

\* The unlink that precedes every tombstone: the record is gone, what the
\* tombstone will say is in the locals l.
UnlinkFor(a, l, p, state) ==
    /\ rec' = [rec EXCEPT ![p] = NoRec]
    /\ Goto(a, "t_create", [l EXCEPT !.pid = p, !.state = state,
                                     !.exp = Expiry(rec[p])])

\* claim(), expired on the unlocked read: re-read under the lock.
ExpireUnderLock(a) ==
    LET l == loc[a]
        r == rec[l.pid]
    IN /\ pc[a] = "x_expire"
       /\ \/ /\ Valid(r) /\ l.now >= Expiry(r)
             /\ UnlinkFor(a, l, l.pid, "expired")
          \/ /\ Valid(r) /\ l.now < Expiry(r)
             /\ Finish(a, "Invalid") /\ UNCHANGED rec
          \/ ~Valid(r) /\ Finish(a, GoneAnswer(l.pid)) /\ UNCHANGED rec
       /\ UNCHANGED <<part, tomb, ghost, world>>

\* claim(), digest matched on the unlocked read: the final re-read.  (Its
\* "expired" branch needs a clock that runs backwards and is not modelled: a
\* record that replaced the one first read was created after l.now.)
RecheckNoLockout(l) ==
    IF Valid(tomb[l.pid]) THEN TombAnswer(l.pid)
    ELSE IF Valid(rec[l.pid]) /\ rec[l.pid].secret = l.secret THEN "consume"
    ELSE "Invalid"
Recheck(l) ==
    IF Valid(tomb[l.pid]) THEN TombAnswer(l.pid)
    ELSE IF ~Valid(rec[l.pid]) THEN "Invalid"
    ELSE IF rec[l.pid].until > l.now THEN "RateLimited"
    ELSE IF rec[l.pid].secret # l.secret THEN "Invalid" ELSE "consume"

ConsumeUnderLock(a) ==
    LET l == loc[a]
    IN /\ pc[a] = "x_claim"
       /\ \/ Recheck(l) = "consume" /\ UnlinkFor(a, l, l.pid, "consumed")
          \/ /\ Recheck(l) # "consume"
             /\ Finish(a, Recheck(l)) /\ UNCHANGED rec
       /\ UNCHANGED <<part, tomb, ghost, world>>

\* _write_tombstone: O_EXCL create, then write and fsync.  It never finds an
\* old tombstone (RecordXorTombstone), so the conflict branch has no step.
CreateTombstone(a) ==
    /\ pc[a] = "t_create"
    /\ tomb' = [tomb EXCEPT ![loc[a].pid] = TornTomb]
    /\ Goto(a, "t_fill", loc[a])
    /\ UNCHANGED <<rec, part, ghost, world>>

FillTombstone(a) ==
    LET l == loc[a]
    IN /\ pc[a] = "t_fill"
       /\ tomb' = [tomb EXCEPT ![l.pid] = Tomb("full", l.state, l.exp)]
       /\ \/ /\ l.op = "sweep"
             /\ Goto(a, "sweep", [l EXCEPT !.pid = NoPid, !.state = "none",
                                           !.exp = 0])
          \/ /\ l.op = "claim" /\ l.state = "expired"
             /\ Finish(a, "Expired")
          \/ /\ l.op = "claim" /\ l.state = "consumed"
             /\ Goto(a, "c_return", l)
       /\ UNCHANGED <<rec, part, ghost, world>>

\* The credential leaves the store: "at most once" counts these.
ReturnCredential(a) ==
    /\ pc[a] = "c_return"
    /\ grants' = [grants EXCEPT ![loc[a].secret] = @ + 1]
    /\ Finish(a, "Granted")
    /\ UNCHANGED <<disk, misses, world>>

\* The credential was withdrawn since the claim looked for it first: the secret is
\* spent and has bought nothing.
ReturnFault(a) ==
    /\ pc[a] = "c_return"
    /\ Fault
    /\ Finish(a, "Unavailable")
    /\ UNCHANGED <<disk, ghost, clock, issues, pidOf, shown, crashes>>

\* The disk refuses the tombstone, or only its fsync or chmod when it is already
\* complete: the record is gone.
TombstoneFault(a) ==
    LET l == loc[a]
    IN /\ pc[a] \in {"t_create", "t_fill"}
       /\ Fault
       /\ Finish(a, "Unavailable")
       /\ \/ UNCHANGED tomb
          \/ /\ pc[a] = "t_fill"
             /\ tomb' = [tomb EXCEPT ![l.pid] = Tomb("full", l.state, l.exp)]
       /\ UNCHANGED <<rec, part, ghost, clock, issues, pidOf, shown, crashes>>

\* The unlink itself fails, or there is no credential to give: nothing has
\* changed yet.
UnlinkFault(a) ==
    LET l == loc[a]
        r == rec[l.pid]
    IN /\ \/ pc[a] = "x_expire" /\ Valid(r) /\ l.now >= Expiry(r)
          \/ pc[a] = "x_claim" /\ Recheck(l) = "consume"
          \/ /\ pc[a] = "x_fail" /\ Valid(r) /\ r.until <= l.now
             /\ l.enforce /\ r.total + 1 >= MaxFailTotal
       /\ Fault
       /\ Finish(a, "Unavailable")
       /\ UNCHANGED <<disk, ghost, clock, issues, pidOf, shown, crashes>>

-----------------------------------------------------------------------------
(* _record_failure() and _replace_record().                                 *)

\* The counters after one more miss, for a claim that read the clock at now and
\* found no lockout in force (a past one starts the count again).
BumpedWithTotalReset(r, now) ==
    LET count == (IF r.until > 0 THEN 0 ELSE r.count) + 1
    IN Full(r.secret, r.created, count, count,
            IF count >= MaxFailures THEN now + Lockout ELSE 0)
Bumped(r, now) ==
    LET count == (IF r.until > 0 THEN 0 ELSE r.count) + 1
    IN Full(r.secret, r.created, count, r.total + 1,
            IF count >= MaxFailures THEN now + Lockout ELSE 0)

Miss(p) == misses' = [misses EXCEPT ![rec[p].secret] = @ + 1]

FailUnderLock(a) ==
    LET l == loc[a]
        r == rec[l.pid]
    IN /\ pc[a] = "x_fail"
       /\ \/ /\ ~Valid(r) /\ Finish(a, "Invalid")
             /\ UNCHANGED <<rec, part, misses>>
          \/ /\ Valid(r) /\ r.until > l.now /\ Finish(a, "RateLimited")
             /\ UNCHANGED <<rec, part, misses>>
          \/ /\ Valid(r) /\ r.until <= l.now
             /\ l.enforce /\ r.total + 1 >= MaxFailTotal
             /\ rec' = [rec EXCEPT ![l.pid] = NoRec]
             /\ Miss(l.pid)
             /\ Finish(a, "Invalid")
             /\ UNCHANGED part
          \/ /\ Valid(r) /\ r.until <= l.now
             /\ ~(l.enforce /\ r.total + 1 >= MaxFailTotal)
             /\ \/ /\ part[l.pid] # NoRec    \* a crash left its temporary
                   /\ part' = [part EXCEPT ![l.pid] = NoRec]
                   /\ Miss(l.pid)
                   /\ Finish(a, "Invalid")
                \/ /\ part[l.pid] = NoRec
                   /\ part' = [part EXCEPT ![l.pid] = Bumped(r, l.now)]
                   /\ Goto(a, "f_replace", l)
                   /\ UNCHANGED misses
             /\ UNCHANGED rec
       /\ UNCHANGED <<tomb, grants, world>>

ReplacePart(a) ==
    LET p == loc[a].pid
    IN /\ pc[a] = "f_replace"
       /\ rec' = [rec EXCEPT ![p] = part[p]]
       /\ part' = [part EXCEPT ![p] = NoRec]
       /\ Miss(p)
       /\ Finish(a, "Invalid")
       /\ UNCHANGED <<tomb, grants, world>>

\* The write or the rename fails, and perhaps the unlink of the temporary too; or
\* the unlink of one that a crash left.
ReplaceFault(a) ==
    LET p == loc[a].pid
    IN /\ \/ pc[a] = "f_replace"
          \/ /\ pc[a] = "x_fail" /\ Valid(rec[p]) /\ rec[p].until <= loc[a].now
             /\ part[p] # NoRec
       /\ Fault
       /\ \/ pc[a] = "f_replace" /\ part' = [part EXCEPT ![p] = NoRec]
          \/ UNCHANGED part
       /\ Miss(p)
       /\ Finish(a, "Invalid")
       /\ UNCHANGED <<rec, tomb, grants, clock, issues, pidOf, shown, crashes>>

\* Only the chmod fails, after the rename.
ReplacedFault(a) ==
    LET p == loc[a].pid
    IN /\ pc[a] = "f_replace"
       /\ Fault
       /\ rec' = [rec EXCEPT ![p] = part[p]]
       /\ part' = [part EXCEPT ![p] = NoRec]
       /\ Miss(p)
       /\ Finish(a, "Invalid")
       /\ UNCHANGED <<tomb, grants, clock, issues, pidOf, shown, crashes>>

\* A record that cannot be read is as good as absent to a claim (one that waits
\* to count a wrong guess does not count it), and a tombstone likewise.
ReadFault(a) ==
    LET l == loc[a]
    IN /\ Fault
       /\ \/ /\ pc[a] = "c_tomb" /\ Valid(tomb[l.pid])
             /\ Goto(a, "c_read", l) /\ UNCHANGED misses
          \/ /\ pc[a] \in {"c_read", "x_expire", "x_claim"} /\ Valid(rec[l.pid])
             /\ Finish(a, "Invalid") /\ UNCHANGED misses
          \/ /\ pc[a] = "x_fail" /\ Valid(rec[l.pid])
             /\ Finish(a, "Invalid") /\ Miss(l.pid)
       /\ UNCHANGED <<disk, grants, clock, issues, pidOf, shown, crashes>>

-----------------------------------------------------------------------------
(* issue(): allocate a free pid, write the new record, then remove the      *)
(* others one by one.  The secret is minted when the call begins.           *)

BeginIssue(a) ==
    /\ issues < MaxIssues
    /\ issues' = issues + 1
    /\ Begin(a, "w_issue", Local("issue", NoPid, issues + 1, FALSE, 0))
    /\ UNCHANGED <<disk, ghost, clock, pidOf, shown, faults, crashes>>

FreePids == {p \in Pid : /\ rec[p].kind = "absent"
                         /\ tomb[p].kind = "absent"
                         /\ part[p].kind = "absent"}

AllocateRecord(a) ==
    /\ pc[a] = "x_issue"
    /\ \E p \in FreePids :
          /\ rec' = [rec EXCEPT ![p] = Torn]
          /\ pidOf' = [pidOf EXCEPT ![loc[a].secret] = p]
          /\ Goto(a, "i_fill", [loc[a] EXCEPT !.pid = p, !.now = clock])
    /\ UNCHANGED <<part, tomb, ghost, clock, issues, shown, faults, crashes>>

\* Every candidate name collided.
NoFreePid(a) ==
    /\ pc[a] = "x_issue" /\ FreePids = {}
    /\ Finish(a, "Unavailable")
    /\ UNCHANGED <<disk, ghost, world>>

\* _revoke_records_except: what one directory listing gives it to unlink.
OtherLiveRecords(keep) == {"rec"} \X (LiveRecords \ {keep})
OtherRecords(keep) == {"rec"} \X (Records \ {keep})

FillRecord(a) ==
    LET l == loc[a]
    IN /\ pc[a] = "i_fill"
       /\ rec' = [rec EXCEPT ![l.pid] = Full(l.secret, l.now, 0, 0, 0)]
       /\ Goto(a, "remove", [l EXCEPT !.todo = OtherRecords(l.pid)])
       /\ UNCHANGED <<part, tomb, ghost, world>>

\* The write or a later unlink fails: the new record is taken back, unless that
\* fails too.
IssueFault(a) ==
    /\ pc[a] \in {"i_fill", "remove"} /\ loc[a].op = "issue"
    /\ pc[a] = "remove" => loc[a].todo # {}
    /\ Fault
    /\ \/ rec' = [rec EXCEPT ![loc[a].pid] = NoRec]
       \/ UNCHANGED rec
    /\ Finish(a, "Unavailable")
    /\ UNCHANGED <<part, tomb, ghost, clock, issues, pidOf, shown, crashes>>

\* The record is complete when its fsync or chmod fails, and cannot be taken back:
\* nobody is told its secret.
FillFault(a) ==
    LET l == loc[a]
    IN /\ pc[a] = "i_fill"
       /\ Fault
       /\ rec' = [rec EXCEPT ![l.pid] = Full(l.secret, l.now, 0, 0, 0)]
       /\ Finish(a, "Unavailable")
       /\ UNCHANGED <<part, tomb, ghost, clock, issues, pidOf, shown, crashes>>

-----------------------------------------------------------------------------
(* revoke() and the duplicate removal of __init__.                          *)

BeginRevoke(a) ==
    /\ ProcOf[a] \in Server
    /\ Begin(a, "w_revoke", Local("revoke", NoPid, 0, FALSE, 0))
    /\ UNCHANGED <<disk, ghost, world>>

RevokeScan(a) ==
    /\ pc[a] = "x_revoke"
    /\ Goto(a, "remove", [loc[a] EXCEPT !.todo = OtherRecords(NoPid)])
    /\ UNCHANGED <<disk, ghost, world>>

\* _load_startup_records: keep one complete record with the newest
\* created_at, leave alone what is torn.
KeepNewest(a, skip) ==
    \/ /\ LiveRecords \subseteq skip
       /\ Goto(a, "remove", [loc[a] EXCEPT !.todo = {}, !.skip = skip])
    \/ \E n \in LiveRecords \ skip :
          /\ \A q \in LiveRecords \ skip : rec[q].created <= rec[n].created
          /\ Goto(a, "remove",
                  [loc[a] EXCEPT !.todo = {"rec"} \X ((LiveRecords \ skip) \ {n}),
                                 !.skip = skip])
StartupScan(a) ==
    /\ pc[a] = "x_start"
    /\ KeepNewest(a, {})
    /\ UNCHANGED <<disk, ghost, world>>

RemoveNext(a) ==
    /\ pc[a] = "remove"
    /\ \E f \in loc[a].todo :
          /\ rec' = [rec EXCEPT ![f[2]] = NoRec]
          /\ Goto(a, "remove", [loc[a] EXCEPT !.todo = @ \ {f}])
    /\ UNCHANGED <<part, tomb, ghost, world>>

RemoveDone(a) ==
    /\ pc[a] = "remove" /\ loc[a].todo = {}
    /\ \/ /\ loc[a].op = "issue"
          /\ shown' = shown \cup {loc[a].secret}
          /\ Finish(a, "Issued")
       \/ /\ loc[a].op = "revoke"
          /\ UNCHANGED shown
          /\ Finish(a, "Revoked")
       \/ /\ loc[a].op = "start"
          /\ UNCHANGED shown
          /\ Finish(a, "Started")
    /\ UNCHANGED <<disk, ghost, clock, issues, pidOf, faults, crashes>>

RemoveFault(a) ==
    /\ pc[a] = "remove" /\ loc[a].op # "issue" /\ loc[a].todo # {}
    /\ Fault
    /\ Finish(a, "Unavailable")
    /\ UNCHANGED <<disk, ghost, clock, issues, pidOf, shown, crashes>>

-----------------------------------------------------------------------------
(* sweep(): temporaries, expired records, aged tombstones, in any order.    *)

BeginSweep(a) ==
    /\ ProcOf[a] \in Server
    /\ Begin(a, "w_sweep", Local("sweep", NoPid, 0, FALSE, 0))
    /\ UNCHANGED <<disk, ghost, world>>

SweepDue(skip) ==
    ({"part"} \X {p \in Pid : part[p].kind # "absent"}) \cup
    ({"rec"} \X {p \in LiveRecords \ skip : clock >= Expiry(rec[p])}) \cup
    ({"tomb"} \X {p \in Pid \ skip : /\ Valid(tomb[p])
                                     /\ clock >= tomb[p].exp + Grace})
SweepScan(a) ==
    /\ pc[a] = "x_sweep"
    /\ Goto(a, "sweep", [loc[a] EXCEPT !.todo = SweepDue({})])
    /\ UNCHANGED <<disk, ghost, world>>

\* What a startup or a sweep cannot read it leaves where it is.
ScanFault(a) ==
    /\ Fault
    /\ \E skip \in SUBSET Pid :
          \/ /\ pc[a] = "x_start" /\ skip \subseteq LiveRecords
             /\ KeepNewest(a, skip)
          \/ /\ pc[a] = "x_sweep"
             /\ Goto(a, "sweep", [loc[a] EXCEPT !.todo = SweepDue(skip)])
    /\ UNCHANGED <<disk, ghost, clock, issues, pidOf, shown, crashes>>

SweepNext(a) ==
    /\ pc[a] = "sweep"
    /\ \E f \in loc[a].todo :
          LET p == f[2]
              l == [loc[a] EXCEPT !.todo = @ \ {f}]
          IN \/ /\ f[1] = "part"
                /\ part' = [part EXCEPT ![p] = NoRec]
                /\ Goto(a, "sweep", l)
                /\ UNCHANGED <<rec, tomb>>
             \/ /\ f[1] = "tomb"
                /\ tomb' = [tomb EXCEPT ![p] = NoTomb]
                /\ Goto(a, "sweep", l)
                /\ UNCHANGED <<rec, part>>
             \/ /\ f[1] = "rec"
                /\ UnlinkFor(a, l, p, "expired")
                /\ UNCHANGED <<part, tomb>>
    /\ UNCHANGED <<ghost, world>>

SweepDone(a) ==
    /\ pc[a] = "sweep" /\ loc[a].todo = {}
    /\ Finish(a, "Swept")
    /\ UNCHANGED <<disk, ghost, world>>

\* One unlink fails: the whole pass is abandoned until the next.
SweepFault(a) ==
    /\ pc[a] = "sweep" /\ loc[a].todo # {}
    /\ Fault
    /\ Finish(a, "Unavailable")
    /\ UNCHANGED <<disk, ghost, clock, issues, pidOf, shown, crashes>>

-----------------------------------------------------------------------------
(* Processes and time.                                                      *)

Crash(c) ==
    LET mine == {a \in Actor : ProcOf[a] = c}
    IN /\ up[c] # "down" /\ crashes < MaxCrashes
       /\ crashes' = crashes + 1
       /\ up' = [up EXCEPT ![c] = "down"]
       /\ pc' = [a \in Actor |-> IF a \in mine THEN "idle" ELSE pc[a]]
       /\ loc' = [a \in Actor |-> IF a \in mine THEN NoLocal ELSE loc[a]]
       /\ answer' = [a \in Actor |-> IF a \in mine THEN "none" ELSE answer[a]]
       /\ lock' = IF lock \in mine THEN NoActor ELSE lock
       /\ UNCHANGED <<disk, ghost, clock, issues, pidOf, shown, faults>>

\* PairingStore.__init__ in a new process.
Restart(a) ==
    /\ pc[a] = "idle" /\ up[ProcOf[a]] = "down"
    /\ up' = [up EXCEPT ![ProcOf[a]] = "starting"]
    /\ pc' = [pc EXCEPT ![a] = "w_start"]
    /\ loc' = [loc EXCEPT ![a] = Local("start", NoPid, 0, FALSE, 0)]
    /\ answer' = [answer EXCEPT ![a] = "none"]
    /\ UNCHANGED <<disk, ghost, world, lock>>

Tick ==
    /\ clock < MaxTime
    /\ clock' = clock + 1
    /\ UNCHANGED <<disk, lock, up, thread, ghost, issues, pidOf, shown,
                   faults, crashes>>

\* What a thread inside a call does next; it is never left waiting.
Step(a) ==
    \/ Acquire(a) \/ LockTimeout(a)
    \/ CheckTombstone(a) \/ CheckRecord(a)
    \/ ExpireUnderLock(a) \/ ConsumeUnderLock(a) \/ FailUnderLock(a)
    \/ CreateTombstone(a) \/ FillTombstone(a) \/ ReturnCredential(a)
    \/ ReplacePart(a)
    \/ AllocateRecord(a) \/ NoFreePid(a) \/ FillRecord(a)
    \/ RevokeScan(a) \/ StartupScan(a) \/ RemoveNext(a) \/ RemoveDone(a)
    \/ SweepScan(a) \/ SweepNext(a) \/ SweepDone(a)

BeginCall(a) == BeginClaim(a) \/ BeginIssue(a) \/ BeginRevoke(a) \/ BeginSweep(a)

DiskFault(a) ==
    \/ ReadFault(a) \/ ScanFault(a) \/ UnlinkFault(a) \/ TombstoneFault(a) \/ ReturnFault(a)
    \/ ReplaceFault(a) \/ ReplacedFault(a) \/ FillFault(a) \/ IssueFault(a)
    \/ RemoveFault(a) \/ SweepFault(a)

Next ==
    \/ \E a \in Actor : Step(a) \/ BeginCall(a) \/ DiskFault(a) \/ Restart(a)
    \/ \E c \in Proc : Crash(c)
    \/ Tick

Spec == Init /\ [][Next]_vars

\* A running thread keeps running: flock acquisition ends by success or by
\* its deadline, and no step waits on anything else.
FairSpec == Spec /\ \A a \in Actor : WF_vars(Step(a))
-----------------------------------------------------------------------------
(* Properties.                                                              *)

RecordFile == [kind : {"absent", "torn", "full"}, secret : 0 .. MaxIssues,
               created : Time, count : Nat, total : Nat, until : Nat]
TombFile == [kind : {"absent", "torn", "full"},
             state : {"none", "consumed", "expired"}, exp : Nat]
Answers == {"none", "Granted", "Consumed", "Expired", "RateLimited", "Invalid",
            "Unavailable", "Issued", "Revoked", "Swept", "Started"}
\* The states in which a thread works on the pid in its locals.
AtPid == {"c_tomb", "c_read", "w_expire", "w_fail", "w_claim", "x_expire",
          "x_fail", "x_claim", "f_replace", "t_create", "t_fill", "c_return",
          "i_fill"}
LocalType ==
    [op : {"none", "claim", "issue", "revoke", "sweep", "start"},
     pid : Pid \cup {NoPid}, secret : 0 .. MaxIssues, enforce : BOOLEAN,
     now : Time, todo : SUBSET ({"part", "rec", "tomb"} \X Pid), skip : SUBSET Pid,
     state : {"none", "consumed", "expired"}, exp : Nat]

DiskOK ==
    /\ rec \in [Pid -> RecordFile] /\ part \in [Pid -> RecordFile]
    /\ tomb \in [Pid -> TombFile]
ThreadOK ==
    /\ pc \in [Actor -> PCs] /\ loc \in [Actor -> LocalType]
    /\ answer \in [Actor -> Answers]
    /\ \A a \in Actor : pc[a] \in AtPid => loc[a].pid \in Pid
LockOK ==
    /\ lock \in Actor \cup {NoActor}
    /\ up \in [Proc -> {"down", "starting", "up"}]
WorldOK ==
    /\ clock \in Time /\ issues \in 0 .. MaxIssues
    /\ pidOf \in [Secret -> Pid \cup {NoPid}] /\ shown \subseteq 0 .. MaxIssues
    /\ faults \in 0 .. MaxFaults /\ crashes \in 0 .. MaxCrashes
GhostOK == grants \in [Secret -> Nat] /\ misses \in [Secret -> Nat]

\* Every variable has its type, and a thread that works on a record has a pid.
TypeOK == DiskOK /\ ThreadOK /\ LockOK /\ WorldOK /\ GhostOK

\* The flock excludes: a thread is inside one of the critical sections exactly
\* when it holds the lock, so two never are, and no early return, fault or
\* kill leaves the lock behind.
LockExclusive == \A a \in Actor : pc[a] \in Holding <=> lock = a

\* A pid never has a record and a tombstone at once: a reused name, a crash
\* between unlink and tombstone or a late counter replacement cannot put a
\* spent pid back among the live ones.  (It is also why the "conflicting
\* tombstone" branch of _write_tombstone is dead.)
RecordXorTombstone ==
    \A p \in Pid : rec[p].kind = "absent" \/ tomb[p].kind = "absent"

\* "Claim is at-most-once": whatever claims, crashes, restarts, failures and
\* name reuse interleave, no secret buys the client credential twice.
AtMostOnce == \A s \in Secret : grants[s] <= 1

\* No wrong guess is forgotten: concurrent failures of one live credential are
\* all in its total, except one for each kill and two for each disk fault: the
\* guess itself, and the one that trips over the temporary it left.
GuessesCounted ==
    \A p \in LiveRecords :
        misses[rec[p].secret] <= rec[p].total + 2 * faults + crashes

\* A complete "consumed" tombstone means that somebody was given the credential
\* or is about to be, except one for each kill or fault: of the process on the
\* way, of the fsync or chmod of the tombstone, or a credential withdrawn since.
Bought(s) == grants[s] = 1 \/ \E a \in Actor : pc[a] = "c_return" /\ loc[a].secret = s
Wasted == {p \in Pid : /\ Valid(tomb[p]) /\ tomb[p].state = "consumed"
                       /\ ~\E s \in Secret : pidOf[s] = p /\ Bought(s)}
ConsumedMeansGranted == Cardinality(Wasted) <= faults + crashes

\* A claim is judged by the moment it arrived (now), but by the record it unlinks,
\* which may be a reissue under the same pid or have been locked out by others
\* since it was first read: that record's own secret, not expired and not locked
\* out when the claim arrived.  An expiry that passes while it waits for the lock
\* is not held against it.
ConsumeIsTimely ==
    [][\A a \in Actor, p \in Pid :
          pc[a] = "x_claim" /\ Valid(rec[p]) /\ ~Valid(rec[p])' =>
              /\ loc[a].now < Expiry(rec[p])
              /\ rec[p].until <= loc[a].now
              /\ rec[p].secret = loc[a].secret]_vars

\* What a call that completes leaves behind, whatever crashes and faults came
\* before: an issue only its own record, a revoke none, a startup at most one
\* complete one that it could read.
Completes(a, result) == answer[a] = "none" /\ answer'[a] = result
SettledStore ==
    [][\A a \in Actor :
          /\ Completes(a, "Issued") => Records' = {loc[a].pid}
                                       /\ LiveRecords' = Records'
          /\ Completes(a, "Revoked") => Records' = {}
          /\ Completes(a, "Started") =>
                Cardinality(LiveRecords' \ loc[a].skip) <= 1]_vars

\* New-first: replacing a credential, or cleaning up after a crash during it,
\* never leaves the member without one.
NeverNoneByReplacement ==
    [][LiveRecords # {} /\ LiveRecords' = {} =>
          \/ faults' # faults
          \/ \E a \in Actor :
                \/ pc[a] \in {"x_expire", "x_claim", "x_fail", "sweep"}
                \/ pc[a] = "remove" /\ loc[a].op = "revoke"]_vars

\* Every call comes back with an answer (or its process is killed): no
\* interleaving of timeouts and critical sections leaves a caller hanging.
EveryCallAnswers ==
    \A a \in Actor : pc[a] # "idle" ~> pc[a] = "idle"
(* The store implements OneTimeCredential: what a secret's files, claimant and
   issuer say of it is its abstract status.                                  *)
Live(s)   == \E p \in LiveRecords : rec[p].secret = s
Taking(a) == pc[a] \in {"t_create", "t_fill", "c_return"}
             /\ loc[a].state = "consumed"
Unborn(s) == s > issues \/ \E a \in Actor : /\ loc[a].op = "issue"
                                            /\ loc[a].secret = s
                                            /\ pc[a] # "remove"
StatusOf(s) ==
    CASE Live(s) -> "live"
      [] ~Live(s) /\ grants[s] > 0 -> "granted"
      [] ~Live(s) /\ grants[s] = 0
         /\ \E a \in Actor : Taking(a) /\ loc[a].secret = s -> "taken"
      [] ~Live(s) /\ grants[s] = 0 /\ Unborn(s) -> "unborn"
      [] OTHER -> "dead"

Abstract == INSTANCE OneTimeCredential
                WITH status <- [s \in Secret |-> StatusOf(s)]

\* The store implements the one-time credential: whatever files, locks, kills
\* and name reuse do, no secret is minted twice, comes back once it was
\* consumed, revoked or expired, or is taken out while another one is.
OneTime == Abstract!Spec

\* The books of the store are right: no pid is both live and spent, every
\* "consumed" is a credential given, and no wrong guess is forgotten, whatever
\* claims, sweeps, reused names, kills and failing writes interleave.
Accounted == RecordXorTombstone /\ ConsumedMeansGranted /\ GuessesCounted

\* Every call is answered, and a claim consumes only what it might have when it
\* arrived, whatever became of the record while it waited for the lock.
CallsAreTimely == ConsumeIsTimely /\ EveryCallAnswers

\* What a completed call leaves, and what replacing a pair goes through: exactly
\* the records it should, and never a moment without one.
SoundSteps == SettledStore /\ NeverNoneByReplacement
=============================================================================
