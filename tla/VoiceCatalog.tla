---------------------------- MODULE VoiceCatalog ----------------------------
(***************************************************************************)
(* voice_catalog.VoiceCatalogService: the lists of voices, one snapshot    *)
(* per scope.  The first request that finds none that is valid fetches it  *)
(* (the leader); those that come meanwhile wait for it, without a timeout. *)
(***************************************************************************)
EXTENDS Naturals, FiniteSets

CONSTANTS Handler,     \* HTTP handler threads
          Scope,       \* cache scopes: the public list, the member's own
          TTL,         \* a snapshot's life
          MaxTime      \* bound: the clock

ASSUME CatalogConstants == TTL \in Nat /\ MaxTime \in Nat

NoScope == "none"

VARIABLES now,        \* the clock
          handler,    \* per handler: its request
          snapshots,  \* per scope: [known, began, until, read]
          fetching,   \* _flights: per scope, who leads
          latest      \* ghost: per scope, the newest list ever answered

catalogVars == <<now, handler, snapshots, fetching, latest>>

NoSnapshot == [known |-> FALSE, began |-> 0, until |-> 0, read |-> 0]
Nobody == "nobody"
ASSUME NobodyIsNoHandler == Nobody \notin Handler
\* began: the clock before anything else; floor: the newest list answered then.
IdleHandler == [at |-> "idle", scope |-> NoScope, began |-> 0, read |-> 0, floor |-> 0,
         ok |-> FALSE, leader |-> Nobody, key |-> 0]

InitCatalog ==
    /\ now = 0 /\ handler = [h \in Handler |-> IdleHandler]
    /\ snapshots = [s \in Scope |-> NoSnapshot] /\ fetching = [s \in Scope |-> Nobody]
    /\ latest = [s \in Scope |-> 0]

At(h, l) == handler[h].at = l
GoesTo(h, l) == handler' = [handler EXCEPT ![h].at = l]
Valid(snapshot, t) == snapshot.known /\ snapshot.until > t

ListVoices(h) ==
    /\ At(h, "idle")
    /\ \E s \in Scope :
          handler' = [handler EXCEPT ![h] = [IdleHandler EXCEPT !.at = "snapshot", !.scope = s,
                                                !.began = now, !.floor = latest[s]]]
    /\ UNCHANGED <<now, snapshots, fetching, latest>>

\* Under the lock: the other scopes' expired lists go, the own one is used
\* when it is valid; else the request waits for a leader or becomes one.
LeadsAnyway(s) == TRUE
Leads(s) == fetching[s] = Nobody
Snapshot(h) ==
    /\ At(h, "snapshot")
    /\ LET r == handler[h]
       IN /\ snapshots' = [s \in Scope |->
                IF s # r.scope /\ ~Valid(snapshots[s], r.began) THEN NoSnapshot ELSE snapshots[s]]
          /\ IF Valid(snapshots[r.scope], r.began)
             THEN /\ handler' = [handler EXCEPT ![h].at = "list", ![h].ok = TRUE,
                                                ![h].read = snapshots[r.scope].read]
                  /\ UNCHANGED fetching
             ELSE IF Leads(r.scope)
             THEN GoesTo(h, "fetch") /\ fetching' = [fetching EXCEPT ![r.scope] = h]
             ELSE /\ handler' = [handler EXCEPT ![h].at = "follow", ![h].leader = fetching[r.scope]]
                  /\ UNCHANGED fetching
    /\ UNCHANGED <<now, latest>>

\* _fetch: the pages as they are at one moment.
Fetched(h) ==
    /\ At(h, "fetch")
    /\ handler' = [handler EXCEPT ![h].at = "keep", ![h].read = now, ![h].ok = TRUE]
    /\ UNCHANGED <<now, snapshots, fetching, latest>>
\* A failure that may pass is answered with the last list, however old.
FetchFails(h) ==
    /\ At(h, "fetch")
    /\ LET last == snapshots[handler[h].scope]
       IN \/ /\ last.known
             /\ handler' = [handler EXCEPT ![h].at = "land", ![h].ok = TRUE, ![h].read = last.read]
          \/ handler' = [handler EXCEPT ![h].at = "land", ![h].ok = FALSE]
    /\ UNCHANGED <<now, snapshots, fetching, latest>>
\* Its life is counted from before the fetch.
KeepSnapshot(h) ==
    /\ At(h, "keep")
    /\ LET r == handler[h]
       IN snapshots' = [snapshots EXCEPT ![r.scope] =
             [known |-> TRUE, began |-> r.began, until |-> r.began + TTL, read |-> r.read]]
    /\ GoesTo(h, "land")
    /\ UNCHANGED <<now, fetching, latest>>

\* finally: the flight is over, and every follower has the leader's answer.
WakesOnSuccess(h) == IF handler[h].ok THEN {g \in Handler : At(g, "follow") /\ handler[g].leader = h}
                                      ELSE {}
Followers(h) == {g \in Handler : At(g, "follow") /\ handler[g].leader = h}
Land(h) ==
    /\ At(h, "land")
    /\ fetching' = [fetching EXCEPT ![handler[h].scope] = Nobody]
    /\ handler' = [g \in Handler |->
          IF g = h \/ g \in Followers(h)
          THEN [handler[g] EXCEPT !.at = "list", !.ok = handler[h].ok, !.read = handler[h].read,
                                  !.leader = Nobody]
          ELSE handler[g]]
    /\ UNCHANGED <<now, snapshots, latest>>

\* list_voices filters, sorts and pages the snapshot it was given.
Listed(h) ==
    /\ At(h, "list") /\ handler' = [handler EXCEPT ![h] = IdleHandler]
    /\ LET r == handler[h]
       IN latest' = [latest EXCEPT ![r.scope] = IF r.ok /\ r.read > @ THEN r.read ELSE @]
    /\ UNCHANGED <<now, snapshots, fetching>>

Tick == now < MaxTime /\ now' = now + 1 /\ UNCHANGED <<handler, snapshots, fetching, latest>>

Lists(h) == Snapshot(h) \/ Fetched(h) \/ FetchFails(h) \/ KeepSnapshot(h) \/ Land(h) \/ Listed(h)

-----------------------------------------------------------------------------
\* A list is never older than one that was answered before it was asked for:
\* a slow fetch does not overwrite a newer one (voice_catalog.py:500-506), and
\* the list given when the service fails is the last there was.
NoGoingBack == \A h \in Handler : At(h, "list") /\ handler[h].ok => handler[h].read >= handler[h].floor
=============================================================================
