------------------------- MODULE OneTimeCredential -------------------------
(***************************************************************************)
(* What the pairing store promises of its credentials, without files,      *)
(* locks or processes (docs/contracts/pairing-v1.md, "Store behavior").    *)
(* A credential is minted live, at most one claimant at a time takes it    *)
(* out of the store, and it is handed over or lost; it never comes back.   *)
(***************************************************************************)
CONSTANT Secret
VARIABLE status   \* [Secret -> unborn / live / taken / granted / dead]

Init == status = [s \in Secret |-> "unborn"]

Become(s, from, to) ==
    status[s] = from /\ status' = [status EXCEPT ![s] = to]

Mint(s) == Become(s, "unborn", "live")

Take(s) ==
    /\ \A t \in Secret : status[t] # "taken"
    /\ Become(s, "live", "taken")

Deliver(s) == Become(s, "taken", "granted")

\* Revoked, expired, or lost with the call or process that held it.
Lose ==
    \E lost \in SUBSET {s \in Secret : status[s] # "granted"} :
        status' = [s \in Secret |-> IF s \in lost THEN "dead" ELSE status[s]]

Next == Lose \/ \E s \in Secret : Mint(s) \/ Take(s) \/ Deliver(s)

Spec == Init /\ [][Next]_status
=============================================================================
