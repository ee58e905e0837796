--------------------------- MODULE ApprovalLedger ---------------------------
(***************************************************************************)
(* What an approval queue promises its users, with no file and no threads: *)
(* a request is pending until it is decided once, an approved request is   *)
(* consumed at most once, and a denied or a consumed one stays as it is.   *)
(* ApprovalStore implements this ledger as long as store operations do not *)
(* overlap.                                                                *)
(***************************************************************************)
CONSTANT ApprovalId     \* the approvals there may ever be

VARIABLE standing       \* the standing of each approval

Standing == {"none", "pending", "approved", "denied", "used"}

Init == standing \in [ApprovalId -> {"none", "pending"}]

Ask(id) ==
    /\ standing[id] = "none"
    /\ standing' = [standing EXCEPT ![id] = "pending"]

Decide(id, decision) ==
    /\ standing[id] = "pending"
    /\ standing' = [standing EXCEPT ![id] = decision]

Consume(id) ==
    /\ standing[id] = "approved"
    /\ standing' = [standing EXCEPT ![id] = "used"]

Next == \E id \in ApprovalId :
    \/ Ask(id)
    \/ \E decision \in {"approved", "denied"} : Decide(id, decision)
    \/ Consume(id)

Spec == Init /\ [][Next]_standing
=============================================================================
