--------------------------- MODULE DeletionPromise ----------------------------
(***************************************************************************)
(* What account deletion promises about one receipt, that is, about one    *)
(* confirmation on one device: the server either accepts it, and then the  *)
(* device is wiped, or the device is told that the account stays, and then *)
(* the server never accepts it.  No message, timeout or restart shows.     *)
(***************************************************************************)
CONSTANT Receipts

VARIABLE fate

Init == fate = [r \in Receipts |-> "open"]

Accept(r) == fate[r] = "open" /\ fate' = [fate EXCEPT ![r] = "accepted"]

Keep(r) == fate[r] = "open" /\ fate' = [fate EXCEPT ![r] = "kept"]

Wipe(r) == fate[r] = "accepted" /\ fate' = [fate EXCEPT ![r] = "wiped"]

Next == \E r \in Receipts : Accept(r) \/ Keep(r) \/ Wipe(r)

Spec == Init /\ [][Next]_fate

=============================================================================
