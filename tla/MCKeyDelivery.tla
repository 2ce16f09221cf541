---------------------------- MODULE MCKeyDelivery ----------------------------
(* A small instance of KeyDelivery for TLC.  Leads-tos are checked, so the  *)
(* accounts cannot be declared symmetric; instead the instance fixes which  *)
(* account creates the album.                                               *)
EXTENDS KeyDelivery

CONSTANTS Founder   \* the account that creates the album

FoundedByFounder == album = "none" /\ album' = "live" => role'[Founder] = "admin"

\* Nobody is put out at the last epoch: the rotation that follows would be
\* beyond the bound.
RoomToRotate == rotationRequired' => cur' < MaxEpoch

FoundedDelivery == FoundedByFounder /\ RoomToRotate

FoundedSpec ==
    /\ DeliveryInit
    /\ [][DeliveryNext /\ FoundedDelivery]_deliveryVars
    /\ DeliveryFairness
=============================================================================
