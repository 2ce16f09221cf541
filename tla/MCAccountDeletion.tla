-------------------------- MODULE MCAccountDeletion ---------------------------
(* Small instances of AccountDeletion for TLC.                              *)
EXTENDS AccountDeletion, TLC

SlotSymmetry == Permutations(Slots)
DeletionSymmetry == Permutations(Slots) \cup Permutations(Receipts) \cup Permutations(Devices)
=============================================================================
