---------------------------- MODULE MCAvatarUpload -----------------------------
(* Small instances of AvatarUpload for TLC.  Ids are symmetric only where all *)
(* of them are reused.                                                        *)
EXTENDS AvatarUpload, TLC

DataSymmetry == Permutations(Data)
IdDataSymmetry == Permutations(AvatarIds) \cup DataSymmetry
=============================================================================
