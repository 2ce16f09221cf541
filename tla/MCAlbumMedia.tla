---------------------------- MODULE MCAlbumMedia -----------------------------
(* Small instances of AlbumMedia for TLC.                                   *)
EXTENDS AlbumMedia, TLC

UserSymmetry == Permutations(Users)
DataSymmetry == Permutations(Data)
=============================================================================
