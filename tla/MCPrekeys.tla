------------------------------- MODULE MCPrekeys -------------------------------
(* Small instances of Prekeys for TLC.  The signed prekey and the one-time    *)
(* prekeys meet only in bootstrap and in the identity: a run follows either   *)
(* side with all its interleavings after a bootstrap with all of its own.     *)
EXTENDS Prekeys, TLC

VARIABLE side   \* the side a behaviour follows

NoRotation == settle' = Idle
NoBundles == refill' = Idle /\ fetches' = fetches

SidedInit == Init /\ side \in {"spk", "opk"}

SidedSpec ==
    /\ SidedInit
    /\ [][/\ Next /\ UNCHANGED side
          /\ side = "opk" => NoRotation
          /\ side = "spk" => NoBundles]_<<vars, side>>

FetcherSymmetry == Permutations(Fetchers)
=============================================================================
