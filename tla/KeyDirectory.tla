----------------------------- MODULE KeyDirectory ------------------------------
(***************************************************************************)
(* What the directory of prekeys promises about one account to those who   *)
(* ask for its bundle: one identity for ever; signed prekeys that are      *)
(* replaced by younger ones only, each beside a signature over itself and  *)
(* its timestamp; and one-time prekeys (OPKs) that go to one request each  *)
(* and are never offered again.  No crash of the device, no lost answer    *)
(* and no late or repeated call shows.                                     *)
(***************************************************************************)
EXTENDS Integers

CONSTANTS Requests, Opks

None == -1          \* no time yet, or no OPK

VARIABLES
    identity,       \* the published one, 0 before
    spk, ts,        \* the signed prekey, in the order of minting, and its time
    signed,         \* what its signature covers
    free, claimed,  \* OPKs that may be given out, and that were
    bundle          \* the OPK each request was given

pool == <<free, claimed, bundle>>
directory == <<identity, spk, ts, signed, pool>>

Init ==
    /\ identity = 0 /\ spk = 0 /\ ts = None /\ signed = <<0, None>>
    /\ free = {} /\ claimed = {} /\ bundle = [r \in Requests |-> None]

Publish ==
    /\ identity = 0 /\ identity' # 0
    /\ spk' # 0 /\ ts' # None /\ signed' = <<spk', ts'>>
    /\ UNCHANGED pool

\* A repeated publication may renew the signature, which only gets younger.
Resign ==
    /\ identity # 0 /\ ts' > ts /\ signed' = <<spk, ts'>>
    /\ UNCHANGED <<identity, spk, pool>>

Rotate ==
    /\ identity # 0 /\ spk' > spk /\ ts' > ts /\ signed' = <<spk', ts'>>
    /\ UNCHANGED <<identity, pool>>

\* What was free stays so, and what was claimed is not offered again.
Offer ==
    /\ identity # 0
    /\ free \subseteq free' /\ free' \subseteq Opks \ claimed
    /\ UNCHANGED <<identity, spk, ts, signed, claimed, bundle>>

Claim(r, o) ==
    /\ bundle[r] = None
    /\ free' = free \ {o} /\ claimed' = claimed \cup {o}
    /\ bundle' = [bundle EXCEPT ![r] = o]
    /\ UNCHANGED <<identity, spk, ts, signed>>

Next ==
    \/ Publish \/ Resign \/ Rotate \/ Offer
    \/ \E r \in Requests, o \in free : Claim(r, o)

Spec == Init /\ [][Next]_directory
=============================================================================
