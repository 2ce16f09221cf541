-------------------------------- MODULE MCDevice --------------------------------
(* Small instances of Sessions and of Shelf for TLC, in one run.  The two      *)
(* share no state: a behaviour follows either.  Of Sessions it follows guesses *)
(* and concurrent sign-ins with a phone whose calls succeed, or one sign-in    *)
(* after the other with all a phone may do; of Shelf the summaries of an album *)
(* that is not lost, with two answers in flight, or the loss of one without    *)
(* uploads, with one answer in flight once it is lost.                         *)
EXTENDS Sessions, Shelf, TLC

VARIABLE side   \* what a behaviour follows

DeviceVars == <<sessionVars, shelfVars, side>>

Guessing ==
    \A p \in Phones :
        /\ vault'[p].keys = "none"
        /\ \/ task'[p].at \in {"idle", "sent", "admitted", "gate", "erase"}
           \/ task'[p].at = "off" /\ cred'[p] = NoCred

OneSignIn ==
    /\ tally'.misses = 0 /\ tally'.windows <= 1 /\ asking' <= 1
    /\ Cardinality({v \in Verifiers : verify'[v] # Quiet}) <= 1

SessionStep ==
    /\ SessionNext /\ UNCHANGED <<shelfVars, side>>
    /\ \/ side = "guess" /\ Guessing
       \/ side = "phone" /\ OneSignIn

Holding == ~hist'.lost /\ record' = NoRecord

Losing ==
    /\ album'.gen = 0 /\ Cardinality(replies') <= IF hist'.lost THEN 1 ELSE 2
    /\ \A r \in replies' : r.kind \in {"listing", "refused"}

ShelfStep ==
    /\ ShelfNext /\ UNCHANGED <<sessionVars, side>>
    /\ \/ side = "summary" /\ Holding
       \/ side = "loss" /\ Losing

SidedInit ==
    /\ SessionInit /\ ShelfInit /\ side \in {"guess", "phone", "summary", "loss"}
    /\ side \in {"guess", "phone"} => Member
    /\ side # "phone" => vault = [p \in Phones |-> NoVault]

SidedSpec ==
    /\ SidedInit
    /\ [][SessionStep \/ ShelfStep]_DeviceVars

\* Types of the credentials and of the shelf, a queue of events that keeps to
\* its limit among them (hub.go:46).
DeviceTypeOK == SessionTypeOK /\ ShelfTypeOK

VerifierSymmetry == Permutations(Verifiers)
=============================================================================
