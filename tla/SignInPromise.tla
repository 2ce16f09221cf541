----------------------------- MODULE SignInPromise -----------------------------
(***************************************************************************)
(* What signing in with mailed codes promises about one address: only the  *)
(* code stored last can be accepted, and only once; an accepted code opens *)
(* one session at most, which is never opened again once it ended; and the *)
(* address has one account at a time, whose sessions end with the          *)
(* acceptance of its deletion and, those that a sign-in under way opened   *)
(* after it, with the account.  No guess, expiry, retry or phone shows.    *)
(***************************************************************************)
EXTENDS Naturals

CONSTANT Codes

VARIABLES
    issued,           \* codes so far; they are numbered
    open,             \* the code that would be accepted, or 0
    accepted,         \* accepted codes whose sign-in is under way
    owner,            \* the account of the session each code opened, or 0
    created,          \* accounts so far; they are numbered
    live, deleting    \* accounts of the address

codes == <<issued, open>>
accounts == <<created, live, deleting>>
promised == <<codes, accepted, owner, accounts>>

Init ==
    /\ issued = 0 /\ open = 0 /\ accepted = {} /\ owner = [c \in Codes |-> 0]
    /\ created = 0 /\ live = {} /\ deleting = {}

\* A new code takes the place of the last.
Issue ==
    /\ issued' = issued + 1 /\ open' = issued + 1
    /\ UNCHANGED <<accepted, owner, accounts>>

Lapse ==
    /\ open' = 0
    /\ UNCHANGED <<issued, accepted, owner, accounts>>

Accept ==
    /\ open # 0 /\ open' = 0 /\ accepted' = accepted \cup {open}
    /\ UNCHANGED <<issued, owner, accounts>>

Abandon(c) ==
    /\ accepted' = accepted \ {c}
    /\ UNCHANGED <<codes, owner, accounts>>

Register ==
    /\ live = {} /\ deleting = {}
    /\ created' = created + 1 /\ live' = {created'}
    /\ UNCHANGED <<codes, accepted, owner, deleting>>

OpenSession(c, a) ==
    /\ accepted' = accepted \ {c}
    /\ owner' = [owner EXCEPT ![c] = a]
    /\ UNCHANGED <<codes, accounts>>

Without(A) == [c \in Codes |-> IF owner[c] \in A THEN 0 ELSE owner[c]]

Delete(a) ==
    /\ live' = live \ {a} /\ deleting' = deleting \cup {a}
    /\ owner' = Without({a})
    /\ UNCHANGED <<codes, accepted, created>>

Finish ==
    /\ deleting' = {} /\ owner' = Without(deleting)
    /\ UNCHANGED <<codes, accepted, created, live>>

Next ==
    \/ Issue \/ Lapse \/ Accept \/ Register \/ Finish
    \/ \E c \in accepted : Abandon(c) \/ \E a \in live \cup deleting : OpenSession(c, a)
    \/ \E a \in live : Delete(a)

Spec == Init /\ [][Next]_promised
=============================================================================
