--------------------------- MODULE AccountDeletion ----------------------------
(***************************************************************************)
(* Deleting an account from its devices: the receipt protocol between the  *)
(* app's AccountDeletion and the server's AccountDeletionRepository.       *)
(*                                                                         *)
(* A device writes a marker with a fresh receipt before it sends anything, *)
(* talks to the server over calls that may be lost, answered late or stay  *)
(* in flight after the app gave up or was killed, and ends by wiping       *)
(* itself or by barring the receipt.  `flow` is where the device's         *)
(* AccountDeletion method, or the screen that called it, stands.           *)
(***************************************************************************)
EXTENDS Integers, FiniteSets

CONSTANTS Devices,      \* installations signed in to the account
          Receipts,     \* random receipts, each drawn at most once
          Albums,       \* albums the account is the admin of
          Slots,        \* bound: calls in flight
          None

\* A call: how far it got, what it asks, about which receipt, and whether the
\* app still waits for it.
CallRecord == [st : {"sent", "authed", "ok", "stale", "refused", "yes", "no"},
               kind : {"request", "query", "abandon"}, r : Receipts, waiting : BOOLEAN]

ASSUME NoneIsNew == None \notin Receipts \cup Devices \cup CallRecord

VARIABLES
    account,    \* users row: "live", "deleting" or "gone"
    receipts,   \* account_deletion_receipts: "none", "accepted", "abandoned"
    shared,     \* albums that the account's end would take from others
    consent,    \* history: the shared albums the accepted plan named
    owner,      \* the device that drew a receipt, None before
    plan,       \* the shared albums its user confirmed with it
    marker,     \* per device: the pending receipt on disk, or None
    marked,     \* devices whose marker says accepted
    flow,       \* per device: the step its app is at
    calls,      \* per slot: a call between a device and the server, or None
    vault,      \* devices that still hold keys and photos
    outcome     \* history, per receipt: "none", "kept" or "wiped"

serverVars == <<account, receipts, shared, consent>>
deviceVars == <<owner, plan, marker, marked, flow, vault, outcome>>
vars == <<serverVars, deviceVars, calls>>

Busy == {s \in Slots : calls[s] # None}
Of(d) == {s \in Busy : calls[s].waiting /\ owner[calls[s].r] = d}

-----------------------------------------------------------------------------
(***************************************************************************)
(* The app's decisions, each preceded by the slips the runs notice.        *)
(***************************************************************************)

Requesting == {"confirm", "send"}
Checking == {"check", "recheck", "resume", "continue"}
Asking == Requesting \cup Checking \cup {"giveup"}

KindOf(f) == IF f \in Requesting THEN "request"
             ELSE IF f \in Checking THEN "query" ELSE "abandon"

\* A request refused for a stale plan bars its receipt; any other refusal is
\* followed by a look at the receipt.
AfterRefusal(f, a) ==
    IF a = "stale" THEN "giveup"
    ELSE IF f = "confirm" THEN "check" ELSE "recheck"

StaleDropsMarker(f, a) ==
    IF a \in {"ok", "yes"} THEN "finish"
    ELSE IF f \in Requesting THEN IF a = "stale" THEN "idle" ELSE AfterRefusal(f, a)
    ELSE IF f \in {"check", "continue"} THEN "send"
    ELSE IF f \in {"recheck", "resume"} THEN "unconfirmed"
    ELSE "idle"

\* Where the app goes with answer a at step f.  "idle" is reached only when
\* the receipt was barred, and clears the marker.
After(f, a) ==
    IF a \in {"ok", "yes"} THEN "finish"
    ELSE IF f \in Requesting THEN AfterRefusal(f, a)
    ELSE IF f \in {"check", "continue"} THEN "send"
    ELSE IF f \in {"recheck", "resume"} THEN "unconfirmed"
    ELSE "idle"

ThrowEnds(f) == IF f = "confirm" THEN "check" ELSE "idle"

\* A call that throws: only confirm looks on by itself, every other method
\* ends and leaves the screen offering "Try again".
AfterThrow(f) == IF f = "confirm" THEN "check" ELSE "blocked"

MarkerForgotten(d) == IF d \in vault THEN "idle" ELSE "done"

\* main and resume: a marker on disk takes the app straight to the deletion.
Reopened(d) ==
    IF marker[d] # None THEN IF d \in marked THEN "finish" ELSE "resume"
    ELSE IF d \in vault THEN "idle" ELSE "done"

(***************************************************************************)
(* The server's decisions.                                                 *)
(***************************************************************************)

BarIgnored(r) == FALSE

\* claimReceipt: an abandoned receipt is never accepted.
Barred(r) == receipts[r] = "abandoned"

KnownReceipt(r) == receipts[r] # "none"

\* ReceiptAccepted: the receipt is there and not abandoned.
Accepted(r) == receipts[r] = "accepted"

SharesAnyTime == TRUE

\* An invite locks its sender's users row FOR SHARE and refuses deleting_at.
MayShare == account = "live"

-----------------------------------------------------------------------------
Init ==
    /\ account = "live"
    /\ receipts = [r \in Receipts |-> "none"]
    /\ shared \in SUBSET Albums
    /\ consent = {}
    /\ owner = [r \in Receipts |-> None]
    /\ plan = [r \in Receipts |-> {}]
    /\ marker = [d \in Devices |-> None]
    /\ marked = {}
    /\ flow = [d \in Devices |-> "idle"]
    /\ calls = [s \in Slots |-> None]
    /\ vault = Devices
    /\ outcome = [r \in Receipts |-> "none"]

\* confirm: the marker, with the plan the user agreed to, is on disk before
\* any call.  The plan was read at some earlier time, so it may name any
\* albums that were shared then.
Confirm(d, r, P) ==
    /\ flow[d] = "idle"
    /\ owner[r] = None
    /\ owner' = [owner EXCEPT ![r] = d]
    /\ plan' = [plan EXCEPT ![r] = P]
    /\ marker' = [marker EXCEPT ![d] = r]
    /\ marked' = marked \ {d}
    /\ flow' = [flow EXCEPT ![d] = "confirm"]
    /\ UNCHANGED <<serverVars, calls, vault, outcome>>

\* The call of the current step leaves the device.
Call(d, s) ==
    /\ flow[d] \in Asking
    /\ Of(d) = {}
    /\ calls[s] = None
    /\ calls' = [calls EXCEPT ![s] = [st |-> "sent", kind |-> KindOf(flow[d]),
                                      r |-> marker[d], waiting |-> TRUE]]
    /\ UNCHANGED <<serverVars, deviceVars>>

\* The answer reaches the waiting app.  A barred receipt clears the marker.
Answer(d, s) ==
    /\ s \in Of(d)
    /\ calls[s].st \notin {"sent", "authed"}
    /\ LET next == After(flow[d], calls[s].st)
       IN /\ flow' = [flow EXCEPT ![d] = next]
          /\ IF next = "idle"
             THEN /\ outcome' = [outcome EXCEPT ![marker[d]] = "kept"]
                  /\ marker' = [marker EXCEPT ![d] = None]
             ELSE UNCHANGED <<outcome, marker>>
    /\ calls' = [calls EXCEPT ![s] = None]
    /\ UNCHANGED <<serverVars, owner, plan, marked, vault>>

\* The connection fails under a waiting app.  The call, or its answer, is lost
\* or the server still gets to it later.
Throw(d, s) ==
    /\ s \in Of(d)
    /\ flow' = [flow EXCEPT ![d] = AfterThrow(flow[d])]
    /\ \/ calls' = [calls EXCEPT ![s] = None]
       \/ calls' = [calls EXCEPT ![s].waiting = FALSE]
    /\ UNCHANGED <<serverVars, owner, plan, marker, marked, vault, outcome>>

\* _finish: the marker remembers the acceptance before the wipe starts.
MarkAccepted(d) ==
    /\ flow[d] = "finish"
    /\ d \notin marked
    /\ marked' = marked \cup {d}
    /\ UNCHANGED <<serverVars, calls, owner, plan, marker, flow, vault, outcome>>

\* TerminalWipe has verified that nothing is left.
WipeDevice(d) ==
    /\ flow[d] = "finish"
    /\ d \in marked
    /\ vault' = vault \ {d}
    /\ outcome' = [outcome EXCEPT ![marker[d]] = "wiped"]
    /\ flow' = [flow EXCEPT ![d] = "wiped"]
    /\ UNCHANGED <<serverVars, calls, owner, plan, marker, marked>>

\* The marker cannot be written, or something is left after the wipe's last
\* attempt.
WipeFails(d) ==
    /\ flow[d] = "finish"
    /\ flow' = [flow EXCEPT ![d] = "blocked"]
    /\ UNCHANGED <<serverVars, calls, owner, plan, marker, marked, vault, outcome>>

ClearMarker(d) ==
    /\ flow[d] = "wiped"
    /\ marker' = [marker EXCEPT ![d] = None]
    /\ marked' = marked \ {d}
    /\ flow' = [flow EXCEPT ![d] = "done"]
    /\ UNCHANGED <<serverVars, calls, owner, plan, vault, outcome>>

\* The unconfirmed screen: continueDeleting or keepAccount.
Choose(d, next) ==
    /\ flow[d] = "unconfirmed"
    /\ next \in {"continue", "giveup"}
    /\ flow' = [flow EXCEPT ![d] = next]
    /\ UNCHANGED <<serverVars, calls, owner, plan, marker, marked, vault, outcome>>

\* "Try again", or the app is started.
Reopen(d) ==
    /\ flow[d] \in {"blocked", "off"}
    /\ flow' = [flow EXCEPT ![d] = Reopened(d)]
    /\ UNCHANGED <<serverVars, calls, owner, plan, marker, marked, vault, outcome>>

\* The app is killed; what it sent may still arrive.
Kill(d) ==
    /\ flow[d] # "off"
    /\ flow' = [flow EXCEPT ![d] = "off"]
    /\ calls' = [s \in Slots |->
                   IF s \in Of(d) THEN [calls[s] EXCEPT !.waiting = FALSE] ELSE calls[s]]
    /\ UNCHANGED <<serverVars, owner, plan, marker, marked, vault, outcome>>

-----------------------------------------------------------------------------
\* GetByToken: acceptance deleted the sessions, and a session of an account
\* being deleted does not count.
Authenticate(s) ==
    /\ s \in Busy
    /\ calls[s].kind = "request" /\ calls[s].st = "sent"
    /\ calls' = [calls EXCEPT ![s].st = IF account = "live" THEN "authed" ELSE "refused"]
    /\ UNCHANGED <<serverVars, deviceVars>>

\* Accept, under the users row lock.  A refusal rolls the receipt back.
Accept(s) ==
    /\ s \in Busy
    /\ calls[s].st = "authed"
    /\ LET r == calls[s].r
       IN \/ /\ account = "gone" \/ Barred(r)
             /\ calls' = [calls EXCEPT ![s].st = "refused"]
             /\ UNCHANGED serverVars
          \/ /\ account = "live" /\ ~Barred(r)
             /\ ~(shared \subseteq plan[r])
             /\ calls' = [calls EXCEPT ![s].st = "stale"]
             /\ UNCHANGED serverVars
          \/ /\ account # "gone" /\ ~Barred(r)
             /\ account = "live" => shared \subseteq plan[r]
             /\ calls' = [calls EXCEPT ![s].st = "ok"]
             /\ receipts' = [receipts EXCEPT ![r] = "accepted"]
             /\ account' = "deleting"
             /\ consent' = IF account = "live" THEN plan[r] ELSE consent
             /\ UNCHANGED shared
    /\ UNCHANGED deviceVars

\* The handler fails: before its transaction, in it, or at an answer to the
\* commit that never came.
ServerError(s) ==
    /\ s \in Busy
    /\ calls[s].kind = "request" /\ calls[s].st \in {"sent", "authed", "ok"}
    /\ calls' = [calls EXCEPT ![s].st = "refused"]
    /\ UNCHANGED <<serverVars, deviceVars>>

ReceiptAccepted(s) ==
    /\ s \in Busy
    /\ calls[s].kind = "query" /\ calls[s].st = "sent"
    /\ calls' = [calls EXCEPT ![s].st = IF Accepted(calls[s].r) THEN "yes" ELSE "no"]
    /\ UNCHANGED <<serverVars, deviceVars>>

\* Inserting the receipt as abandoned fails when acceptance inserted it first.
AbandonReceipt(s) ==
    /\ s \in Busy
    /\ calls[s].kind = "abandon" /\ calls[s].st = "sent"
    /\ LET r == calls[s].r
       IN /\ calls' = [calls EXCEPT ![s].st = IF receipts[r] = "accepted" THEN "yes" ELSE "no"]
          /\ receipts' = [receipts EXCEPT ![r] = IF @ = "none" THEN "abandoned" ELSE @]
    /\ UNCHANGED <<account, shared, consent, deviceVars>>

\* A call whose app is gone ends anywhere.
Drop(s) ==
    /\ s \in Busy
    /\ ~calls[s].waiting
    /\ calls' = [calls EXCEPT ![s] = None]
    /\ UNCHANGED <<serverVars, deviceVars>>

\* PruneReceipts: the retention outlasts any time a device stays offline with
\* a pending receipt or a call stays in flight.
PruneReceipts(r) ==
    /\ receipts[r] # "none"
    /\ \A d \in Devices : marker[d] # r
    /\ \A s \in Busy : calls[s].r # r
    /\ receipts' = [receipts EXCEPT ![r] = "none"]
    /\ UNCHANGED <<account, shared, consent, deviceVars, calls>>

\* The account's invite makes an album shared; its other members leave it.
Share(a) ==
    /\ MayShare
    /\ a \notin shared
    /\ shared' = shared \cup {a}
    /\ UNCHANGED <<account, receipts, consent, deviceVars, calls>>

Unshare(a) ==
    /\ a \in shared
    /\ shared' = shared \ {a}
    /\ UNCHANGED <<account, receipts, consent, deviceVars, calls>>

\* The deletion job has removed every membership and the users row.
FinishAccount ==
    /\ account = "deleting"
    /\ account' = "gone"
    /\ shared' = {}
    /\ UNCHANGED <<receipts, consent, deviceVars, calls>>

-----------------------------------------------------------------------------
DeviceStep(d) ==
    \/ \E r \in Receipts, P \in SUBSET Albums : Confirm(d, r, P)
    \/ \E s \in Slots : Call(d, s)
    \/ \E s \in Slots : Answer(d, s)
    \/ \E s \in Slots : Throw(d, s)
    \/ MarkAccepted(d)
    \/ WipeDevice(d)
    \/ WipeFails(d)
    \/ ClearMarker(d)
    \/ \E next \in {"continue", "giveup"} : Choose(d, next)
    \/ Reopen(d)
    \/ Kill(d)

ServerStep ==
    \/ \E s \in Slots : Authenticate(s)
    \/ \E s \in Slots : Accept(s)
    \/ \E s \in Slots : ServerError(s)
    \/ \E s \in Slots : ReceiptAccepted(s)
    \/ \E s \in Slots : AbandonReceipt(s)
    \/ \E s \in Slots : Drop(s)
    \/ \E r \in Receipts : PruneReceipts(r)
    \/ \E a \in Albums : Share(a)
    \/ \E a \in Albums : Unshare(a)
    \/ FinishAccount

Next == (\E d \in Devices : DeviceStep(d)) \/ ServerStep

Spec == Init /\ [][Next]_vars

-----------------------------------------------------------------------------
Pending == Asking \cup {"finish", "wiped", "unconfirmed", "blocked"}

FieldsOK ==
    /\ account \in {"live", "deleting", "gone"}
    /\ receipts \in [Receipts -> {"none", "accepted", "abandoned"}]
    /\ shared \subseteq Albums /\ consent \subseteq Albums
    /\ owner \in [Receipts -> Devices \cup {None}]
    /\ plan \in [Receipts -> SUBSET Albums]
    /\ marker \in [Devices -> Receipts \cup {None}]
    /\ marked \subseteq Devices
    /\ flow \in [Devices -> Pending \cup {"idle", "off", "done"}]
    /\ calls \in [Slots -> CallRecord \cup {None}]
    /\ vault \subseteq Devices
    /\ outcome \in [Receipts -> {"none", "kept", "wiped"}]

\* A device is on its ordinary pages only without a marker, and waits for at
\* most one call, about the receipt its marker names.
Tied(d) ==
    /\ marker[d] # None => owner[marker[d]] = d
    /\ flow[d] \in Pending => marker[d] # None
    /\ flow[d] \in {"idle", "done"} => marker[d] = None
    /\ \A s \in Of(d) :
          /\ calls[s].r = marker[d]
          /\ flow[d] \in Asking /\ calls[s].kind = KindOf(flow[d])
          /\ \A t \in Of(d) : t = s

\* Type invariant, with what ties the app's step, its marker and its calls
\* together.
TypeOK == FieldsOK /\ \A d \in Devices : Tied(d)

\* A device is wiped only when the account's deletion was accepted: keys that
\* only this device holds are never destroyed under a live account, although
\* the app has to guess from lost answers and refused retries.
WipedOnlyIfAccepted == vault # Devices => account # "live"

\* An accepted deletion always reaches the device that asked for it: as long as
\* the device is not wiped its marker still names the receipt, so no order of
\* stale plans, retries and late requests lets it carry on with the vault of a
\* deleted account.
AcceptedNotStranded ==
    \A r \in Receipts : Accepted(r) => owner[r] \notin vault \/ marker[owner[r]] = r

\* What the job takes from others was named in the plan that was accepted,
\* although the plan was read before the acceptance and the job runs after it.
PlanCovers == account = "deleting" => shared \subseteq consent

\* What became of a receipt, for the promise.
Fate == [r \in Receipts |->
           IF outcome[r] # "none" THEN outcome[r]
           ELSE IF Accepted(r) THEN "accepted" ELSE "open"]

Promise == INSTANCE DeletionPromise WITH fate <- Fate

\* The protocol keeps the promise: each receipt is accepted and then its
\* device wiped, or kept and then never accepted.
KeepsPromise == Promise!Spec

\* The user comes back to the app and answers its question, and the network,
\* the server's handlers and the disk do not fail for ever.
Retries ==
    \A d \in Devices :
        /\ SF_vars(Reopen(d))
        /\ SF_vars(Choose(d, "continue") \/ Choose(d, "giveup"))
        /\ SF_vars(MarkAccepted(d))
        /\ SF_vars(WipeDevice(d))
        /\ SF_vars(\E s \in Slots : Call(d, s))
        /\ SF_vars(\E s \in Of(d) : ReceiptAccepted(s) \/ AbandonReceipt(s))
        /\ SF_vars(\E s \in Slots : Answer(d, s))

\* A call the server has does not stay there for ever.
Handled ==
    \A s \in Slots : WF_vars(Authenticate(s) \/ Accept(s)) /\ WF_vars(Drop(s))

FairSpec == Spec /\ Retries /\ Handled

\* An accepted deletion ends with its device wiped, over kills, failed wipes
\* and lost answers.
AcceptedIsWiped ==
    \A r \in Receipts : Accepted(r) ~> outcome[r] = "wiped"

=============================================================================
