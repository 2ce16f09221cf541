----------------------------- MODULE KeyDelivery -----------------------------
(***************************************************************************)
(* How the master keys of an album reach one phone, and how the phone of   *)
(* the admin pays the rotation debt.  The server is AlbumKeys; the phone   *)
(* runs three loops of its own over it, which share its key store:         *)
(*   - the epoch processor (proc) installs the epochs it is told about;    *)
(*   - the rotation (rot) mints a key, posts it and installs it, serialised *)
(*     for the album by _serial;                                           *)
(*   - the recovery scheduler (sched) asks whether the album owes a        *)
(*     rotation and has it rotated, with retries;                          *)
(* and on every start or reconnect (sync) it catches up, then asks.        *)
(* Other accounts' phones create, rotate, invite, remove and delete as     *)
(* AlbumKeys admits it.  The deletion of an account is left to AlbumKeys:  *)
(* for this album it is a departure, as a member's leaving is, or its end. *)
(*                                                                         *)
(* A key is a number; signatures, identities and prekeys are assumed to    *)
(* verify, and a failure of any of them is one of the failures here.  The  *)
(* join receipt is left out: the server verifies it and stores nothing.    *)
(***************************************************************************)
EXTENDS AlbumKeys, FiniteSetsExt, Sequences

CONSTANTS MaxTries,   \* attempts of one recovery run (3 in the code)
          MaxCalls,   \* bound: set-epoch requests on their way
          MaxEvents,  \* bound: events waiting for the processor
          MaxFaults   \* bound: crashes, failed calls and lost answers

ASSUME TriesPositive == MaxTries \in Nat \ {0}
ASSUME DeliveryBoundsNat == MaxCalls \in Nat /\ MaxEvents \in Nat /\ MaxFaults \in Nat

VARIABLES
    phone,   \* the account whose phone is followed
    keyOf,   \* history: the key wrapped in each epoch's envelopes, 0 for none
    calls,   \* set-epoch requests of the phone the server has yet to see
    keys,    \* the phone's album key store: the key of each epoch, 0 for none
    inbox,   \* events queued behind the album's chain in the processor
    proc,    \* the event being handled
    rot,     \* the rotation that holds the album's mutex
    kick,    \* a removal by this phone: "none", "sent", "revoked"
    sched,   \* the recovery of this album
    sync,    \* catch-up at start or reconnect: "idle" or "handle"
    gone,    \* the phone knows the album as lost and has to wipe it
    refused, \* history: a member's key store refused an epoch as a replay
    faults   \* how often something failed so far

phoneVars == <<keys, inbox, proc, rot, kick, sched, sync, gone, refused>>
deliveryVars == <<keyVars, phone, keyOf, calls, phoneVars, faults>>

Key == 1 .. (MaxEpoch + MaxCalls + 3)
Event == [epoch : Epoch, joined : BOOLEAN, for : {"ws", "sync", "sched"}]
Call == [epoch : Epoch, to : SUBSET Users, key : Key]

NoCall == [epoch |-> 0, to |-> {}, key |-> 0]
Free == [at |-> "free", who |-> "none", call |-> NoCall]
Resting == [at |-> "idle", todo |-> {}, below |-> 0, key |-> 0, for |-> "none"]
Unasked == [at |-> "idle", tries |-> 0, again |-> FALSE, owed |-> FALSE]

Fault == faults < MaxFaults /\ faults' = faults + 1
NoFault == UNCHANGED faults

-----------------------------------------------------------------------------
(***************************************************************************)
(* What the phone and the server read.                                     *)
(***************************************************************************)

\* presentEpochs and latestEpoch of the album key store.
Present == {e \in Epoch : keys[e] # 0}
Latest == Max(Present \cup {-1})

\* The server answers the phone about the album: it is an active member.
Admitted == album = "live" /\ phone \in Active

\* isAdminOf: the role on the phone's shelf, which never changes.
IsAdmin == album = "live" /\ role[phone] = "admin"

\* A key that nothing refers to.
FreshKey ==
    Min(Key \ ({keyOf[e] : e \in Epoch} \cup {keys[e] : e \in Epoch}
               \cup {c.key : c \in calls} \cup {rot.call.key}))

\* _rotateForActiveSet numbers the epoch after the latest one of the phone's
\* own store, not after the server's.
NextEpoch == Latest + 1

SkipsBehind(epoch) == {e \in Epoch : Latest < e /\ e <= epoch}

\* _doHandle: every epoch up to the announced one that is not there.
Missing(epoch) == (0 .. epoch) \ Present

\* installVerified: the same key again is no change, another one a replay, and
\* so is an older epoch unless it is backfilled.
Verdict(epoch, key, backfill) ==
    IF epoch \in Present THEN IF keys[epoch] = key THEN "same" ELSE "replay"
    ELSE IF epoch < Latest /\ ~backfill THEN "replay" ELSE "put"

-----------------------------------------------------------------------------
(***************************************************************************)
(* The recovery scheduler, as functions of its record.                     *)
(***************************************************************************)

\* request: a trigger during a run asks for one more.
Requested(s) == IF s.at = "idle" THEN [s EXCEPT !.at = "ask"] ELSE [s EXCEPT !.again = TRUE]

\* The end of _runOnce in _drain's loop.
Ended(s) == [s EXCEPT !.at = IF s.again THEN "ask" ELSE "idle", !.again = FALSE, !.tries = 0]

TriesOnceMore(s) ==
    IF s.tries < MaxTries THEN [s EXCEPT !.at = "want", !.tries = @ + 1] ELSE Ended(s)

\* A failed attempt is retried after a pause, up to maxAttempts.
Retried(s) ==
    IF s.tries + 1 < MaxTries THEN [s EXCEPT !.at = "want", !.tries = @ + 1] ELSE Ended(s)

StaysHeld(s, who, ok) ==
    IF who = "sched" /\ ok THEN [s EXCEPT !.at = "settle"] ELSE s

\* The rotation returned to whoever called recoverIfPending.
Returned(s, who, ok) ==
    IF who # "sched" THEN s ELSE IF ok THEN [s EXCEPT !.at = "settle"] ELSE Retried(s)

\* The processor finished an event: a reconcile that waits for it ends, checkAll
\* follows the catch-up, and an epoch that was installed makes an owed album ask
\* again (onEpochInstalled).
Heard(s, for, ok) ==
    LET t == CASE for = "sched" -> Ended(s) [] for = "sync" -> Requested(s) [] OTHER -> s
    IN  IF ok /\ t.owed THEN Requested(t) ELSE t

-----------------------------------------------------------------------------
DeliveryInit ==
    /\ Init
    /\ phone \in Users
    /\ keyOf = [e \in Epoch |-> 0] /\ calls = {}
    /\ keys = [e \in Epoch |-> 0] /\ inbox = << >> /\ proc = Resting
    /\ rot = Free /\ kick = "none" /\ sched = Unasked /\ sync = "idle"
    /\ gone = FALSE /\ refused = FALSE /\ faults = 0

(***************************************************************************)
(* The server.                                                             *)
(***************************************************************************)

\* EmitToUsers: live only, so an event arrives or is lost.
Announced(epoch, joined) ==
    \/ UNCHANGED inbox
    \/ /\ Len(inbox) < MaxEvents
       /\ inbox' = Append(inbox, [epoch |-> epoch, joined |-> joined, for |-> "ws"])

Accepts(c) == album = "live" /\ ActiveAdmin(phone) /\ c.epoch = cur + 1 /\ CoversActiveSet(c.to)

TakesAnyAnswer(c, how) == rot' = IF rot.at = "posted" THEN [rot EXCEPT !.at = how] ELSE rot

Answered(c, how) == rot' = IF rot.at = "posted" /\ rot.call = c THEN [rot EXCEPT !.at = how] ELSE rot

\* The phone's request reaches the server, which answers a phone that still
\* waits for it.
SetEpoch(c) ==
    /\ c \in calls /\ calls' = calls \ {c}
    /\ \/ /\ InsertEpoch(phone, c.epoch, c.to)
          /\ keyOf' = [keyOf EXCEPT ![c.epoch] = c.key]
          /\ Announced(c.epoch, FALSE) /\ Answered(c, "won") /\ NoFault
       \/ /\ ~Accepts(c) /\ Answered(c, "recheck") /\ NoFault
          /\ UNCHANGED <<keyVars, keyOf, inbox>>
       \/ /\ Answered(c, "recheck") /\ Fault
          /\ UNCHANGED <<keyVars, keyOf, inbox>>
    /\ UNCHANGED <<phone, keys, proc, kick, sched, sync, gone, refused>>

\* Another phone of an admin rotates.
OthersRotate(u, R) ==
    /\ u # phone /\ InsertEpoch(u, cur + 1, R)
    /\ keyOf' = [keyOf EXCEPT ![cur + 1] = FreshKey]
    /\ IF phone \in R THEN Announced(cur + 1, FALSE) ELSE UNCHANGED inbox
    /\ UNCHANGED <<phone, calls, keys, proc, rot, kick, sched, sync, gone, refused, faults>>

\* inviteExistingUser: the phone's keys must be contiguous from 0, and it wraps
\* all of them.
Invite(s, t, last) ==
    /\ DeliverMember(s, t, last)
    /\ s = phone => Present = 0 .. last
    /\ IF t = phone THEN Announced(last, TRUE) ELSE UNCHANGED inbox
    /\ UNCHANGED <<phone, keyOf, calls, keys, proc, rot, kick, sched, sync, gone, refused, faults>>

\* albumService.removeMember, which coordinator.kick waits for.
Remove(c, t) ==
    /\ RemoveMember(c, t)
    /\ kick' = IF c = phone /\ t # phone THEN "sent" ELSE kick
    /\ c = phone => kick = "none"
    /\ UNCHANGED <<phone, keyOf, calls, keys, inbox, proc, rot, sched, sync, gone, refused, faults>>

\* The removal commits; kick goes on if it succeeded and the answer arrives.
Revoke(r) ==
    /\ RevokeMemberTx(r)
    /\ \/ /\ kick' = IF kick # "sent" \/ r.caller # phone THEN kick
                     ELSE IF r.target \in revoked' THEN "revoked" ELSE "none"
          /\ NoFault
       \/ kick = "sent" /\ r.caller = phone /\ kick' = "none" /\ Fault
    /\ gone' = (gone \/ phone \in revoked' \ revoked)
    /\ UNCHANGED <<phone, keyOf, calls, keys, inbox, proc, rot, sched, sync, refused>>

\* The phone that creates the album posts epoch 0 for itself right away.
Create(u) ==
    /\ CreateWithAdmin(u)
    /\ rot' = IF u = phone THEN [Free EXCEPT !.at = "post", !.who = "create"] ELSE rot
    /\ UNCHANGED <<phone, keyOf, calls, keys, inbox, proc, kick, sched, sync, gone, refused, faults>>

\* albumService.deleteAlbum, which every member's phone learns of.
Delete(u) ==
    /\ DeleteAlbum(u)
    /\ gone' = (gone \/ phone \in Active)
    /\ UNCHANGED <<phone, keyOf, calls, keys, inbox, proc, rot, kick, sched, sync, refused, faults>>

-----------------------------------------------------------------------------
(***************************************************************************)
(* The rotation: recoverIfPending, rotate and bootstrap.                   *)
(***************************************************************************)

\* isRotationRequired: TRUE, FALSE or no answer; the server itself answers
\* FALSE when it cannot look the debt up.
Required == Admitted /\ RotationRequired /\ NoFault
NotRequired == Admitted /\ ((~RotationRequired /\ NoFault) \/ Fault)
Unanswered == (~Admitted /\ NoFault) \/ Fault

Finish(who, ok) == rot' = Free /\ sched' = Returned(sched, who, ok)

Threw == rot' = [rot EXCEPT !.at = "recheck"] /\ UNCHANGED sched

\* _rotateIfRequired, once the caller has the mutex.
RotateIfRequired(who) ==
    /\ rot.at = "free"
    /\ IF who = "kick" THEN kick = "revoked" /\ kick' = "none"
       ELSE sched.at = "want" /\ UNCHANGED kick
    /\ \/ /\ Required /\ rot' = [Free EXCEPT !.at = "post", !.who = who]
          /\ sched' = IF who = "sched" THEN [sched EXCEPT !.at = "held"] ELSE sched
       \/ NotRequired /\ Finish(who, TRUE)
       \/ Unanswered /\ Finish(who, FALSE)
    /\ UNCHANGED <<keyVars, phone, keyOf, calls, keys, inbox, proc, sync, gone, refused>>

\* _rotateForActiveSet and rotate up to setEpoch: the roster is listed, every
\* identity resolved, a key minted and wrapped.  Bootstrap wraps for itself.
PostEpoch ==
    /\ rot.at = "post"
    /\ \/ LET e == IF rot.who = "create" THEN 0 ELSE NextEpoch
              c == [epoch |-> e, key |-> FreshKey,
                    to |-> IF rot.who = "create" THEN {phone} ELSE Active]
          IN  /\ Admitted /\ e \in Epoch /\ Cardinality(calls) < MaxCalls
              /\ calls' = calls \cup {c} /\ rot' = [rot EXCEPT !.at = "posted", !.call = c]
              /\ UNCHANGED sched /\ NoFault
       \/ Admitted /\ NextEpoch \notin Epoch /\ Threw /\ UNCHANGED calls /\ NoFault
       \/ Unanswered /\ Threw /\ UNCHANGED calls
    /\ UNCHANGED <<keyVars, phone, keyOf, keys, inbox, proc, kick, sync, gone, refused>>

\* The phone gives up waiting, while its request may still arrive.
GiveUp ==
    /\ rot.at = "posted" /\ Threw /\ Fault
    /\ UNCHANGED <<keyVars, phone, keyOf, calls, keys, inbox, proc, kick, sync, gone, refused>>

\* rotate installs its own key once the server has taken it.
InstallOwn ==
    /\ rot.at = "won"
    /\ LET verdict == Verdict(rot.call.epoch, rot.call.key, FALSE)
       IN  \/ /\ verdict # "replay" /\ Finish(rot.who, TRUE) /\ NoFault
              /\ keys' = [keys EXCEPT ![rot.call.epoch] = rot.call.key]
           \/ Threw /\ UNCHANGED keys /\ (IF verdict = "replay" THEN NoFault ELSE Fault)
    /\ UNCHANGED <<keyVars, phone, keyOf, calls, inbox, proc, kick, sync, gone, refused>>

\* The catch of _rotateIfRequired: a rotation that is no longer owed counts as
\* done, whoever committed it; an identity that does not verify is not worth
\* a retry (_retryable).  Bootstrap has no such second look.
StillRequired ==
    /\ rot.at = "recheck"
    /\ \/ rot.who # "create" /\ NotRequired /\ Finish(rot.who, TRUE)
       \/ rot.who # "create" /\ (Required \/ Unanswered) /\ Finish(rot.who, FALSE)
       \/ rot.who = "sched" /\ (Required \/ Unanswered) /\ rot' = Free /\ sched' = Ended(sched)
       \/ rot.who = "create" /\ Finish(rot.who, FALSE) /\ NoFault
    /\ UNCHANGED <<keyVars, phone, keyOf, calls, keys, inbox, proc, kick, sync, gone, refused>>

RotStep == RotateIfRequired("kick") \/ RotateIfRequired("sched") \/ PostEpoch
           \/ InstallOwn \/ StillRequired

-----------------------------------------------------------------------------
(***************************************************************************)
(* The recovery scheduler.                                                 *)
(***************************************************************************)

\* _runOnce: only the admin's phone rotates, the others wait for it.
Ask ==
    /\ sched.at = "ask"
    /\ \/ /\ Required
          /\ sched' = IF IsAdmin THEN [sched EXCEPT !.at = "want", !.tries = 0, !.owed = TRUE]
                      ELSE Ended([sched EXCEPT !.owed = TRUE])
       \/ NotRequired /\ sched' = [sched EXCEPT !.at = "settle"]
       \/ Unanswered /\ sched' = Ended(sched)
    /\ UNCHANGED <<keyVars, phone, keyOf, calls, keys, inbox, proc, rot, kick, sync, gone, refused>>

\* _settle: an album that was owed is reconciled, through the processor.
Settle ==
    /\ sched.at = "settle"
    /\ \/ /\ sched.owed /\ Admitted /\ cur >= 0 /\ NoFault
          /\ inbox' = Append(inbox, [epoch |-> cur, joined |-> FALSE, for |-> "sched"])
          /\ sched' = [sched EXCEPT !.at = "reconcile", !.owed = FALSE]
       \/ /\ \/ ~sched.owed /\ NoFault
             \/ sched.owed /\ Unanswered
          /\ sched' = Ended([sched EXCEPT !.owed = FALSE]) /\ UNCHANGED inbox
    /\ UNCHANGED <<keyVars, phone, keyOf, calls, keys, proc, rot, kick, sync, gone, refused>>

SchedStep == Ask \/ Settle

-----------------------------------------------------------------------------
(***************************************************************************)
(* The epoch processor.                                                    *)
(***************************************************************************)

\* The event is done with; a catch-up, or a reconcile, waited for it.
ProcessorEnds(for, ok) ==
    /\ proc' = Resting
    /\ sync' = IF for = "sync" THEN "idle" ELSE sync
    /\ sched' = Heard(sched, for, ok)

Install(todo, below, for) ==
    IF todo = {} THEN ProcessorEnds(for, TRUE)
    ELSE /\ proc' = [at |-> "fetch", todo |-> todo, below |-> below, key |-> 0, for |-> for]
         /\ UNCHANGED <<sync, sched>>

\* handleEvent: what is to be installed is read once, at its start.
HandleEvent ==
    /\ proc.at = "idle" /\ inbox # << >> /\ inbox' = Tail(inbox)
    /\ LET ev == Head(inbox)
       IN  IF ev.joined THEN Install(0 .. ev.epoch, MaxEpoch + 1, ev.for)
           ELSE Install(Missing(ev.epoch), Latest, ev.for)
    /\ UNCHANGED <<keyVars, phone, keyOf, calls, keys, rot, kick, gone, refused, faults>>

\* _installEpochInner up to installVerified: the wrap is fetched and opened.
FetchWrap ==
    /\ proc.at = "fetch"
    /\ LET e == Min(proc.todo)
           there == Admitted /\ phone \in wraps[e]
       IN  \/ /\ there /\ NoFault /\ proc' = [proc EXCEPT !.at = "install", !.key = keyOf[e]]
              /\ UNCHANGED <<sync, sched>>
           \/ (IF there THEN Fault ELSE NoFault) /\ ProcessorEnds(proc.for, FALSE)
    /\ UNCHANGED <<keyVars, phone, keyOf, calls, keys, inbox, rot, kick, gone, refused>>

\* installVerified; a refusal blocks the album (replayRejected).
InstallFetched ==
    /\ proc.at = "install"
    /\ LET e == Min(proc.todo)
       IN  IF Verdict(e, proc.key, e < proc.below) = "replay"
           THEN /\ refused' = (refused \/ Admitted) /\ UNCHANGED keys
                /\ ProcessorEnds(proc.for, FALSE)
           ELSE /\ keys' = [keys EXCEPT ![e] = proc.key] /\ UNCHANGED refused
                /\ Install(proc.todo \ {e}, proc.below, proc.for)
    /\ UNCHANGED <<keyVars, phone, keyOf, calls, inbox, rot, kick, gone, faults>>

ProcStep == HandleEvent \/ FetchWrap \/ InstallFetched

-----------------------------------------------------------------------------
(***************************************************************************)
(* The app around them.                                                    *)
(***************************************************************************)

\* catchUpAll, at start and on every reconnect: a phone without any key takes
\* the album for one it has just joined.  checkAll follows it in any case.
CatchUp ==
    /\ sync = "idle"
    /\ \/ /\ Admitted /\ cur >= 0 /\ NoFault /\ sync' = "handle"
          /\ inbox' = Append(inbox, [epoch |-> cur, joined |-> Latest < 0, for |-> "sync"])
          /\ UNCHANGED sched
       \/ /\ (IF Admitted /\ cur >= 0 THEN Fault ELSE NoFault)
          /\ sched' = Requested(sched) /\ UNCHANGED <<inbox, sync>>
    /\ UNCHANGED <<keyVars, phone, keyOf, calls, keys, proc, rot, kick, gone, refused>>

\* A member_revoked event, a listing that shows the debt, a refused upload or
\* the user asks for a rotation.
Prompt ==
    /\ sched' = Requested(sched)
    /\ UNCHANGED <<keyVars, phone, keyOf, calls, keys, inbox, proc, rot, kick, sync, gone, refused, faults>>

\* The app is killed: what it holds in memory goes, its requests may arrive.
Crash ==
    /\ Fault /\ inbox' = << >> /\ proc' = Resting /\ rot' = Free /\ kick' = "none"
    /\ sched' = Unasked /\ sync' = "idle"
    /\ UNCHANGED <<keyVars, phone, keyOf, calls, keys, gone, refused>>

\* wipeLocalAlbum, as far as the keys go: deleted one by one, with what could
\* not be deleted kept for the next attempt.
Wipe ==
    /\ gone
    /\ \E S \in SUBSET Present :
          /\ keys' = [e \in Epoch |-> IF e \in S THEN keys[e] ELSE 0]
          /\ gone' = (S # {})
          /\ IF S = {} THEN sched' = [sched EXCEPT !.owed = FALSE, !.again = FALSE] /\ NoFault
             ELSE UNCHANGED sched /\ Fault
    /\ UNCHANGED <<keyVars, phone, keyOf, calls, inbox, proc, rot, kick, sync, refused>>

ServerStep ==
    \/ \E u \in Users : Create(u)
    \/ \E u \in Users, R \in SUBSET Users : OthersRotate(u, R)
    \/ \E s, t \in Users, last \in Epoch : Invite(s, t, last)
    \/ \E c, t \in Users : Remove(c, t)
    \/ \E r \in revoking : Revoke(r)
    \/ \E u \in Users : Delete(u)

PhoneStep == RotStep \/ GiveUp \/ SchedStep \/ ProcStep \/ CatchUp \/ Prompt \/ Crash \/ Wipe

DeliveryNext == ServerStep \/ (\E c \in calls : SetEpoch(c)) \/ PhoneStep

DeliverySpec == DeliveryInit /\ [][DeliveryNext]_deliveryVars

\* The app is opened or reconnects again and again, its loops run, its requests
\* arrive or are lost, and a wipe that is due is tried again.
DeliveryFairness ==
    /\ WF_deliveryVars(CatchUp) /\ WF_deliveryVars(ProcStep) /\ WF_deliveryVars(RotStep)
    /\ WF_deliveryVars(SchedStep) /\ WF_deliveryVars(Wipe)
    /\ WF_deliveryVars(\E c \in calls : SetEpoch(c))

-----------------------------------------------------------------------------
\* Types, those of AlbumKeys among them, and what ties the loops together.
DeliveryTypeOK ==
    /\ TypeOK
    /\ phone \in Users /\ keyOf \in [Epoch -> Key \cup {0}] /\ keys \in [Epoch -> Key \cup {0}]
    /\ calls \subseteq Call /\ inbox \in Seq(Event) /\ gone \in BOOLEAN /\ refused \in BOOLEAN
    /\ rot.at \in {"free", "post", "posted", "won", "recheck"} /\ rot.call \in Call \cup {NoCall}
    /\ proc.todo \subseteq Epoch /\ sched.tries \in 0 .. MaxTries - 1 /\ faults \in 0 .. MaxFaults
    /\ rot.who = "sched" <=> sched.at = "held"
    /\ proc.for = "sync" => sync = "handle"
    /\ \A e \in Epoch : e <= cur => keyOf[e] # 0

\* The phone never holds a key for an epoch but the one the members were sent,
\* and an honest server never makes its replay check block the album, although
\* a request it gave up may commit, its own key may be lost before it is
\* installed, and two loops install side by side (epoch_rotator.dart:223).
KeysAgree ==
    /\ ~refused
    /\ \A e \in Present : keys[e] = keyOf[e]

\* A member's phone gets every key of the album up to the current one, whatever
\* was lost before: events, answers, its own key after a rotation, half a join,
\* half a wipe.
KeysArrive ==
    \A e \in Epoch : (Admitted /\ cur = e) ~> (0 .. e \subseteq Present \/ ~Admitted)

\* A rotation the album owes is made once the admin's phone is used again,
\* whatever stopped the one that followed the removal.
DebtPaid == (IsAdmin /\ RotationRequired) ~> ~(IsAdmin /\ RotationRequired)

=============================================================================
