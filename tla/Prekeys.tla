-------------------------------- MODULE Prekeys --------------------------------
(***************************************************************************)
(* The public keys of one account: its identity, its signed prekey (SPK)   *)
(* and its one-time prekeys (OPK), as the server stores them, as the       *)
(* account's device publishes and rotates them, and as others fetch them.  *)
(*                                                                         *)
(* The device writes its labels one at a time and may be killed between    *)
(* two writes; a call it gave up may still reach the server later.  A key  *)
(* is a number in the order of minting; an OPK is its index and the        *)
(* identity generation it was minted under.  A step of the server is one   *)
(* statement or one transaction.  Signatures are perfect: a call carries   *)
(* the identity it was signed with.  Device and server share one clock.    *)
(* The audit rows of rotations are written and never read; they are left   *)
(* out.                                                                    *)
(***************************************************************************)
EXTENDS Integers, FiniteSets

CONSTANTS Fetchers,   \* requests for a prekey bundle, by inviters and rotators
          Boot,       \* OPKs published by bootstrap (5 in the code)
          Target,     \* OPKs a replenishment fills up to (20)
          Low,        \* a device told of fewer replenishes (5)
          Period,     \* age at which the SPK is rotated (30 days)
          Skew,       \* accepted distance of a timestamp from now (5 minutes)
          Ahead,      \* how far ahead the device dates a recovery (4 minutes)
          MaxNow,     \* bound: the clock
          MaxGen,     \* bound: identity generations minted by bootstrap
          MaxSpk,     \* bound: SPKs minted
          MaxIdx,     \* bound: OPK indices
          MaxCalls    \* bound: calls in flight

ASSUME PoolSizes == Boot \in Nat \ {0} /\ Target \in Nat /\ Low \in Nat
ASSUME Windows == /\ Period \in Nat /\ Skew \in Nat /\ Ahead \in Nat
                  /\ Ahead < Skew /\ Skew <= Period
ASSUME PrekeyBounds == /\ {MaxNow, MaxGen, MaxSpk, MaxIdx, MaxCalls} \subseteq Nat
                       /\ Boot <= MaxIdx + 1

Never == -1                 \* an absent timestamp, or no OPK in a bundle
Idx == 0 .. MaxIdx
BootIdx == 0 .. Boot - 1
Spk == 1 .. MaxSpk
Slots == {"current", "pending", "previous", "archived"}
Time == 0 .. MaxNow + Ahead

VARIABLES
    now,         \* seconds, for the device and for the server
    srv,         \* the users row: identity, SPK, its timestamp, what was signed
    replaced,    \* history: the SPK the server advertised before this one
    rows,        \* one_time_prekeys by index
    fetches,     \* GetPrekeyBundle requests and the bundles they returned
    calls,       \* the device's writing calls the server has not finished
    gen,         \* identity generations minted so far
    minted,      \* SPKs minted so far
    ik,          \* labels miuchio.ik and miuchio.lk: a generation, 0 without
    slot,        \* labels miuchio.spk.*: an SPK, 0 without
    opks,        \* indices with a label miuchio.opk.*
    kept,        \* the other durable entries: timestamps and publication marks
    boot,        \* what bootstrap is doing
    settle,      \* what settleSpkState, the holder of the SPK lock, is doing
    refill,      \* what the one replenishment is doing
    dropped      \* history: SPKs whose label reconciliation removed

serverVars == <<srv, replaced, rows, fetches>>
deviceVars == <<gen, minted, ik, slot, opks, kept, dropped>>
tasks == <<boot, settle, refill>>
vars == <<now, serverVars, calls, deviceVars, tasks>>

NoServerKeys == [ik |-> 0, spk |-> 0, ts |-> Never, sig |-> <<0, Never>>]
NoRow == [ik |-> 0, used |-> FALSE]
NoBundle == [st |-> "none", opk |-> Never]
Idle == [at |-> "idle", round |-> 0, key |-> 0, ts |-> 0]

Held == {slot[s] : s \in Slots} \ {0}
Free == {i \in Idx : rows[i].ik # 0 /\ ~rows[i].used}
Bootstrapped == ik # 0 /\ kept.identityPublished /\ kept.opksPublished

-----------------------------------------------------------------------------
(***************************************************************************)
(* Conditions of the code.  No action uses a slip.                         *)
(***************************************************************************)

\* _ensureKeysGenerated resumes with what it persisted if all of it is there.
AllPresent == ik # 0 /\ slot["current"] # 0 /\ BootIdx \subseteq opks

\* withinSkew: the server's check of a timestamp it is given.
WithinSkew(ts) == now - ts \in -Skew .. Skew

\* PublishOrRefreshIdentity: the second UPDATE takes an identical retry only.
IdenticalRetry(c) == srv.ik = c.ik /\ srv.spk = c.spk

\* Its CASE expressions move signature and timestamp together, and forward.
Refreshed(c) ==
    IF c.ts > srv.ts THEN [srv EXCEPT !.sig = <<c.spk, c.ts>>, !.ts = c.ts] ELSE srv

CheckedBefore(c) == TRUE
\* RotateSPK: the timestamp must advance under the row lock.
Advances(c) == c.ts > srv.ts

Resurrects(c, i) == [ik |-> c.ik, used |-> FALSE]
\* CreateBatchAtomic: ON CONFLICT DO NOTHING.
RowAfter(c, i) == IF rows[i].ik = 0 THEN [ik |-> c.ik, used |-> FALSE] ELSE rows[i]

OnlyReturned(i) == rows
\* PopRandom marks the row it returns.
Consumed(i) == [rows EXCEPT ![i].used = TRUE]

\* _ensureSpkRotated never replaces a pending key.
NothingPending == slot["pending"] = 0

MovesAgain == FALSE
\* _promotePendingSpk: an interrupted promotion has moved current already.
AlreadyMoved == slot["current"] = slot["pending"]

\* The timestamp of a rotation beats the server's unknown one.
RotationTs == IF kept.conflictTs >= now THEN kept.conflictTs + 1 ELSE now

RotationDue == kept.spkTs # Never /\ now - kept.spkTs >= Period

Room == Cardinality(calls) < MaxCalls

-----------------------------------------------------------------------------
Init ==
    /\ now = 0
    /\ srv = NoServerKeys
    /\ replaced = 0
    /\ rows = [i \in Idx |-> NoRow]
    /\ fetches = [f \in Fetchers |-> NoBundle]
    /\ calls = {}
    /\ gen = 0
    /\ minted = 0
    /\ ik = 0
    /\ slot = [s \in Slots |-> 0]
    /\ opks = {}
    /\ kept = [spkTs |-> Never, conflictTs |-> Never,
               identityPublished |-> FALSE, opksPublished |-> FALSE]
    /\ boot = Idle
    /\ settle = Idle
    /\ refill = Idle
    /\ dropped = {}

Tick == now < MaxNow /\ now' = now + 1 /\ UNCHANGED <<serverVars, calls, deviceVars, tasks>>

-----------------------------------------------------------------------------
(***************************************************************************)
(* Calls of the device.  "heard" is whether the task that sent it still    *)
(* waits for the answer.  A call is "admitted" once its checks passed and  *)
(* before the statement that applies it.                                   *)
(***************************************************************************)

UpsertCall(spk, ts) ==
    [kind |-> "upsert", ik |-> ik, spk |-> spk, ts |-> ts, idx |-> {},
     by |-> "boot", heard |-> TRUE, admitted |-> FALSE]
RotateCall(spk, ts) ==
    [kind |-> "rotate", ik |-> ik, spk |-> spk, ts |-> ts, idx |-> {},
     by |-> "settle", heard |-> TRUE, admitted |-> FALSE]
OpksCall(I, task) ==
    [kind |-> "opks", ik |-> ik, spk |-> 0, ts |-> Never, idx |-> I,
     by |-> task, heard |-> TRUE, admitted |-> FALSE]

\* What a task does once its call succeeded, or failed or timed out.
BootAfter(c, ok) ==
    IF ~ok THEN Idle
    ELSE IF c.kind = "upsert" THEN [boot EXCEPT !.at = "setSpkTs", !.ts = c.ts]
    ELSE [boot EXCEPT !.at = "markOpks"]

PromotesAnyway(c, ok) == [Idle EXCEPT !.at = "demote", !.round = 2, !.ts = c.ts]
\* settleSpkState: a failed first rotation is reconciled at once, a failed
\* second one is left to the next call.
SettleAfter(c, ok) ==
    IF ok THEN [Idle EXCEPT !.at = "demote", !.round = 2, !.ts = c.ts]
    ELSE IF settle.round = 1 THEN [Idle EXCEPT !.at = "fetch", !.round = 2]
    ELSE Idle

Answer(c, ok) ==
    /\ boot' = IF c.heard /\ c.by = "boot" THEN BootAfter(c, ok) ELSE boot
    /\ settle' = IF c.heard /\ c.by = "settle" THEN SettleAfter(c, ok) ELSE settle
    /\ refill' = IF c.heard /\ c.by = "refill" THEN Idle ELSE refill

\* Time out, lose the connection: the call itself may still arrive.
GiveUp(c) ==
    /\ c.heard
    /\ calls' = (calls \ {c}) \cup {[c EXCEPT !.heard = FALSE]}
    /\ Answer(c, FALSE)
    /\ UNCHANGED <<now, serverVars, deviceVars>>

LoseCall(c) ==
    /\ ~c.heard /\ ~c.admitted
    /\ calls' = calls \ {c}
    /\ UNCHANGED <<now, serverVars, deviceVars, tasks>>

Kill ==
    /\ tasks # <<Idle, Idle, Idle>>
    /\ calls' = {[c EXCEPT !.heard = FALSE] : c \in calls}
    /\ boot' = Idle /\ settle' = Idle /\ refill' = Idle
    /\ UNCHANGED <<now, serverVars, deviceVars>>

-----------------------------------------------------------------------------
(***************************************************************************)
(* The server.                                                             *)
(***************************************************************************)

Refuse(c) ==
    /\ calls' = calls \ {c}
    /\ Answer(c, FALSE)
    /\ UNCHANGED <<now, serverVars, deviceVars>>

Admit(c) ==
    /\ calls' = (calls \ {c}) \cup {[c EXCEPT !.admitted = TRUE]}
    /\ UNCHANGED <<now, serverVars, deviceVars, tasks>>

Apply(c, keys) ==
    /\ calls' = calls \ {c}
    /\ srv' = keys
    /\ replaced' = IF keys.spk # srv.spk THEN srv.spk ELSE replaced
    /\ Answer(c, TRUE)
    /\ UNCHANGED <<now, rows, fetches, deviceVars>>

UpsertIdentity(c) ==
    /\ c.kind = "upsert" /\ ~c.admitted
    /\ IF WithinSkew(c.ts) THEN Admit(c) ELSE Refuse(c)

PublishOrRefreshIdentity(c) ==
    /\ c.kind = "upsert" /\ c.admitted
    /\ IF srv.ik = 0
       THEN Apply(c, [ik |-> c.ik, spk |-> c.spk, ts |-> c.ts, sig |-> <<c.spk, c.ts>>])
       ELSE IF IdenticalRetry(c) THEN Apply(c, Refreshed(c)) ELSE Refuse(c)

\* The service: its monotonicity check is repeated under the lock.
RotateSPK(c) ==
    /\ c.kind = "rotate" /\ ~c.admitted
    /\ IF WithinSkew(c.ts) /\ srv.ik = c.ik /\ c.ts > srv.ts THEN Admit(c) ELSE Refuse(c)

RotateSPKTx(c) ==
    /\ c.kind = "rotate" /\ c.admitted
    /\ IF Advances(c)
       THEN Apply(c, [srv EXCEPT !.spk = c.spk, !.ts = c.ts, !.sig = <<c.spk, c.ts>>])
       ELSE Refuse(c)

ReplenishOPKs(c) ==
    /\ c.kind = "opks"
    /\ calls' = calls \ {c}
    /\ LET ok == srv.ik = c.ik /\ \A i \in c.idx : rows[i].ik \in {0, c.ik}
       IN /\ rows' = IF ok THEN [i \in Idx |-> IF i \in c.idx THEN RowAfter(c, i) ELSE rows[i]]
                           ELSE rows
          /\ Answer(c, ok)
    /\ UNCHANGED <<now, srv, replaced, fetches, deviceVars>>

\* GetPrekeyBundle reads the identity, claims an OPK and counts the rest in
\* three statements.
ReadIdentity(f) ==
    /\ fetches[f].st = "none"
    /\ srv.ik # 0 /\ srv.spk # 0
    /\ fetches' = [fetches EXCEPT ![f].st = "read"]
    /\ UNCHANGED <<now, srv, replaced, rows, calls, deviceVars, tasks>>

PopRandom(f) ==
    /\ fetches[f].st = "read"
    /\ \/ \E i \in Free :
             /\ rows' = Consumed(i)
             /\ fetches' = [fetches EXCEPT ![f].st = "popped", ![f].opk = i]
       \/ /\ Free = {}
          /\ fetches' = [fetches EXCEPT ![f].st = "done"]
          /\ UNCHANGED rows
    /\ UNCHANGED <<now, srv, replaced, calls, deviceVars, tasks>>

\* writeBundle: below the threshold it sends e2ee.opk_low, which a connected
\* device answers by a replenishment, unless one is running.
WriteBundle(f) ==
    /\ fetches[f].st = "popped"
    /\ fetches' = [fetches EXCEPT ![f].st = "done"]
    /\ \/ UNCHANGED refill
       \/ /\ Cardinality(Free) < Low /\ Bootstrapped /\ refill = Idle
          /\ refill' = [Idle EXCEPT !.at = "count", !.round = Low]
    /\ UNCHANGED <<now, srv, replaced, rows, calls, deviceVars, boot, settle>>

-----------------------------------------------------------------------------
(***************************************************************************)
(* The device: bootstrap.                                                  *)
(***************************************************************************)

\* Labels are written one by one: the first n of identity, SPK and OPKs are
\* there when the device stops.
GenerateKeys(n) ==
    /\ boot = Idle /\ ~Bootstrapped
    /\ ~AllPresent /\ ~kept.identityPublished
    /\ gen < MaxGen /\ minted < MaxSpk
    /\ gen' = gen + 1
    /\ minted' = minted + 1
    /\ ik' = IF n > 0 THEN gen' ELSE 0
    /\ slot' = [s \in Slots |-> IF s = "current" /\ n > 1 THEN minted' ELSE 0]
    /\ opks' = {i \in BootIdx : n > i + 2}
    /\ kept' = [spkTs |-> Never, conflictTs |-> Never,
                identityPublished |-> FALSE, opksPublished |-> FALSE]
    /\ boot' = IF n = Boot + 2 THEN [Idle EXCEPT !.at = "publish", !.key = minted'] ELSE Idle
    /\ UNCHANGED <<now, serverVars, calls, settle, refill, dropped>>

ReadKeysFromStore ==
    /\ boot = Idle /\ ~Bootstrapped
    /\ AllPresent
    /\ boot' = [Idle EXCEPT !.at = "publish", !.key = slot["current"]]
    /\ UNCHANGED <<now, serverVars, calls, deviceVars, settle, refill>>

PublishIdentity ==
    /\ boot.at = "publish"
    /\ IF kept.identityPublished
       THEN boot' = [boot EXCEPT !.at = "opks"] /\ UNCHANGED calls
       ELSE /\ Room
            /\ calls' = calls \cup {UpsertCall(boot.key, now)}
            /\ boot' = [boot EXCEPT !.at = "wait"]
    /\ UNCHANGED <<now, serverVars, deviceVars, settle, refill>>

SetSpkTs ==
    /\ boot.at = "setSpkTs"
    /\ kept' = [kept EXCEPT !.spkTs = boot.ts]
    /\ boot' = [boot EXCEPT !.at = "markIdentity"]
    /\ UNCHANGED <<now, serverVars, calls, gen, minted, ik, slot, opks, dropped, settle, refill>>

MarkIdentityPublished ==
    /\ boot.at = "markIdentity"
    /\ kept' = [kept EXCEPT !.identityPublished = TRUE]
    /\ boot' = [boot EXCEPT !.at = "opks"]
    /\ UNCHANGED <<now, serverVars, calls, gen, minted, ik, slot, opks, dropped, settle, refill>>

PublishInitialOpks ==
    /\ boot.at = "opks" /\ Room
    /\ calls' = calls \cup {OpksCall(BootIdx, "boot")}
    /\ boot' = [boot EXCEPT !.at = "wait"]
    /\ UNCHANGED <<now, serverVars, deviceVars, settle, refill>>

MarkInitialOpksPublished ==
    /\ boot.at = "markOpks"
    /\ kept' = [kept EXCEPT !.opksPublished = TRUE]
    /\ boot' = Idle
    /\ UNCHANGED <<now, serverVars, calls, gen, minted, ik, slot, opks, dropped, settle, refill>>

-----------------------------------------------------------------------------
(***************************************************************************)
(* The device: settleSpkState, under the SPK lock.  Round 1 reconciles and *)
(* rotates, round 2 reconciles after a failed rotation, round 3 rotates    *)
(* again after a conflict found in round 2.                                *)
(***************************************************************************)

Ensure(round) == [Idle EXCEPT !.at = "ensure", !.round = round]

\* What follows a reconciliation that found no conflict, or failed.
Reconciled == IF settle.round = 1 THEN Ensure(1) ELSE Idle

SettleSpkState ==
    /\ settle = Idle /\ ik # 0
    /\ settle' = IF slot["pending"] = 0 THEN Ensure(1)
                 ELSE [Idle EXCEPT !.at = "fetch", !.round = 1]
    /\ UNCHANGED <<now, serverVars, calls, deviceVars, boot, refill>>

GetOwnKeys ==
    /\ settle.at = "fetch"
    /\ settle' = [settle EXCEPT !.at = "fetched", !.key = srv.spk, !.ts = srv.ts]
    /\ UNCHANGED <<now, serverVars, calls, deviceVars, boot, refill>>

FetchFails ==
    /\ settle.at \in {"fetch", "fetched"}
    /\ settle' = Reconciled
    /\ UNCHANGED <<now, serverVars, calls, deviceVars, boot, refill>>

\* _reconcilePendingSpk, on the answer it got: promote, discard or archive.
FinishRotation ==
    /\ settle.at = "fetched" /\ settle.key = slot["pending"]
    /\ settle' = [settle EXCEPT !.at = "demote"]
    /\ UNCHANGED <<now, serverVars, calls, deviceVars, boot, refill>>

DiscardPending ==
    /\ settle.at = "fetched"
    /\ settle.key # slot["pending"] /\ settle.key = slot["current"]
    /\ slot' = [slot EXCEPT !["pending"] = 0]
    /\ dropped' = dropped \cup {slot["pending"]}
    /\ settle' = Reconciled
    /\ UNCHANGED <<now, serverVars, calls, gen, minted, ik, opks, kept, boot, refill>>

RecordConflict ==
    /\ settle.at = "fetched" /\ settle.key \notin {slot["pending"], slot["current"]}
    /\ kept' = [kept EXCEPT !.conflictTs = settle.ts]
    /\ settle' = [settle EXCEPT !.at = "archive"]
    /\ UNCHANGED <<now, serverVars, calls, gen, minted, ik, slot, opks, dropped, boot, refill>>

ArchivePending ==
    /\ settle.at = "archive"
    /\ slot' = [slot EXCEPT !["archived"] = slot["pending"], !["pending"] = 0]
    /\ dropped' = dropped \cup ({slot["archived"]} \ {0})
    /\ settle' = Ensure(IF settle.round = 1 THEN 1 ELSE 3)
    /\ UNCHANGED <<now, serverVars, calls, gen, minted, ik, opks, kept, boot, refill>>

\* _ensureSpkRotated: the new key has a label before the server hears of it.
EnsureSpkRotated ==
    /\ settle.at = "ensure"
    /\ IF RotationDue /\ NothingPending /\ RotationTs - now <= Ahead
       THEN /\ Room /\ minted < MaxSpk
            /\ minted' = minted + 1
            /\ slot' = [slot EXCEPT !["pending"] = minted']
            /\ calls' = calls \cup {RotateCall(minted', RotationTs)}
            /\ settle' = [settle EXCEPT !.at = "wait"]
       ELSE settle' = Idle /\ UNCHANGED <<minted, slot, calls>>
    /\ UNCHANGED <<now, serverVars, gen, ik, opks, kept, dropped, boot, refill>>

\* _promotePendingSpk: five writes, each durable on its own.
Demote ==
    /\ settle.at = "demote"
    /\ slot' = IF AlreadyMoved THEN slot ELSE [slot EXCEPT !["previous"] = slot["current"]]
    /\ settle' = [settle EXCEPT !.at = "move"]
    /\ UNCHANGED <<now, serverVars, calls, gen, minted, ik, opks, kept, dropped, boot, refill>>

MoveCurrent ==
    /\ settle.at = "move"
    /\ slot' = [slot EXCEPT !["current"] = slot["pending"]]
    /\ settle' = [settle EXCEPT !.at = "stamp"]
    /\ UNCHANGED <<now, serverVars, calls, gen, minted, ik, opks, kept, dropped, boot, refill>>

Stamp ==
    /\ settle.at = "stamp"
    /\ kept' = [kept EXCEPT !.spkTs = settle.ts]
    /\ settle' = [settle EXCEPT !.at = "unpend"]
    /\ UNCHANGED <<now, serverVars, calls, gen, minted, ik, slot, opks, dropped, boot, refill>>

Unpend ==
    /\ settle.at = "unpend"
    /\ slot' = [slot EXCEPT !["pending"] = 0]
    /\ settle' = [settle EXCEPT !.at = "clear"]
    /\ UNCHANGED <<now, serverVars, calls, gen, minted, ik, opks, kept, dropped, boot, refill>>

ClearConflict ==
    /\ settle.at = "clear"
    /\ kept' = [kept EXCEPT !.conflictTs = Never]
    /\ settle' = Reconciled
    /\ UNCHANGED <<now, serverVars, calls, gen, minted, ik, slot, opks, dropped, boot, refill>>

-----------------------------------------------------------------------------
(***************************************************************************)
(* The device: replenishment.                                              *)
(***************************************************************************)

\* At a cold start the pool is filled to the target.
ReplenishOpks ==
    /\ Bootstrapped /\ refill = Idle
    /\ refill' = [Idle EXCEPT !.at = "count", !.round = Target]
    /\ UNCHANGED <<now, serverVars, calls, deviceVars, boot, settle>>

GetOPKCount ==
    /\ refill.at = "count"
    /\ refill' = IF Cardinality(Free) >= refill.round THEN Idle
                 ELSE [refill EXCEPT !.at = "mint", !.key = Cardinality(Free)]
    /\ UNCHANGED <<now, serverVars, calls, deviceVars, boot, settle>>

NextIdx == IF opks = {} THEN 0 ELSE 1 + CHOOSE i \in opks : \A j \in opks : j <= i

\* Fresh indices, each with its label before the batch is published; the
\* first n of them are there when the device stops.
MintOpks(n) ==
    LET needed == Target - refill.key
        fresh == NextIdx .. NextIdx + n - 1
    IN /\ refill.at = "mint"
       /\ n <= needed /\ fresh \subseteq Idx
       /\ opks' = opks \cup fresh
       /\ IF n = needed
          THEN /\ Room
               /\ calls' = calls \cup {OpksCall(fresh, "refill")}
               /\ refill' = [refill EXCEPT !.at = "wait"]
          ELSE refill' = Idle /\ UNCHANGED calls
       /\ UNCHANGED <<now, serverVars, gen, minted, ik, slot, kept, dropped, boot, settle>>

-----------------------------------------------------------------------------
ServerStep(c) ==
    \/ UpsertIdentity(c) \/ PublishOrRefreshIdentity(c)
    \/ RotateSPK(c) \/ RotateSPKTx(c)
    \/ ReplenishOPKs(c)
    \/ GiveUp(c) \/ LoseCall(c)

Next ==
    \/ Tick \/ Kill
    \/ \E c \in calls : ServerStep(c)
    \/ \E f \in Fetchers : ReadIdentity(f) \/ PopRandom(f) \/ WriteBundle(f)
    \/ \E n \in 0 .. Boot + 2 : GenerateKeys(n)
    \/ ReadKeysFromStore \/ PublishIdentity \/ SetSpkTs \/ MarkIdentityPublished
    \/ PublishInitialOpks \/ MarkInitialOpksPublished
    \/ SettleSpkState \/ GetOwnKeys \/ FetchFails
    \/ FinishRotation \/ DiscardPending \/ RecordConflict \/ ArchivePending
    \/ EnsureSpkRotated
    \/ Demote \/ MoveCurrent \/ Stamp \/ Unpend \/ ClearConflict
    \/ ReplenishOpks \/ GetOPKCount
    \/ \E n \in 0 .. Target : MintOpks(n)

Spec == Init /\ [][Next]_vars

-----------------------------------------------------------------------------
(***************************************************************************)
(* Properties.                                                             *)
(***************************************************************************)

\* Types, and what ties a row to its call: an OPK row belongs to the published
\* identity, and a bundle that names an OPK names one that is used up.
TypeOK ==
    /\ now \in 0 .. MaxNow
    /\ srv.ik \in 0 .. gen /\ srv.spk \in 0 .. minted /\ srv.ts \in Time \cup {Never}
    /\ replaced \in 0 .. minted /\ dropped \subseteq 1 .. minted
    /\ rows \in [Idx -> [ik : {0, srv.ik}, used : BOOLEAN]]
    /\ \A f \in Fetchers :
          /\ fetches[f].st \in {"none", "read", "popped", "done"}
          /\ fetches[f].opk # Never => rows[fetches[f].opk].used
    /\ gen \in 0 .. MaxGen /\ minted \in 0 .. MaxSpk /\ ik \in 0 .. gen
    /\ slot \in [Slots -> 0 .. minted] /\ opks \subseteq Idx
    /\ kept.spkTs \in Time \cup {Never} /\ kept.conflictTs \in Time \cup {Never}
    /\ \A c \in calls : c.ts \in Time \cup {Never} /\ c.idx \subseteq Idx

\* A one-time prekey goes into one bundle: also with two requests at once, and
\* with a batch that is published again after some of it was claimed.
OpkGivenOnce ==
    \A f, g \in Fetchers :
        f # g /\ fetches[f].opk # Never => fetches[f].opk # fetches[g].opk

OpkAddressable ==
    \A i \in Idx : rows[i].ik # 0 => ik = rows[i].ik /\ i \in opks
IdentityHeld == srv.ik # 0 => ik = srv.ik /\ slot["current"] # 0
SignatureFits == srv.spk # 0 => srv.sig = <<srv.spk, srv.ts>>
SpkAddressable ==
    \A k \in {srv.spk, replaced} \ {0} : k \in Held \cup dropped

\* What the server hands out works, whatever bootstrap and rotations lost and
\* repeated: the identity is the device's and all its keys are there; the
\* signature is over the very SPK and timestamp beside it; the SPK, and the one
\* before, from which a wrap may still be on its way, is in a slot the device
\* tries, except a key that a reconciliation gave up; and every OPK ever given
\* out, or that may be, is on the device.
AdvertisedWorks == IdentityHeld /\ SignatureFits /\ SpkAddressable /\ OpkAddressable

\* With nothing pending and nothing being moved, the device's current SPK is
\* the advertised one, unless that is a key a reconciliation archived or gave up.
SettledAgrees ==
    (srv.spk # 0 /\ slot["pending"] = 0) =>
        srv.spk \in {slot["current"], slot["archived"]} \cup dropped

\* The server's rows, in the words of KeyDirectory: a bundle has its OPK once
\* that was popped.
Directory == INSTANCE KeyDirectory
             WITH Requests <- Fetchers, Opks <- Idx, identity <- srv.ik,
                  spk <- srv.spk, ts <- srv.ts, signed <- srv.sig,
                  free <- Free, claimed <- {i \in Idx : rows[i].used},
                  bundle <- [f \in Fetchers |-> fetches[f].opk]

\* To others the account's keys are a directory with one identity, signed
\* prekeys that only get younger and OPKs that are claimed once, whatever kills,
\* lost answers, late rotations and repeated publications do
\* (prekey/repo.go:93, "so concurrent rotations remain ordered").
KeepsDirectory == Directory!Spec

\* Timestamps only advance, and an SPK that was replaced does not come back,
\* whichever order delayed rotations and publications arrive in.
NoRollback ==
    [][/\ srv'.ts >= srv.ts
       /\ srv'.spk # srv.spk => srv'.ts > srv.ts /\ srv'.spk > srv.spk]_vars

\* The reason given in the device's own tests: the key the server may have
\* accepted is addressable.
AcceptedAddressable == srv.spk # 0 => srv.spk \in Held

=============================================================================
