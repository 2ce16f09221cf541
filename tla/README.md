# Keepsy (miuchio): a TLA+ development of its server and its device protocols

Keepsy is an end-to-end encrypted shared photo album: a Go server
(PostgreSQL, Redis, an S3 store) that never sees a key, and a Flutter client
that does all the sealing. The server's job is to be a careful bookkeeper: who
is a member, which key epoch is current, who was handed which epoch's master
key, and which encrypted objects still belong to anybody. Nearly everything
that can go wrong is an order of transactions that nobody wrote a test for.

The app is the other half of the same bookkeeping: it is killed at any moment,
loses answers, hears of changes late or never, and must still end with the keys,
the credentials and the albums that are its own.

This directory holds models of both halves translated from the source,
configurations that model-check them with TLC, and proofs checked by TLAPS.
`PROJECT.json` maps every definition to the lines it stands for and lists the
hazards, the runs, the mutants and the theorems.

## 1. Inventory

Paths are under `src/server/internal` (server) and `src/client/lib` (client).

| Component | State | Operations | Talks to | Hard behaviour | What makes it correct |
|---|---|---|---|---|---|
| Album key lifecycle: `repository/album_repo.go`, `removal_repo.go`, `rotation.go`, `e2ee/epoch`, `e2ee/invite`, `service/album_service.go` | `albums` (`rotation_required`), `album_members` (role, `revoked_at`), `album_member_identities`, `album_epochs`, `album_epoch_wraps` | create, post an epoch, invite or reactivate, remove or leave, delete | users row locks, media, avatars | roles, epochs and rosters are read before the album lock; departures race rotations and joins | gate open implies key held by exactly the members; no hole in a member's history; one admin; cap |
| Media publication: `service/media_service.go`, `repository/media_repo.go`, `removal_repo.go` | `media` rows with a `reservation_id`, `albums.media_generation` | reserve, presign, confirm, abort, delete, stale sweep | middleware, S3, album key gate | a confirm spans an unlocked read, HEADs and a transaction; retries replace the row | published only by a member, only under a key members hold; objects there |
| Object cleanup queue: `media_repo.go`, `media_service.go`, `storage/s3.go` | `media_object_cleanup` | enqueue in the removing transaction, delete, acknowledge, reschedule | S3 | late PUTs, failed acknowledgements, revived keys | every object belongs to a row or is on its way out; queued keys eventually gone |
| Member avatars: `repository/avatar_repo.go`, `service/avatar_service.go` | `member_avatars` | reserve, confirm, drop pending, remove, sweep | roster, cleanup queue | no reservation id; cascades; key reuse | one shown avatar each; no key lost; what is shown is stored |
| Account deletion: `repository/account_deletion_repo.go`, `service/account_deletion.go` | `users.deleting_at`, `account_deletions`, `account_deletion_receipts` | preflight, accept, abandon, claim due, remove membership, finish | every album, sessions, client gate | plan stale at acceptance; job crash and retry; invites racing the job | finishes; destroys shared albums only with consent |
| Sessions and membership middleware: `middleware/auth.go`, `membership.go`, `repository/session_repo.go` | `sessions` | authenticate, create, revoke, purge | every request | a request outlives the check it passed | nothing acts for a deleting account |
| One-time passwords and sign-in: `service/auth_service.go`, `repository/otp_repo.go` | OTP in Redis with attempts | send, verify, sign in or create | sessions, users | concurrent guesses; sign-in racing deletion | a code is used once; attempts bounded |
| Prekeys: `e2ee/prekey`, `repository/prekey_repo.go` | `one_time_prekeys`, signed prekey columns, `spk_rotations` | publish, rotate, fetch bundle (claims one) | invites, epochs | concurrent claims; rotation against in-flight bundles | a one-time prekey is handed out once |
| Websocket fanout: `ws/` | connections in memory, tickets in Redis | register, emit, redeem ticket | every mutation's handler | live-only and lossy | clients converge by listing again |
| Rate limits, handlers, configuration, logging | counters; none | - | - | - | - |
| Epoch processor, album keys (client): `e2ee/epoch_processor.dart`, `album_keys.dart` | sealed album keys on the device | catch up, process a wrap, install | epoch API, trust pins | lost events, restarts, equivocating server | installs only verified keys, converges |
| Rotation and recovery (client): `epoch_rotator.dart`, `rotation_recovery.dart`, `member_removal.dart` | phases per album | rotate, recover, reconcile | epoch API | app stops between removal and rotation; lost answers; drift | a debt is eventually paid |
| Upload coordinator and outbox (client): `domain/upload`, `data/upload` | outbox records on disk | enqueue, seal, reserve, PUT, confirm, resume | media API, album keys | restart mid-upload, epoch moves under a sealed file | every queued photo is published once or shown as failed |
| Avatar publisher (client): `domain/avatar` | desired and published avatar per album | publish, retry | avatar API | many albums, partial failure | converges to the user's choice |
| Identity, trust, prekey upkeep (client): `e2ee/identity*.dart` and others | identity keys, prekey slots, pins | rotate, replenish, pin | prekey API | crash between server and device write | the device can answer every bundle the server hands out |
| Account deletion (client): `domain/account/account_deletion.dart`, its screen and marker file | one marker on disk: receipt, plan, accepted or not | confirm, resume, continue, keep, wipe | account API | lost answers, requests still in flight after the app gave up, kills, failing wipes | wiped only if the server accepted; kept only if it never will |
| Credentials of the device (client): `data/storage/storage_service.dart`, `data/api/api_client.dart`, `data/api/session_refresher.dart`, `ui/screens/landing_screen.dart` | token, refresh token, expiry and user id in storage | save, refresh behind a 401, renew on resume, discard | auth API, account gate | four writes and a kill between them; a refusal that is no refusal; a launch without a network | of an attributed vault discarded only when dead; expiry never overstated |
| Shelf and album cleanup (client): `ui/providers/app_state.dart`, `domain/albums/album_cleanup.dart`, `data/shelf_sync.dart` and their wiring in `main.dart` | shown shelf, durable shelf, `album_cleanup` records | merge listings and events, save, report a loss, probe, wipe | album API, websocket | late listings, reports during a drain, kills | never goes back; never wipes an album of its own; never forgets a loss |
| Account gate and sign-in (client): `domain/account/account_gate.dart`, `sign_in_gate.dart` | owner of the device's keys, in the key store | classify, bind, refuse, discard the session, erase the installation | own keys of the prekey API, credentials | a lookup that fails; a kill before the vault is bound; a vault left half erased | no account sees another's data; the owner is not shut out by a network |
| User interface, caches, platform glue; cryptographic primitives | - | - | - | - | known-answer tests; taken as perfect here |

Components meet in four ways: transactions that lock the same `albums` (or
`users`) row; the `media_object_cleanup` queue, which media and avatars both
feed; requests that remember what they read before a lock; and a device and the
server, which only meet through calls that may be lost, late or answered into
nothing.

## 2. Modules

### AlbumKeys: the album key lifecycle

One album, all its transactions, plus account deletion as this album sees it.

| TLA+ | Code |
|---|---|
| `album` | the `albums` row: not created, there, deleted |
| `account` | `users` row, `deleting_at`, row deleted |
| `role`, `revoked` | `album_member_identities` + `album_members` (`role`, `revoked_at`) |
| `cur`, `wraps` | `MAX(album_epochs.epoch)`, recipients in `album_epoch_wraps` |
| `rotationRequired` | `albums.rotation_required` |
| `RotationRequired` | `RotationRequiredExpr` |
| `revoking` | `RemoveMember` requests past the unlocked role check |
| `consented` | accepted deletions whose plan named this album (what the user agreed to) |
| `holders` | history: everybody who was ever handed an epoch's key |

A member token belongs to one user in one album and is reused on reactivation,
so the user stands for it. A transaction starts with `SELECT ... FOR UPDATE` on
the album, so it is one step; what the handler read before is repeated by the
code under the lock (then the request's parameters are arbitrary: `InsertEpoch`
takes any recipient set, `DeliverMember` any last epoch) or is kept in an
in-flight request (`RemoveMember`, then `RevokeMemberTx`). `DeliverMember` and
`AcceptDeletion` are one step each although they also lock `users` rows: the
locks are `FOR SHARE` against `FOR UPDATE` on the same row and held to commit.
Signatures, prekey indices, sealed names and notifications are left out.

### AlbumMedia: publishing

EXTENDS `AlbumKeys`: every step is an album step with its effect on the media
rows, or a media step that leaves the album alone. `requests` holds each
handler between two of its steps: `RequestUploadURL` (past the middleware), then
`ReserveUploadRow`, then `Presign`; `ReadRow` (`GetByID`), then `HeadObject`,
then `MarkConfirmed`; `ReadRow`, then `AbortPendingUpload`; `RequestDelete`,
then `DeleteOwnedMedia`. Storage keys are random in the code; here a key is
named by the reservation that minted it and its asset (`<<res, asset>>`), so an
accidental reuse of a key is visible. A presigned URL carries the key and the
signed length and checksum, so a PUT stores exactly the signed content.
`DropRequest` is a stopped server or a vanished client.

Time appears once. `PendingUploadStaleAfter` is two hours, `PresignTTL` thirty
minutes, and `created_at` is rounded down to the hour, so a row the sweep
considers stale is at least an hour old and its URLs have expired: `Stale`
requires that no URL and no handler about to sign one is left for its keys.

### AvatarUpload: avatars

Avatars of one album, with its roster reduced to the active members and the
cleanup queue repeated. The row has no reservation id; `ReusedIds` are the
ids a client may reserve again (the API allows it); the app seals every upload
under a fresh one.

### DeletionPromise and AccountDeletion: deleting an account from its devices

`DeletionPromise` is the abstract specification, a few lines without messages
or restarts: a receipt (one confirmation on one device) is accepted and then its
device wiped, or kept and then never accepted. `AccountDeletion` is the protocol
that has to deliver it, with everything the code has to put up with.

| TLA+ | Code |
|---|---|
| `account` | `users` row without `deleting_at`, with it, deleted |
| `receipts` | `account_deletion_receipts`: no row, `abandoned = FALSE`, `TRUE` |
| `shared`, `consent` | albums with `OutcomeDeleteShared`; those the accepted request named (history) |
| `marker`, `marked`, `plan` | `DeletionMarkerFile`: receipt, `accepted`, `sharedAlbumIds` |
| `flow` | which method of `AccountDeletion`, or which phase of its screen, a device is at |
| `calls` | HTTP calls; `waiting` is FALSE once the app gave up on one or was killed |
| `vault` | devices whose keys and photos the terminal wipe has not removed |
| `outcome` | history: what became of a receipt, from `TerminalWipe` and the cleared marker |

`flow` names the step an app waits at: "confirm" and "send" wait for a request,
"check", "recheck", "resume" and "continue" for the receipt's state, "giveup" for
the abandonment; `After` is what the code does with each answer. A call that
throws leaves the screen at "Try again" (`blocked`), except in `confirm`, which
looks the receipt up itself. `Throw` loses the call, its answer, or only the
connection: the server may still get to the call at any later time. A refusal
(`ServerError`) may follow a commit. The plan of a `Confirm` is any set of albums,
because it was read at some earlier time, and `Share` and `Unshare` are the
account's invites and other people's departures. A device that is wiped for
another reason, such as a sign-in of another account, is not part of this module.

One assumption is the code's own. `PruneReceipts` deletes receipts after 180 days,
which "outlasts any realistic time a device stays offline mid deletion"
(`service/account_deletion.go:21`): in the model it spares a receipt that a marker
or a call in flight still names.

### Prekeys: one account's public keys, on the server and on its device

| TLA+ | Code |
|---|---|
| `srv` | `users`: identity key, signed prekey (SPK), its timestamp, what the stored signature covers |
| `rows` | `one_time_prekeys` by index, with the identity they belong to |
| `fetches` | `GetPrekeyBundle`: identity read, one-time prekey claimed, answered |
| `calls` | writing calls of the device: checked (`admitted`) and then applied, `heard` or given up |
| `ik`, `slot`, `opks`, `kept` | the device's labels `miuchio.ik`, `miuchio.spk.*`, `miuchio.opk.*`, timestamps and publication marks |
| `boot`, `settle`, `refill` | `_ensureKeysGenerated` and the publication after it, `settleSpkState`, the replenishment |

Labels are written one at a time and a kill may come between any two, so a promotion
(`Demote`, `MoveCurrent`, `Stamp`, `Unpend`, `ClearConflict`) is five steps. The server's service
checks a timestamp and a row before the transaction that applies them; both are steps. The
three bundle routes differ only in how they find the account and are one.

`KeyDirectory` is what all of this looks like to somebody who fetches a bundle: one identity for ever,
signed prekeys that are replaced by younger ones only, each beside a signature over itself and its timestamp,
and one-time prekeys that are offered and claimed once. It has five actions, no device, no calls and no
kills. `Directory` in `Prekeys` reads it off the server's rows: `srv` is the identity and the signed prekey, a row of
the published identity is free or claimed by its `used` mark, and a request has its OPK once that was popped.

### Sessions: codes, sign-ins, and the credentials on a phone

One email address. `otp`, `rate` are the Redis keys, one Lua script a step; `verify` is a
`VerifyOTP` request between two of its statements (`CheckCode`, `LookUp`, `CreateUser`,
`InsertSession`); `users` and `sessions` the rows, `users.identified` the accounts with a published identity. On the phone:

| TLA+ | Code |
|---|---|
| `cred` | `StorageService`: the three values of `saveAuth` and the user id of `saveUserId`, written one after the other (`Store` stops after any of them, as a kill does) |
| `vault` | the key store: the account it is bound to (`AccountOwnerStore`), whether the identity is whole, absent, or absent with album keys or shelf rows left, and the account it was published for |
| `screen` | the sign-in, the app, or the page of an account whose keys are lost |
| `task` | what the phone is at: an API call, a renewal, the warm-up of a launch (`Launch`, then `getMe`, then the keys), the gate (`gate`), a refusal about to discard (`shut`, or `unread` after an exception), an erasure |

A refresh that fails is not a 401: `ReadSession` and `ExtendSession` go to "rejected" only for a session that is not
found or expired, and `Rejected` discards what is stored only behind an API call. The other place that discards is the account gate.
`SignIn` and `Launch` lead to it: with the account the server named, or at a launch the stored one when `getMe` failed,
and with what the server told of that account's identity (`Ends`, `ServerKeys`; "unavailable" after any failure). `Outcome`
is `AccountGate.classify`; a refusal other than lost keys calls `deleteAuth` (`Discard`), at a sign-in and at every launch.
`GateThrows` is a key store that cannot be read: at a launch `reconcileAccount` takes that for a refusal, at a sign-in nothing is
discarded. Key bootstrap is two steps (`MakeKeys`, `PublishKeys`; its detail is in `Prekeys`). `Erase` is the terminal wipe,
which may leave rows of the shelf. `SignIn` is possible on the page of lost keys too, which is more than the code offers there without
a restart. `Handle` of a "delete" call is the acceptance of an account deletion, which revokes
the sessions; `FinishAccount` deletes the row. `VerifyFails` is the end of a `VerifyOTP` without a sign-in, `admits` refusing
the account before anything is stored among the reasons.

`SignInPromise` is what one address may count on, without guesses, requests, windows, phones or expiries: the
code stored last can be accepted, once; an accepted code opens one session at most; the address has one account
at a time, whose sessions end with the acceptance of its deletion and, those inserted by a sign-in under way
(`verify` was past the acceptance's reach), with the account. `Promise` in `Sessions` reads it off the state: an accepted code whose
session is not inserted yet is a `VerifyOTP` between `CheckCode` and `InsertSession` (`UnderWay`), and the account of the session it
opened is that of the row (`Owners`; the model names a session's token by its code).

### Shelf: one album on one member's phone

`album` is the server's truth (`media_generation` and what this user is to the album), `posted` the
events whose goroutine has not emitted them yet, `link` and `outbox` the socket with its bounded
queue, `replies` answers on their way. `shelf`, `dirty`, `saving` and `disk` are `AppState`'s shelf and its
serialised saves; `record` and `drain` are the row of `album_cleanup` and the one drain of
`AlbumCleanupQueue` (`BeginDrain`, `Probe`, `Settle`, `Wipe`, `DropRow`, `Verify`).

The shelf holds the album's generation and `sum`, its `hasSummary`: a listing has a summary, the answer to `GetAlbum`, which
`refreshAlbumOnJoin` prepends when the listing failed, has none. `Merged` is `_mergeMonotonic` with all its cases: a shown
generation that is ahead is kept only if both sides have a summary. `Durable` is `toJson`, which leaves the
generation of an album without a summary out. A restart shows what is on disk if the owner and the stored user id agree (`main.dart:306`);
otherwise nothing, until `loadShelf` reads it behind the gate (an answer "gate", which becomes an answer "stored").
`Report` is `albumGone` or `albumMissing`, whose durable put is not awaited and may fail: then nothing is recorded.

### KeyDelivery: how keys reach a phone, and how a debt is paid

EXTENDS `AlbumKeys`: the server is that module, and every step is one of its steps with its effect on
one phone, or a step of the phone. A key is a number, so a wrong key is visible.

| TLA+ | Code |
|---|---|
| `keys` | the album's keys in `AlbumKeyStore` |
| `inbox`, `proc` | `EpochProcessor`: the album's chain of events, the event being handled |
| `rot` | `EpochRotator` behind `MemberRemovalCoordinator._serial`, which kick and recovery share; bootstrap, which does not pass through it, uses the slot too, which loses nothing as no rotation is owed before epoch 0 |
| `kick` | `MemberRemovalCoordinator.kick` between the removal and the rotation that follows it |
| `sched` | `RotationRecoveryScheduler`: ask, attempts, settle, reconcile, `again` |
| `sync` | `catchUpAll`, then `checkAll`, at start and on reconnect |
| `calls` | set-epoch requests, which may commit after the phone gave up on them |
| `gone` | the album was lost and its keys are to be wiped |
| `refused` | history: the replay check blocked an album of a member |

`HandleEvent` reads once what is missing, as the code does; what other loops install meanwhile is
seen only by `Verdict`, the check of `installVerified`. Verification of signatures, identities and
trust is one of the failures that may happen (`Fault`). A join receipt that fails changes nothing the model holds, so
`ProcessorEnds` takes the join for done without it. The deletion of an account is left to
`AlbumKeys`: to this album it is a departure or the end.

### The proof and MC modules

Each component has a module of proofs: `AlbumKeysProofs`, `AlbumMediaProofs`, `AvatarUploadProofs`, `AccountDeletionProofs`,
`KeyDeliveryProofs`, `PrekeysProofs`, `SessionsProofs` and `ShelfProofs`, which hold the
theorems of section 4. The `MC*.tla` add symmetry sets and fix what an instance follows: `MCAlbumKeys` and
`MCKeyDelivery` which account founds the album (and which accounts may be deleted, and that nobody is
put out when no epoch is left to rotate to). `MCDevice` puts `Sessions` and `Shelf`, and `MCUploads`
`AvatarUpload` and `AlbumMedia`, into one run without shared state: each behaviour follows one `side`.
Of `MCUploads` these are the avatars, one photo with all that may become of it, or two photos of which none is withdrawn.
Of `MCDevice` they are "guess" (concurrent sign-ins and guesses, with a phone that stores what it is given, deletes its
account and is erased, without the calls that fail), "phone" (one sign-in after the other, with every step of a phone, its gate and
its launches), "summary" (an album that is not lost: uploads, listings, joins without a summary, saves and restarts, with two
answers in flight) and "loss" (an album that is reported lost, wrongly by a late listing or rightly,
and found again, without uploads; with two answers in flight until it is lost and one afterwards).
`ShelfProofs` and `AvatarUploadProofs` extend them, and prove that such a behaviour is one of each part.
`MCPrekeys` follows, after any bootstrap, either the signed prekey or the one-time prekeys, which do not
meet afterwards.

## 3. Runs

| Run | Instance | Shows |
|---|---|---|
| `keys` | 4 accounts, cap 3, epochs 0..2, 2 removals in flight; the founder and one other may delete their accounts | `FreezeSound`, `HistoryReadable`, `RosterSound`, `SharedLossConfirmed`, `DeletionCompletes` |
| `delivery` | the phone of the admin or of the other of 2 accounts, epochs 0..1, 2 attempts, 2 requests, 1 event, 1 fault | `KeysAgree`, `KeysArrive`, `DebtPaid` |
| `media_album` | 2 accounts, 2 epochs, one upload, 2 requests in flight | `PublishedToMembersOnly` |
| `uploads` | avatars: 1 member, 2 ids of which one is reserved again, 3 keys; photos: 1 account, 2 photos, 2 contents, 2 reservations; 2 requests | `KeysAccounted`, `ShownStored`, `ConfirmedStored`, `SweptStaysClean`, distinct `album_seq` |
| `media_drain` | photo and thumbnail, 2 contents, 2 requests | `ConfirmedStored` when only one of the two objects is wrong; `QueueDrains` |
| `media_deleting` | 1 account | violation: see section 5 |
| `avatar_checked` | 1 member, ids reused | violation: see section 5 |
| `deletion_safety` | 2 devices, 2 receipts, 1 album, 2 calls in flight | `KeepsPromise` (the refinement), `WipedOnlyIfAccepted`, `AcceptedNotStranded`, `PlanCovers` |
| `deletion_liveness` | 1 device, 1 receipt, 2 calls | `AcceptedIsWiped` |
| `prekeys` | 2 bundle requests, 2 identity generations, 4 SPKs, 3 one-time prekeys, 2 calls, clock 0..3 | `OpkGivenOnce`, `AdvertisedWorks`, `SettledAgrees`, `KeepsDirectory` (the refinement) |
| `prekeys_late` | 2 SPKs, 1 call | violation: see section 5 |
| `device` | sign-in: 2 verifications, 1 phone with any vault, 2 codes, 2 windows, 2 accounts, 3 days; shelf: outbox 1, 2 uploads, 1 return, 2 answers, 2 reports | `GuessBudget`, `KeepsSignInPromise` (the refinement), `OneAccount`, `ExpiryHonest`, `DeletedShutOut`, `DiscardsDeadOnly`; `ShelfForward`, `NewestSavedLast`, `ReportsKept`, `OursNeverWiped` |

Every run but the violations also checks the module's type invariant where no
other run on the same module does. `NoRollback` (`Prekeys`) and `CodeAcceptedOnce` (`Sessions`) follow from the
two refinements and are theorems of their own; no run repeats them.

Why these bounds are enough to be interesting. Four accounts with a cap of three
let an album be full while somebody waits outside, and let an invite, a removal
and a deletion concern three different people; two removals in flight are needed
for a caller that is itself removed between its check and its transaction.
Three epochs allow a departure, its rotation, a return, and another rotation.

For delivery, the second epoch is the one that matters: it follows a removal, and the removed
account may come back to two epochs at once. Two requests are a given-up rotation and its
retry; one fault is enough for each hazard, because a fault is any failed call, lost answer, kill
or half a wipe, and a lost event is not counted as one. Two attempts let the scheduler fail once
and succeed, or give up and need another trigger.

For media, two accounts and two epochs suffice for "reserve, be removed, others
rotate, return"; the properties about objects do not depend on who acts, so they
are checked with one account and more reservations and contents: two
reservations of one row (same and other bytes), with two handlers that each
remember one of them. Key reuse needs only two reservations. The theorems remove
the bounds for everything in section 4.

For the deletion, two receipts are a confirmation given up and a second one on
the same device, or one on each of two devices, of which one's acceptance takes the
other's session away; two calls let a forgotten request and a question about
it be under way together. One album is enough, since acceptance only asks whether the
plan covers the shared albums.

For prekeys, two generations are a bootstrap killed before anything was published and the
next; four SPKs allow three rotations, the last of them after a conflict. The windows keep
the code's order and not its size: rotations come due as soon as a timestamp leaves the skew
window, which makes late calls more adverse than thirty days do. For the device, two verifications
race with a window's two codes; two accounts are a deletion and a fresh start on a phone whose vault may still be
bound to the first; a socket that holds one event loses the second; two answers
may overtake each other, and a second report arrives during the drain of the first. While the album is not
lost, a listing made before the member joined may still arrive after a later one and start a probe; once it is lost,
one answer is enough, as losses are told by events, refusals and listings alike.

Counters are bounded in guards: `MaxEpoch` (epochs), `MaxRes` and `MaxKeys`
(reservations), `MaxInflight` and `MaxRequests` (requests), `Receipts` and `Slots`
(confirmations and calls in flight), `MaxNow`, `MaxDay` (clocks), `MaxGen`, `MaxSpk`, `MaxIdx` (keys
minted), `MaxCodes`, `MaxWindows`, `MaxAccounts`, `MaxJoins`, `MaxReplies`, `MaxReports`, `MaxCalls`, `MaxEvents`,
`MaxFaults`. In `Sessions` a day does not pass while a sign-in waits for its answer. Deadlock checking is
off because an album whose accounts are gone, or a spent bound, leaves nothing
to do.

Every property has a mutant: the conditions of the models are preceded by
plausible slips (`DebtForgotten`, `AnyPendingRow`, `TakesAnyAnswer`...), and
`PROJECT.json` says which slip breaks which property in which run. No action
uses a slip.

### Fairness

- `FairSpec` (`AlbumKeys`), and `FoundedSpec` of the run: weak fairness of the deletion job for every account.
  `AccountDeletionService.Run` wakes periodically, and `ClaimDue` only pushes a
  failed account's next attempt back, so a step that stays possible is taken.
  Weak fairness is enough because nothing re-attaches an account being deleted
  (`StaysDetached`, proved; the bound on epochs alone would also stop an endless
  loop of invites, so the liveness run by itself would not show it).
- `FairMediaSpec` (`AlbumMedia`): weak fairness of `DeleteObject` and strong
  fairness of `AckCleanup`. The periodic cleaner lists due keys by their attempts and
  reschedules a failing one; the assumption is that the store and the database
  do not fail for ever on one key, since each failure takes the key back
  to the start. Strong fairness states that: an acknowledgement attempted again
  and again finally succeeds. It also assumes that a key's turn comes. A key that has failed stays
  behind every fresh one of a limited batch (`media_repo.go:351`), and as long as fresh keys fill the batches
  it waits; back-off and batch limit are not in the model, so no property is about that starvation.

- `FairSpec` (`AccountDeletion`): `Handled`, weak fairness of the server taking up a
  call, and `Retries`, strong fairness of the device's side: the user reopens the app
  and answers its question, and a question asked, a marker written or a wipe tried
  again and again succeeds some time. Strong fairness is the honest form, because each
  failure takes the device back to an earlier step; it excludes only a network or a
  disk that fails for ever. Nothing is assumed of a request, of the server's job, or
  of which of the two answers the user gives.

- `DeliveryFairness` (`KeyDelivery`): weak fairness of `CatchUp` (the app is opened, or reconnects, again and
  again), of its three loops `ProcStep`, `RotStep` and `SchedStep` (each runs until it returns; a hanging
  request ends in `GiveUp`, which needs no fairness because the request itself is handled), of a due `Wipe`, and of the server taking
  up a request. Faults are bounded by `MaxFaults`, so "it works some time" needs no strong fairness. Nothing is assumed
  of events, of other people's phones, or that anybody removes, invites or asks.

In the other modules no fairness is assumed of users, devices or requests.

## 4. Proofs

Every safety invariant and every action property of the passing runs is a theorem, and so are the refinements of
`DeletionPromise`, `KeyDirectory` and `SignInPromise`; only liveness is left to TLC. The proofs use only the named assumptions on constants:

- `Users` is finite; `MaxEpoch`, `MaxInflight`, `MaxRes`, `MaxRequests`, `MaxKeys`, `MaxCalls`, `MaxEvents`, `MaxFaults`
  and the other bounds are naturals (`*Bounds`, `*BoundsNat`);
- the member cap, the rotation's `MaxTries`, the limits on guesses and on code requests (`CodeLimits`) and the outbox of a
  socket (`OutboxSize`) are positive, and times and windows are naturals (`SessionTimes`, `PoolSizes`, `Windows`), with
  bootstrap publishing at least one OPK, `Ahead < Skew <= Period` (4 minutes, 5 minutes, 30 days) and the bound on OPK
  indices no smaller than bootstrap's batch (`PrekeyBounds`);
- "blob" is an asset, `NoData` is no content, `None` is no receipt, device or call, and ids reserved twice are ids.

Within them the results hold for any number of accounts, epochs, media, avatars, requests, devices, receipts, keys, calls,
sign-ins and phones. TLC checked each inductive invariant on an instance of its run before it was proved.

`AlbumKeysProofs` proves every safety property of the run `keys`, and three more
that no run repeats: `DriftImpliesDebt` (the durable flag covers every drift of
roster and wraps), `RemovalAuthorised`, and `StaysDetached` (an account being deleted
that left an album is not attached to it again). None is
inductive alone. `IInv` adds to the type invariant:

- `NoRowsInv`: without an album there are no rows;
- `AdminInv`: a live album's admins are exactly one person. It carries
  `OneActiveAdmin`; `NotLastAdmin` keeps it, because a second admin never
  appears (invites grant only "member");
- `CoverInv`: members have a wrap of every existing epoch. It carries
  `HistoryReadable`, and makes drift by a missing wrap impossible;
- `FreshInv`: without the durable flag, wraps and historical holders of the
  current epoch are exactly the active members. This is the heart of
  `FreezeSound`: account deletion erases the wraps that would show the drift,
  and only the flag remembers the departed key holder;
- `MemberCap`;
- `AskInv`: the caller of a pending removal that is still active is its own
  target or the admin. Roles do not change while a row lives, and a caller that
  left comes back as a member only through the admin, whom nobody can revoke;
- `ConsentInv`: an admin whose account is being deleted in a still shared album
  has consented. An accepted account cannot be invited nor invite, so the album
  cannot become shared after its acceptance.

`AlbumMediaProofs` first proves `MediaImplementsKeys`, that `MediaSpec` implements
`AlbumKeys!Spec` (each media step is an album step or leaves the album alone),
so the theorems of `AlbumKeysProofs` hold of the composition. Then:

- `MediaTypes`: types, and no two published media share an `album_seq`;
- `MediaPublishedToMembersOnly`: at the moment of publication the gate is open,
  `FreezeSound` says the holders are the active members, and afterwards holders
  of a published epoch grow only by people joining;
- `MediaPublishedByMember`: neither the reservation nor the confirmation looks
  the membership up again. `Owners` says that whoever has a reservation in an
  epoch holds that epoch's key, `NoFutureKeys` that nobody holds the key of an
  epoch that does not exist, so a request whose author left can only name an
  epoch whose gate is shut for good or reopened by a rotation past it.

`AccountDeletionProofs` proves that the protocol implements the promise
(`DeletionKeepsPromise`), and every other safety property of `deletion_safety`. The
inductive invariant `Inv` adds to the type invariant:

- `CallsOK`: what an answer on its way says about a receipt is still so;
- `ReceiptOK`: a receipt leaves its device's marker only with an outcome, and one
  that was kept stays barred as long as any call with it is in flight. This is what
  makes "keep my account" safe against a request that is still travelling, and
  why giving up is a write at the server and not a decision of the device;
- `DeviceOK`: a device on its way to the wipe holds an accepted receipt;
- `WipedOnlyIfAccepted`.

Under the refinement (`Fate`) only three steps are visible: `Accept`, the answer
to an abandonment, and the verified wipe; `QuietIsStutter` and `ReceiptsStutter`
cover the rest.

`KeyDeliveryProofs` first proves `DeliveryImplementsKeys`: each step of `KeyDelivery`, its late and refused
requests included, is a step of `AlbumKeys` or leaves the album alone. The theorems above therefore hold with the
phone in the loop (`DeliveryFreezeSound`). `DeliveryKeysAgree` and `DeliveryKeepsTypes` then rest on `DInv`:

- `DTypes`: types; `FreshIsKey` counts the keys in use to show that a fresh one exists;
- `Agreement`: what the phone holds, is about to install or has just posted is what the members were sent, for an
  epoch that is *settled*: no greater than the current one, or of an album that is gone. The server writes a key once,
  with its epoch, so what is settled never changes (`KeyOfStep`, `KeysStepKeeps`);
- `NoReplay`, why the replay check (`e < latest` without a backfill) refuses nothing although the list of what is missing
  is read once and two loops install side by side. `InOrder`: what is left to install is older than what was the
  latest epoch when the event was read (a backfill), newer than the whole store, or already there because the
  admin's own rotation came first. That rotation cannot jump past a missing epoch, as it names the one after the
  store's latest (`AdminSerial`, by the one active admin of `AdminInv`, who is never revoked and so never wipes);
- `RotWaits` and `ProcWaits`: the rotation mutex belongs to the loop that waits for it, and a catch-up or a reconcile
  waits for at most one event, queued or being handled.

`DeliveryKeysFinal` is the action side of the same invariant: a key that was handed out never changes, and an
installed one is replaced by none and removed only by the wipe of a lost album, never from the admin of one that lives.

The storage half of `AlbumMediaProofs`, and `AvatarUploadProofs`, prove what the run `uploads` checks:
`MediaConfirmedStored`, `MediaSweptStaysClean`, `AvatarsAccountForKeys` and `AvatarsShownAreStored`. Neither statement
mentions a key's past, but a confirmation acts on what a request read before the lock, and a presigned PUT arrives
whenever it likes, so both invariants (`StorageInv`, `AInv`) say what a key means to requests and URLs that are
still about:

- keys are minted in order (`KeysMinted`, `MintedBefore`) and a key has one row, or is queued or swept
  (`KeysOwned`, `KeysAccounted`);
- a retry keeps a key only for the bytes it was minted for, so every request and every URL on a row's key carries that
  row's content (`KeyMeansContent`, `OneContent`): a late PUT writes what is there already;
- a request whose reservation is still the row's read that row, and what it checked is still stored (`ReservationHolds`);
  avatar rows have no reservation number, so `MeansItsRow` says it for ids reserved once, and needs to know what was
  ever reserved (`Remembered`). This is the difference that `avatar_checked` shows; `FreshAvatarsCheckedFirst` proves
  that reuse is its only cause: with no id reserved twice, `Confirm` keeps its comment's word;
- no URL is or will be signed for a swept key (`SweptForgotten`), so its deletion is final.

`PrekeysProofs` proves every property of the run `prekeys`, and one more (`PublishedIdentityStays`). `PInv` adds to
the types:

- `NeverMintsAgain`: once a call was sent, all labels of bootstrap are there, hence bootstrap resumes with them and every
  call carries the one identity. Kills between labels matter only before that, when the server cannot have heard of anything;
- `FirstPublication`: before the identity is on the server there is no rotation, and a publication names the current key;
- `Promotion`: what each of the five writes of a promotion may rely on. From the acceptance until the conflict is
  cleared the server advertises the youngest key (`srv.spk = minted`), for nothing can be posted while the SPK lock is held;
- `RotationsOrdered`, why delayed rotations cannot roll back: calls in flight have distinct keys, in a slot or given up;
  those the server may still accept are dated in the order of their minting. `RotationTs` gives this: it is beyond the
  clock of every earlier call, and after a conflict beyond the server's timestamp of it (`conflictTs`), which a new
  call must not equal;
- `AdvertisedKept`: the advertised key has a slot, and `replaced >= current` while the promotion lags behind the
  server, so that the demotion that overwrites `previous` cannot lose the key that was advertised before;
- `OpksClaimed`, which carries `OpkGivenOnce`.

`PrekeysImplementDirectory` maps each step to one of `KeyDirectory` or to a stutter. Everything a device does to its labels, the
admissions and the losses of calls leave the rows alone (`QuietInDirectory`). Visible are the transactions: a publication is
`Publish` when it is the first (`FirstPublication` and `NeverMintsAgain` say that it names real keys) and `Resign` or
nothing when it is repeated; a rotation is `Rotate`, and that its SPK is younger than the one it replaces is `RotationsOrdered`, since
the code compares timestamps only; a batch is `Offer`, and a popped OPK `Claim`. That a bundle which has no OPK yet shows none
is part of `OpksClaimed`: requests that have not popped hold no index, so that `Claim` finds the request empty-handed.

`FadesFade` reduces kills, time-outs, losses, refusals and admissions to one kind of step, in which calls only disappear or
lose their listener. `SettledAgrees` and `SpkAddressable` make an exception for keys that a reconciliation gave up, which
the run `prekeys_late` shows to be necessary.

`SessionsProofs` proves what the run `device` checks of codes and credentials, `SInv`:

- `Typed`, of which the counts of wrong guesses below the limit are a part, and `CodesFresh`: the stored code was
  never accepted, and those to come were not either. The script that compares and deletes is one step; this says why
  a parallel one finds nothing;
- `Budget`: guesses made plus guesses left are paid for by codes, and requests made plus left by windows. The
  sums are what is inductive: a guess moves one unit from the second term to the first, a new code adds `MaxAttempts`;
- `AccountsCounted`: one account has the address, no row refers to one still to come;
- `TokensOwned`: a token belongs to one sign-in or one phone, so a refresh under way is the only one to move its row;
- `Expiries`: what a phone believes, is about to write and its row are ordered, at each of its three writes;
- `RejectedDead`: a rejection that the phone has yet to act on is of a session that stays dead;
- `RowsKnown`: the account of every session exists, so the row of a live session is what the server answers by;
- `GateKnows`, which carries `DiscardsDeadOnly`: of a phone whose vault is attributed (`Attributed`: bound to the session's account, which is
  also the stored user id, with a whole identity) the gate is asked for that very account, whether `getMe` answered or the stored id had to
  do, and is about to discard only a session that is dead. `GateOpens` then says that `classify` admits it whatever the server told or did
  not. The parts depend on each other: a call that was admitted names the account of the session's row, or the row is gone,
  and an attribution never begins while a gate or a refusal is under way (`AttributedStays`).

`SessionsDiscardDeadOnly` is that promise, and no more: a phone whose vault is not attributed may lose a live session at a
launch without a network (section 5), one whose key store cannot be read too, and the property says so.

`SessionsKeepSignInPromise` maps the same steps to `SignInPromise`. Asking, guessing wrong, sending, refreshing and the phones'
writes stutter (`QuietInPromise`); `CheckCode` is `Accept` for the code it matches or `Lapse` when the last miss burns it; `CreateUser` is
`Register`, for the unique address is taken as long as an account has it, being deleted or not; `InsertSession` is `OpenSession` for an account that was live when
it was looked up and may be deleting by now, but not gone unless the insertion fails (`sessions.user_id` references it).
A `VerifyOTP` that fails, or ends, after its code was accepted is `Abandon`, or nothing once its session is there: `EndsInPromise`
tells the two apart by `TokensOwned`, for a code under way belongs to one sign-in. An extended row keeps its
account (`RowExtended`), so no refresh shows.

`ShelfProofs` proves what that run checks of the shelf, `HInv`: `SaveAhead` (a save under way holds what is shown,
unless a change waits for the next, and what is durable is written the same again), `DrainBehind` (a drain works on a record no newer than the stored one, and equal versions
mean that no report came in between, which is what makes its compare-and-remove safe), and `NeverLost` (as long as the album was
not lost, no event, listing, reply or record says so). `ShelfGoesForward` needs only the types: of an album shown with its summary
no event, listing or durable copy takes a newer generation back, except the durable shelf a restart begins with. It says nothing of
an album without a summary, and reports whose put failed are not among those `ReportsKept` is about.

The runs `device` and `uploads` put two modules into one behaviour. `DeviceKeepsTypes`, `UploadsKeepTypes`,
`UploadsConfirmedStored` and `UploadsSweptStaysClean` are about that joint specification: each of its steps is a step of one part that leaves the
other alone (`UploadsAreSides`), so it implements both, and the theorems of `Sessions`, `Shelf`, `AvatarUpload` and `AlbumMedia`
hold of it. For the photos this instantiates `AlbumMediaProofs` with the run's variables; its assumptions on the constants
are those of `MCUploads` (`PhotoConstants`).

Model-checked only: `DeletionCompletes`, `QueueDrains`, `AcceptedIsWiped`, `KeysArrive` and `DebtPaid`, as liveness under
fairness is out of the prover's reach.

## 5. Where text and code disagree

- `media_deleting`. Migration 000008 says an account whose deletion was accepted
  "publishes nothing while the job removes it". A confirmation that passed
  `Authenticate` before the acceptance still publishes after it: `MarkConfirmed`
  looks at neither the session nor `deleting_at`. The job deletes the photo with
  the membership, so the effect is brief.
- `avatar_checked`. `AvatarService.Confirm` is documented as checking the object
  "before it replaces the current avatar". Between its HEAD and the confirming
  transaction, a reservation of the same id with other bytes replaces the row,
  and the confirmation then shows an object nobody checked. The app uses a fresh
  id for every upload; `ShownStored` of the run `uploads` shows that this is what keeps it safe.
- `prekeys_late`. The device's tests say that "the key the server may have accepted must be
  addressable". A rotation that the device gave up, and that arrives after its reconciliation
  saw the old key and discarded the pending one, is accepted within the skew window: the server then
  advertises a key whose private half is gone, until the next rotation is due.

Behaviours met while modelling that no run states as a property:

- `ws/hub.go:56` says a client that missed events catches up "on next reconnect". A reconnect pulls epochs and drains
  the cleanup queue (`main.dart:834`); a media event lost while the app stays open is made good by the next listing only.
- `GetCurrent` (`e2ee/epoch`) answers `rotation_required = false` when it cannot look the debt up, so a recovery may
  take a debt for paid (`NotRequired` admits it); the next trigger asks again.
- The rotator numbers an epoch after the latest one in the phone's own store. A phone that lags is refused until
  it has caught up; the scheduler's attempts alone do not help it.
- A launch discards a live session when the phone cannot reach the server and its vault is not attributed yet
  (`landing_screen.dart:147`, `account_gate.dart:64` and `:73`): a kill after `commit` and before the gate bound the vault or
  bootstrap made the keys, or between `saveAuth` and `saveUserId` (then no account is known, `landing_screen.dart:43`). So does a key store that
  cannot be read at a launch, even for an attributed vault (`landing_screen.dart:48`). The user signs in again; the keys stay.
- An album prepended without a summary and raised by an event is taken back by a listing requested before the upload
  (`app_state.dart:236`), until the next event or listing; `_mergeMonotonic`'s comment is about summaries, which such an album has not.
  Its durable copy has no generation.
- A loss report that cannot be written is forgotten (`main.dart:551`); the next listing or refusal reports the loss again.
- Bootstrap of epoch 0 is tried once. If it fails, the album has no epoch, and no trigger creates
  one; `KeysArrive` and `DebtPaid` speak of albums that have one.
- A joined event that failed half-way is completed by a later catch-up, which sends no join receipt.
- A wipe of a lost album that stopped half-way may leave newer keys without older ones, and an event handled meanwhile then
  makes the replay check refuse the older ones. `refused` therefore counts only while the user is a member; no member's phone
  is found in that state.
- An album wipe that a revocation confirmed is retried after the user was invited again, and a delayed `revoked` event confirms one
  too (the member token is reused): the local data is then wiped once more and fetched again.
- A probe's own refusal is reported like any refusal, so a lost album may be wiped twice.
- Listings of the same generation are merged in order of arrival.
- A websocket ticket issued before an account's deletion was accepted still opens a socket afterwards.

## 6. Plan

Done: eight modules of state machines, the abstract `DeletionPromise`, `KeyDirectory` and `SignInPromise` that three of them
implement, and proofs of every safety and action property that a run checks. In order of importance, what is left:

1. `UploadOutbox`: the client's coordinator against the media API: restarts,
   rewrap on epoch change, answers lost after success.
2. The account deletion job's claim, lease and back-off over several albums, composed
   with `AlbumKeys` (there `Outcome` decides what is shared).
3. The avatar publisher's convergence loop.

### Not modelled

Rate limits, handlers, configuration and logging (no state of the album depends on them; the window of
code requests is in `Sessions`); cryptographic primitives (pure, with known-answer
tests; the models take them as perfect); the user interface and its caches; trust decisions, which are the user's. Inside modelled components:
previews, counts and activity of the shelf; key and roster events and a user's second
socket in `Shelf`, and a put of a loss report that is delayed beyond later steps (it is recorded at once or not at all); an API call and a renewal on
resume at the same time on one phone; what a call still under way at an erasure does afterwards; join receipts; failing reads
of the key store in `Prekeys`; the back-off and batches of the cleanup queue; `deleteAlbumMKs` dropping from memory a key installed while it ran (a wipe attempt is one step).
