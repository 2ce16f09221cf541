------------------------------ MODULE AlbumKeys ------------------------------
(***************************************************************************)
(* One album on the server: who is a member, which key epochs exist, who   *)
(* was handed which epoch's master key, and whether the album owes a key   *)
(* rotation.  Every mutation of the code runs in one transaction that      *)
(* starts with SELECT ... FROM albums FOR UPDATE, so a transaction is one  *)
(* step here.  What a handler read before taking that lock is either       *)
(* re-read under it (then the request's parameters are arbitrary here) or  *)
(* remembered in an in-flight request (`revoking`).                        *)
(*                                                                         *)
(* A member token is random, belongs to one (user, album) pair, is reused  *)
(* on reactivation and disappears with the identity row, so the user       *)
(* stands for it.  A refused transaction changes nothing and is no step.   *)
(***************************************************************************)
EXTENDS Integers, FiniteSets

CONSTANTS Users,            \* account ids
          MaxEpoch,         \* bound: the last epoch a run can reach
          MaxAlbumMembers,  \* invite cap (10 in the code)
          MaxInflight       \* bound: concurrent RemoveMember requests

ASSUME UsersFinite == IsFiniteSet(Users)
ASSUME MaxEpochNat == MaxEpoch \in Nat
ASSUME CapPositive == MaxAlbumMembers \in Nat \ {0}
ASSUME InflightNat == MaxInflight \in Nat

VARIABLES
    album,            \* "none" before CreateWithAdmin, then "live", then "gone"
    account,          \* users row: "live", "deleting" (deleting_at set) or "gone"
    role,             \* identity + roster row: "none" when there is none
    revoked,          \* roster rows whose revoked_at is set
    cur,              \* MAX(album_epochs.epoch), -1 without a row
    wraps,            \* album_epoch_wraps: recipients per epoch
    rotationRequired, \* albums.rotation_required
    consented,        \* accounts whose accepted deletion plan named this album
    revoking,         \* RemoveMember requests authorised but not yet in their tx
    holders           \* history: who was ever handed the key of an epoch

keyVars == <<album, account, role, revoked, cur, wraps, rotationRequired,
             consented, revoking, holders>>

Epoch == 0 .. MaxEpoch
Member == {u \in Users : role[u] # "none"}
Active == Member \ revoked
Admins == {u \in Active : role[u] = "admin"}

-----------------------------------------------------------------------------
(***************************************************************************)
(* The conditions the transactions evaluate.  Each is preceded by the      *)
(* slips that the runs are shown to notice.                                *)
(***************************************************************************)

\* Durable debt, or the current epoch's wraps differ from the active roster.
RotationRequired ==
    rotationRequired \/ (cur >= 0 /\ (\/ \E u \in Active : u \notin wraps[cur]
                                      \/ \E u \in wraps[cur] : u \notin Active))

DebtForgotten == rotationRequired

\* albums.rotation_required after a member departs.
DebtAfterDeparture == TRUE

\* InsertEpoch: the hash over the request's recipients must be the hash over
\* the active roster, that is, the two sets are equal.
CoversActiveSet(R) == R = Active

\* Service.SetEpoch: the wraps name at least one recipient, and each once;
\* signatures and lengths are abstracted.
WellFormed(R) == R # {}

\* A caller re-read under the album lock: roster row, not revoked, admin.
ActiveAdmin(u) == u \in Active /\ role[u] = "admin"

\* users row locked FOR SHARE, present and without deleting_at.
AccountLive(u) == account[u] = "live"

OnlyTargetLive(s, t) == AccountLive(t)

\* recheckUnderLock: neither end of an invite is being deleted.
PartiesLive(s, t) == AccountLive(s) /\ AccountLive(t)

\* Service.DeliverExistingUser: the envelopes of a request cover 0 .. last
\* without a gap, last being the epoch it read before the lock.
Envelopes(last) == 0 .. last

EpochPresent(last) == cur >= 0 /\ last <= cur

\* recheckUnderLock: the last envelope is the epoch that is current now.
EnvelopesReachCurrent(last) == cur >= 0 /\ last = cur

\* DeliverMember counts the active roster under the lock.
HasRoom == Cardinality(Active) < MaxAlbumMembers

\* RemoveMember: oneself, or anybody for the admin.
MayRemove(c, t) == c \in Active /\ (c = t \/ role[c] = "admin")

NoLastAdminGuard(t) == TRUE

\* RevokeMemberTx: the only active admin cannot be revoked.
NotLastAdmin(t) == role[t] = "admin" => Cardinality(Admins) > 1

-----------------------------------------------------------------------------
(***************************************************************************)
(* What the account-deletion plan does to this album for account u.        *)
(***************************************************************************)

Outcome(u) ==
    IF u \notin Active THEN "erase"
    ELSE IF Cardinality(Active) <= 1 THEN "delete_album"
    ELSE IF role[u] = "admin" THEN "delete_shared"
    ELSE "leave"

AttachedIfActive(u) == u \in Active

\* memberships: an identity row counts also when its roster row is revoked
\* (LEFT JOIN), so the job detaches former members too.
Attached(u) == u \in Member

PlanUnchecked(u, confirmed) == TRUE

\* Accept: a membership that would take a shared album with it must be in the
\* list the user confirmed.
PlanConfirmed(u, confirmed) ==
    (u \in Member /\ Outcome(u) = "delete_shared") => confirmed

-----------------------------------------------------------------------------
Init ==
    /\ album = "none"
    /\ account = [u \in Users |-> "live"]
    /\ role = [u \in Users |-> "none"]
    /\ revoked = {}
    /\ cur = -1
    /\ wraps = [e \in Epoch |-> {}]
    /\ rotationRequired = FALSE
    /\ consented = {}
    /\ revoking = {}
    /\ holders = [e \in Epoch |-> {}]

\* AlbumService.CreateAlbum: album, identity and admin roster row in one tx.
CreateWithAdmin(u) ==
    /\ album = "none"
    /\ AccountLive(u)
    /\ album' = "live"
    /\ role' = [role EXCEPT ![u] = "admin"]
    /\ UNCHANGED <<account, revoked, cur, wraps, rotationRequired, consented,
                   revoking, holders>>

\* Service.SetEpoch + Repo.InsertEpoch: u posts epoch e wrapped for R.
InsertEpoch(u, e, R) ==
    /\ album = "live"
    /\ ActiveAdmin(u)
    /\ e = cur + 1 /\ e \in Epoch
    /\ WellFormed(R) /\ CoversActiveSet(R)
    /\ cur' = e
    /\ wraps' = [wraps EXCEPT ![e] = R]
    /\ holders' = [holders EXCEPT ![e] = R]
    /\ rotationRequired' = FALSE
    /\ UNCHANGED <<album, account, role, revoked, consented, revoking>>

\* Service.DeliverExistingUser + Repo.DeliverMember: s invites or reactivates
\* t with one envelope per epoch 0..last.
DeliverMember(s, t, last) ==
    /\ album = "live"
    /\ ActiveAdmin(s)
    /\ PartiesLive(s, t)
    /\ EnvelopesReachCurrent(last)
    /\ ~RotationRequired
    /\ t \notin Active
    /\ HasRoom
    /\ role' = [role EXCEPT ![t] = "member"]
    /\ revoked' = revoked \ {t}
    /\ wraps' = [e \in Epoch |-> IF e \in Envelopes(last) THEN wraps[e] \cup {t}
                                 ELSE wraps[e]]
    /\ holders' = [e \in Epoch |-> IF e \in Envelopes(last) THEN holders[e] \cup {t}
                                   ELSE holders[e]]
    /\ UNCHANGED <<album, account, cur, rotationRequired, consented, revoking>>

\* AlbumService.RemoveMember up to the transaction: the caller's membership
\* and role are read without the album lock.
RemoveMember(c, t) ==
    /\ album = "live"
    /\ MayRemove(c, t)
    /\ Cardinality(revoking) < MaxInflight
    /\ revoking' = revoking \cup {[caller |-> c, target |-> t]}
    /\ UNCHANGED <<album, account, role, revoked, cur, wraps, rotationRequired,
                   consented, holders>>

\* RevokeMemberTx: the caller must still be active; a target that is gone or
\* already revoked, or is the last admin, ends the request without a change.
RevokeMemberTx(r) ==
    /\ r \in revoking
    /\ revoking' = revoking \ {r}
    /\ IF /\ album = "live"
          /\ r.caller \in Active
          /\ r.target \in Active
          /\ NotLastAdmin(r.target)
       THEN /\ revoked' = revoked \cup {r.target}
            /\ rotationRequired' = DebtAfterDeparture
       ELSE UNCHANGED <<revoked, rotationRequired>>
    /\ UNCHANGED <<album, account, role, cur, wraps, consented, holders>>

\* removeAlbum: the album row goes and every roster, identity, epoch and wrap
\* row cascades.
RemoveAlbum ==
    /\ album' = "gone"
    /\ role' = [u \in Users |-> "none"]
    /\ revoked' = {}
    /\ cur' = -1
    /\ wraps' = [e \in Epoch |-> {}]
    /\ rotationRequired' = FALSE
    /\ UNCHANGED <<account, consented, revoking, holders>>

\* AlbumService.DeleteAlbum + DeleteAlbumTx.
DeleteAlbum(c) ==
    /\ album = "live"
    /\ ActiveAdmin(c)
    /\ RemoveAlbum

\* AccountDeletionRepository.Accept, seen from this album.  `confirmed`: the
\* request lists this album among the shared ones it may destroy.
AcceptDeletion(u, confirmed) ==
    /\ AccountLive(u)
    /\ PlanConfirmed(u, confirmed)
    /\ account' = [account EXCEPT ![u] = "deleting"]
    /\ consented' = IF confirmed THEN consented \cup {u} ELSE consented
    /\ UNCHANGED <<album, role, revoked, cur, wraps, rotationRequired,
                   revoking, holders>>

SeverRosterOnly(u) ==
    /\ role' = [role EXCEPT ![u] = "none"]
    /\ revoked' = revoked \ {u}
    /\ UNCHANGED <<album, account, cur, wraps, consented, revoking, holders>>

\* The identity row goes; its roster row and wraps cascade.
Sever(u) ==
    /\ role' = [role EXCEPT ![u] = "none"]
    /\ revoked' = revoked \ {u}
    /\ wraps' = [e \in Epoch |-> wraps[e] \ {u}]
    /\ UNCHANGED <<album, account, cur, consented, revoking, holders>>

\* RemoveMembership: the deletion job re-derives the outcome under the lock.
RemoveMembership(u) ==
    /\ album = "live"
    /\ account[u] = "deleting"
    /\ Attached(u)
    /\ \/ Outcome(u) \in {"delete_album", "delete_shared"} /\ RemoveAlbum
       \/ Outcome(u) = "leave" /\ Sever(u) /\ rotationRequired' = DebtAfterDeparture
       \/ Outcome(u) = "erase" /\ Sever(u) /\ UNCHANGED rotationRequired

\* FinishAccount: the users row goes once no identity row is left.
FinishAccount(u) ==
    /\ account[u] = "deleting"
    /\ u \notin Member
    /\ account' = [account EXCEPT ![u] = "gone"]
    /\ UNCHANGED <<album, role, revoked, cur, wraps, rotationRequired,
                   consented, revoking, holders>>

DeletionJob(u) == RemoveMembership(u) \/ FinishAccount(u)

Next ==
    \/ \E u \in Users : CreateWithAdmin(u)
    \/ \E u \in Users, e \in Epoch, R \in SUBSET Users : InsertEpoch(u, e, R)
    \/ \E s, t \in Users, last \in Epoch : DeliverMember(s, t, last)
    \/ \E c, t \in Users : RemoveMember(c, t)
    \/ \E r \in revoking : RevokeMemberTx(r)
    \/ \E c \in Users : DeleteAlbum(c)
    \/ \E u \in Users, confirmed \in BOOLEAN : AcceptDeletion(u, confirmed)
    \/ \E u \in Users : RemoveMembership(u)
    \/ \E u \in Users : FinishAccount(u)

Spec == Init /\ [][Next]_keyVars

\* The deletion job retries every account with a queued row until it is gone:
\* a failed pass only pushes next_attempt_at back (ClaimDue, Run).
FairSpec == Spec /\ \A u \in Users : WF_keyVars(DeletionJob(u))

-----------------------------------------------------------------------------
Request == [caller : Users, target : Users]

\* Type invariant, with the foreign keys of the schema: a revocation or a
\* wrap never outlives the roster row it is about, and a wrap never refers to
\* an epoch the album does not have.
TypeOK ==
    /\ album \in {"none", "live", "gone"}
    /\ account \in [Users -> {"live", "deleting", "gone"}]
    /\ role \in [Users -> {"none", "member", "admin"}]
    /\ revoked \in SUBSET Users
    /\ cur \in Epoch \cup {-1}
    /\ wraps \in [Epoch -> SUBSET Users]
    /\ rotationRequired \in BOOLEAN
    /\ consented \in SUBSET Users
    /\ revoking \in SUBSET Request
    /\ holders \in [Epoch -> SUBSET Users]
    /\ revoked \subseteq Member
    /\ \A e \in Epoch : wraps[e] \subseteq Member
    /\ \A e \in Epoch : e > cur => wraps[e] = {}

\* Whenever the gate that freezes uploads and invites is open, the current
\* key is known to the active members and to nobody else: every departure
\* (revoke, leave, account deletion) closes the gate until a rotation covers
\* exactly the remaining members, even after the departed member's wraps have
\* been erased.
FreezeSound ==
    (album = "live" /\ cur >= 0 /\ ~RotationRequired) => holders[cur] = Active

\* An active member can fetch the key of every epoch the album ever had:
\* joins backfill 0..current, rotations cover everybody, and no interleaving
\* of the two leaves a hole in anybody's history.
HistoryReadable ==
    album = "live" => \A u \in Active, e \in 0 .. cur : u \in wraps[e]

\* The wrap-drift half of RotationRequiredExpr never fires on its own: the
\* durable flag already covers every drift the transactions can produce.
DriftImpliesDebt ==
    (album = "live" /\ RotationRequired) => rotationRequired

OneActiveAdmin == album = "live" => Cardinality(Admins) = 1
MemberCap == Cardinality(Active) <= MaxAlbumMembers

\* A live album always has exactly one active admin, so somebody is entitled
\* to pay a rotation debt, and concurrent invites and reactivations never push
\* its roster over the cap.
RosterSound == OneActiveAdmin /\ MemberCap

\* Account deletion destroys an album that others still use only for a user
\* who confirmed that album by name, although memberships may change between
\* the preflight, the acceptance and the job.
SharedLossConfirmed ==
    [][\A u \in Users :
          (RemoveMembership(u) /\ album' = "gone" /\ Active \ {u} # {})
              => u \in consented]_keyVars

\* Nobody is put out of an album except by itself or by whoever is admin at
\* that moment, although the caller's role was read before the lock.
RemovalAuthorised ==
    [][\A r \in revoking :
          (RevokeMemberTx(r) /\ revoked' # revoked)
              => r.caller = r.target \/ r.caller \in Admins]_keyVars

\* Once the job has detached an account that is being deleted, no invite or
\* album creation attaches it again, so FinishAccount cannot be put off by
\* requests that began before the acceptance.
StaysDetached ==
    [][\A u \in Users : (account[u] # "live" /\ u \notin Member)
          => (u \notin Member)']_keyVars

\* An accepted account deletion finishes: nothing can keep re-attaching the
\* account to the album while the job detaches it.
DeletionCompletes ==
    \A u \in Users : account[u] = "deleting" ~> account[u] = "gone"

=============================================================================
