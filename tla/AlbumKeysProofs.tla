--------------------------- MODULE AlbumKeysProofs ---------------------------
(***************************************************************************)
(* Proofs about AlbumKeys for every set of accounts, every number of       *)
(* epochs and every member cap.                                            *)
(***************************************************************************)
EXTENDS AlbumKeys, FiniteSetTheorems, TLAPS

(***************************************************************************)
(* The inductive invariant, in named parts.                                *)
(***************************************************************************)

\* No album, no rows.
NoRowsInv == album # "live" => Member = {} /\ cur = -1

\* One active admin as long as the album lives.
AdminInv == album = "live" => \E a \in Users : Admins = {a}

\* Every active member has a wrap at every epoch.
CoverInv == \A u \in Active, e \in Epoch : e <= cur => u \in wraps[e]

\* Without durable debt the current wraps and the people who were ever given
\* the current key are exactly the active roster.
FreshInv == (cur >= 0 /\ ~rotationRequired)
                => wraps[cur] = Active /\ holders[cur] = Active

\* The authority of an in-flight removal does not go stale.
AskInv == \A r \in revoking :
              /\ album # "none"
              /\ r.caller = r.target \/ (album = "live" => r.caller \in Admins)

\* A deleting admin of a shared album confirmed it.
ConsentInv == \A u \in Admins :
                  (account[u] = "deleting" /\ Active # {u}) => u \in consented

IInv == /\ TypeOK
        /\ NoRowsInv
        /\ AdminInv
        /\ CoverInv
        /\ FreshInv
        /\ MemberCap
        /\ AskInv
        /\ ConsentInv

-----------------------------------------------------------------------------
(***************************************************************************)
(* Facts about the rosters.                                                *)
(***************************************************************************)

\* Members, active members and admins are finite sets of users.
LEMMA RosterFinite ==
  /\ Member \subseteq Users /\ Active \subseteq Users /\ Admins \subseteq Active
  /\ IsFiniteSet(Active) /\ Cardinality(Active) \in Nat
  /\ IsFiniteSet(Admins) /\ Cardinality(Admins) \in Nat
<1>1. Member \subseteq Users /\ Active \subseteq Users /\ Admins \subseteq Active
  BY DEF Member, Active, Admins
<1>2. IsFiniteSet(Active)
  BY <1>1, UsersFinite, FS_Subset
<1>3. IsFiniteSet(Admins)
  BY <1>1, <1>2, FS_Subset
<1> QED
  BY <1>1, <1>2, <1>3, FS_CardinalityType

\* RevokeMemberTx's count: with a single admin the guard refuses that admin.
LEMMA SoleAdminGuarded ==
  ASSUME NEW a \in Users, Admins = {a}, NEW t \in Active, NotLastAdmin(t)
  PROVE  t \notin Admins
<1>1. Cardinality(Admins) = 1
  BY FS_Singleton
<1> QED
  BY <1>1 DEF NotLastAdmin, Admins

\* DeletionMembership.Outcome: an active member of an album with another
\* active member counts more than one.
LEMMA SharedCount ==
  ASSUME NEW u \in Active, Active # {u}
  PROVE  ~(Cardinality(Active) <= 1)
<1>1. SUFFICES ASSUME Cardinality(Active) <= 1 PROVE FALSE
  OBVIOUS
<1>2. Cardinality({u}) = 1 /\ {u} \in SUBSET Active
  BY FS_Singleton
<1>3. Cardinality({u}) <= Cardinality(Active)
       /\ (Cardinality(Active) = Cardinality({u}) => Active = {u})
  BY <1>2, RosterFinite, FS_Subset
<1> QED
  BY <1>1, <1>2, <1>3, RosterFinite

\* The initial state satisfies the inductive invariant.
LEMMA InitInv == Init => IInv
<1> SUFFICES ASSUME Init PROVE IInv
  OBVIOUS
<1> USE MaxEpochNat, CapPositive, InflightNat
<1>1. Member = {} /\ Active = {} /\ Admins = {}
  BY DEF Init, Member, Active, Admins
<1>2. TypeOK
  BY <1>1 DEF Init, TypeOK, Epoch, Request
<1>3. MemberCap
  BY <1>1, FS_EmptySet DEF MemberCap
<1> QED
  BY <1>1, <1>2, <1>3
  DEF Init, IInv, NoRowsInv, AdminInv, CoverInv, FreshInv, AskInv, ConsentInv

\* Album creation: one admin, no epoch, no debt.
LEMMA CreateStep ==
  ASSUME IInv, NEW u \in Users, CreateWithAdmin(u)
  PROVE  IInv'
<1> USE MaxEpochNat, CapPositive
<1>0. TypeOK /\ Member = {} /\ cur = -1
  BY DEF IInv, NoRowsInv, CreateWithAdmin
<1>1. Member' = {u} /\ Active' = {u} /\ Admins' = {u}
  BY <1>0 DEF TypeOK, CreateWithAdmin, Member, Active, Admins
<1>2. TypeOK'
  BY <1>0, <1>1 DEF TypeOK, CreateWithAdmin, Member
<1>3. MemberCap'
  <2>1. Cardinality(Active') = 1
    BY <1>1, FS_Singleton
  <2> QED
    BY <2>1 DEF MemberCap
<1>4. AskInv'
  BY <1>1 DEF IInv, AskInv, CreateWithAdmin
<1> QED
  BY <1>0, <1>1, <1>2, <1>3, <1>4
  DEF IInv, NoRowsInv, AdminInv, CoverInv, FreshInv, ConsentInv, CreateWithAdmin, AccountLive, Epoch, TypeOK

\* Rotation: the recipients are the active roster, so the new epoch starts
\* with wraps and holders equal to it.
LEMMA InsertEpochStep ==
  ASSUME IInv, NEW u \in Users, NEW e \in Epoch, NEW R \in SUBSET Users,
         InsertEpoch(u, e, R)
  PROVE  IInv'
<1> USE MaxEpochNat
<1>0. TypeOK /\ R = Active /\ e = cur + 1 /\ cur' = e /\ album = "live"
  BY DEF IInv, InsertEpoch, CoversActiveSet
<1>1. Member' = Member /\ Active' = Active /\ Admins' = Admins
  BY DEF InsertEpoch, Member, Active, Admins
<1>2. TypeOK'
  <2>1. wraps' \in [Epoch -> SUBSET Users] /\ holders' \in [Epoch -> SUBSET Users]
    BY <1>0 DEF TypeOK, InsertEpoch
  <2>2. \A x \in Epoch : wraps'[x] = (IF x = e THEN R ELSE wraps[x])
    BY <1>0 DEF TypeOK, InsertEpoch
  <2>3. \A x \in Epoch : wraps'[x] \subseteq Member'
    BY <1>0, <1>1, <2>2 DEF TypeOK, Active
  <2>4. \A x \in Epoch : x > cur' => wraps'[x] = {}
    BY <1>0, <2>2 DEF TypeOK, Epoch
  <2> QED
    BY <1>0, <1>1, <2>1, <2>3, <2>4 DEF TypeOK, InsertEpoch, Epoch
<1>3. CoverInv'
  BY <1>0, <1>1 DEF IInv, CoverInv, InsertEpoch, TypeOK, Epoch
<1>4. FreshInv'
  BY <1>0, <1>1 DEF FreshInv, InsertEpoch, TypeOK
<1>5. MemberCap'
  BY <1>1 DEF IInv, MemberCap
<1> QED
  BY <1>0, <1>1, <1>2, <1>3, <1>4, <1>5
  DEF IInv, NoRowsInv, AdminInv, AskInv, ConsentInv, InsertEpoch

\* Invite: only without debt, with envelopes up to the current epoch, so the
\* newcomer joins the wraps, the holders and the roster at once.
LEMMA DeliverStep ==
  ASSUME IInv, NEW p \in Users, NEW t \in Users, NEW last \in Epoch,
         DeliverMember(p, t, last)
  PROVE  IInv'
<1> USE MaxEpochNat, CapPositive
<1>0. /\ TypeOK /\ album = "live" /\ last = cur /\ cur \in Epoch /\ cur' = cur
      /\ ~rotationRequired /\ p \in Admins /\ t \notin Active
      /\ rotationRequired' = rotationRequired
  BY DEF IInv, DeliverMember, Envelopes, EnvelopesReachCurrent, RotationRequired,
         ActiveAdmin, Admins, Active
<1>1. Member' = Member \cup {t} /\ Active' = Active \cup {t}
  BY <1>0 DEF DeliverMember, Envelopes, Member, Active, TypeOK
<1>2. Admins' = Admins
  BY <1>0, <1>1 DEF DeliverMember, Admins, TypeOK
<1>3. \A x \in Epoch :
        /\ wraps'[x] = (IF x <= cur THEN wraps[x] \cup {t} ELSE wraps[x])
        /\ holders'[x] = (IF x <= cur THEN holders[x] \cup {t} ELSE holders[x])
  <2>1. \A x \in Epoch : x \in Envelopes(cur) <=> x <= cur
    BY <1>0 DEF Envelopes, Epoch, TypeOK
  <2> QED
    BY <1>0, <2>1 DEF DeliverMember
<1>4. TypeOK'
  <2>1. wraps' \in [Epoch -> SUBSET Users] /\ holders' \in [Epoch -> SUBSET Users]
    BY <1>0 DEF TypeOK, DeliverMember
  <2>2. \A x \in Epoch : wraps'[x] \subseteq Member'
    BY <1>0, <1>1, <1>3 DEF TypeOK
  <2>3. \A x \in Epoch : x > cur' => wraps'[x] = {}
    <3>1. \A x \in Epoch : x > cur => wraps[x] = {} /\ ~(x <= cur)
      BY <1>0 DEF TypeOK, Epoch
    <3> QED
      BY <1>0, <1>3, <3>1
  <2>4. revoked' \subseteq Member' /\ revoked' \in SUBSET Users
    BY <1>0, <1>1 DEF TypeOK, DeliverMember
  <2>5. role' \in [Users -> {"none", "member", "admin"}]
    BY <1>0 DEF TypeOK, DeliverMember
  <2> QED
    BY <1>0, <2>1, <2>2, <2>3, <2>4, <2>5 DEF TypeOK, DeliverMember
<1>5. CoverInv'
  BY <1>0, <1>1, <1>3 DEF IInv, CoverInv
<1>6. FreshInv'
  <2>1. wraps[cur] = Active /\ holders[cur] = Active
    BY <1>0 DEF IInv, FreshInv, Epoch
  <2>2. wraps'[cur'] = Active' /\ holders'[cur'] = Active'
    BY <1>0, <1>1, <1>3, <2>1 DEF Epoch
  <2> QED
    BY <2>2 DEF FreshInv
<1>7. MemberCap'
  <2>1. Cardinality(Active) < MaxAlbumMembers
    BY DEF DeliverMember, HasRoom
  <2>2. Cardinality(Active') = Cardinality(Active) + 1
    BY <1>0, <1>1, RosterFinite, FS_AddElement
  <2> QED
    BY <2>1, <2>2, RosterFinite DEF MemberCap
<1>8. AskInv'
  BY <1>0, <1>2 DEF IInv, AskInv, DeliverMember
<1>9. ConsentInv'
  <2>1. Admins = {p} /\ account[p] = "live"
    BY <1>0 DEF IInv, AdminInv, DeliverMember, PartiesLive, AccountLive
  <2> QED
    BY <1>2, <2>1 DEF ConsentInv, DeliverMember
<1> QED
  BY <1>0, <1>2, <1>4, <1>5, <1>6, <1>7, <1>8, <1>9
  DEF IInv, NoRowsInv, AdminInv, DeliverMember

\* A removal request is admitted on the caller's present authority.
LEMMA RemoveMemberStep ==
  ASSUME IInv, NEW c \in Users, NEW t \in Users, RemoveMember(c, t)
  PROVE  IInv'
<1>0. /\ album = "live"
      /\ revoking' = revoking \cup {[caller |-> c, target |-> t]}
      /\ c = t \/ c \in Admins
  BY DEF RemoveMember, MayRemove, Admins
<1>1. Member' = Member /\ Active' = Active /\ Admins' = Admins
  BY DEF RemoveMember, Member, Active, Admins
<1>2. TypeOK'
  BY <1>0, <1>1 DEF IInv, TypeOK, Request, RemoveMember
<1>3. AskInv'
  BY <1>0, <1>1 DEF IInv, AskInv, RemoveMember
<1> QED
  BY <1>1, <1>2, <1>3
  DEF IInv, NoRowsInv, AdminInv, CoverInv, FreshInv, MemberCap, ConsentInv, RemoveMember

\* Revocation: the debt flag is set with the revocation, and the sole admin
\* cannot be its target.
LEMMA RevokeStep ==
  ASSUME IInv, NEW r \in revoking, RevokeMemberTx(r)
  PROVE  IInv'
<1>0. /\ TypeOK /\ revoking' = revoking \ {r}
      /\ UNCHANGED <<album, account, role, cur, wraps, consented, holders>>
  BY DEF IInv, RevokeMemberTx
<1>1. CASE UNCHANGED <<revoked, rotationRequired>>
  <2>1. Member' = Member /\ Active' = Active /\ Admins' = Admins
    BY <1>0, <1>1 DEF Member, Active, Admins
  <2>2. AskInv'
    BY <1>0, <2>1 DEF IInv, AskInv
  <2>3. TypeOK'
    BY <1>0, <1>1, <2>1 DEF TypeOK
  <2> QED
    BY <1>0, <1>1, <2>1, <2>2, <2>3
    DEF IInv, NoRowsInv, AdminInv, CoverInv, FreshInv, MemberCap, ConsentInv
<1>2. CASE /\ album = "live" /\ r.caller \in Active /\ r.target \in Active
           /\ NotLastAdmin(r.target)
           /\ revoked' = revoked \cup {r.target}
           /\ rotationRequired' = DebtAfterDeparture
  <2>1. /\ Member' = Member /\ Active' = Active \ {r.target}
        /\ Active' \subseteq Active
    BY <1>0, <1>2 DEF Member, Active
  <2>2. PICK a \in Users : Admins = {a}
    BY <1>2 DEF IInv, AdminInv
  <2>3. r.target \notin Admins
    BY <1>2, <2>2, SoleAdminGuarded
  <2>4. Admins' = Admins
    BY <1>0, <2>1, <2>3 DEF Admins
  <2>5. TypeOK'
    BY <1>0, <1>2, <2>1 DEF TypeOK, DebtAfterDeparture, Active, Member
  <2>6. CoverInv'
    BY <1>0, <2>1 DEF IInv, CoverInv
  <2>7. FreshInv'
    BY <1>2 DEF FreshInv, DebtAfterDeparture
  <2>8. MemberCap'
    <3>1. Cardinality(Active') <= Cardinality(Active) /\ Cardinality(Active') \in Nat
      BY <2>1, RosterFinite, FS_Subset, FS_CardinalityType
    <3> QED
      BY <3>1, RosterFinite, CapPositive DEF IInv, MemberCap
  <2>9. AskInv'
    BY <1>0, <2>4 DEF IInv, AskInv
  <2>10. ConsentInv'
    <3>1. a \in Active /\ a \in Active' /\ Admins' = {a}
      BY <2>1, <2>2, <2>3, <2>4 DEF Admins
    <3>2. Active' # {a} => Active # {a}
      BY <2>1, <3>1
    <3> QED
      BY <1>0, <2>2, <3>1, <3>2 DEF IInv, ConsentInv
  <2> QED
    BY <1>0, <1>2, <2>2, <2>4, <2>5, <2>6, <2>7, <2>8, <2>9, <2>10
    DEF IInv, NoRowsInv, AdminInv
<1> QED
  BY <1>1, <1>2 DEF RevokeMemberTx

\* Album removal leaves no rows.
LEMMA RemoveAlbumStep ==
  ASSUME IInv, RemoveAlbum
  PROVE  IInv'
<1> USE MaxEpochNat, CapPositive
<1>1. Member' = {} /\ Active' = {} /\ Admins' = {}
  BY DEF RemoveAlbum, Member, Active, Admins
<1>2. TypeOK'
  BY <1>1 DEF IInv, TypeOK, RemoveAlbum
<1>3. MemberCap'
  <2>1. Cardinality(Active') = 0
    BY <1>1, FS_EmptySet
  <2> QED
    BY <2>1 DEF MemberCap
<1> QED
  BY <1>1, <1>2, <1>3
  DEF IInv, NoRowsInv, AdminInv, CoverInv, FreshInv, AskInv, ConsentInv, RemoveAlbum

\* Accepting a deletion: an admin of a shared album has confirmed it.
LEMMA AcceptStep ==
  ASSUME IInv, NEW u \in Users, NEW confirmed \in BOOLEAN,
         AcceptDeletion(u, confirmed)
  PROVE  IInv'
<1>0. /\ TypeOK /\ account' = [account EXCEPT ![u] = "deleting"]
      /\ consented' = IF confirmed THEN consented \cup {u} ELSE consented
      /\ UNCHANGED <<album, role, revoked, cur, wraps, rotationRequired, revoking, holders>>
  BY DEF IInv, AcceptDeletion
<1>1. Member' = Member /\ Active' = Active /\ Admins' = Admins
  BY <1>0 DEF Member, Active, Admins
<1>2. TypeOK'
  BY <1>0, <1>1 DEF TypeOK
<1>3. ConsentInv'
  <2>1. SUFFICES ASSUME NEW x \in Admins, account'[x] = "deleting", Active # {x}
                 PROVE  x \in consented'
    BY <1>1 DEF ConsentInv
  <2>2. CASE x = u
    <3>1. u \in Member /\ u \in Active /\ role[u] = "admin"
      BY <2>2 DEF Admins, Active
    <3>2. Outcome(u) = "delete_shared"
      BY <2>1, <2>2, <3>1, SharedCount DEF Outcome
    <3>3. confirmed
      BY <3>1, <3>2 DEF AcceptDeletion, PlanConfirmed
    <3> QED
      BY <1>0, <2>2, <3>3
  <2>3. CASE x # u
    BY <1>0, <2>1, <2>3 DEF IInv, ConsentInv, TypeOK, Admins, Active, Member
  <2> QED
    BY <2>2, <2>3
<1> QED
  BY <1>0, <1>1, <1>2, <1>3
  DEF IInv, NoRowsInv, AdminInv, CoverInv, FreshInv, MemberCap, AskInv

\* The deletion job detaches a plain or revoked member: leaving sets the debt,
\* and erasing a revoked member's wraps takes nothing from the active roster.
LEMMA SeverStep ==
  ASSUME IInv, NEW u \in Users, album = "live", u \notin Admins, Sever(u),
         \/ rotationRequired' = DebtAfterDeparture
         \/ u \notin Active /\ UNCHANGED rotationRequired
  PROVE  IInv'
<1> USE MaxEpochNat, CapPositive
<1>0. /\ TypeOK /\ role' = [role EXCEPT ![u] = "none"] /\ revoked' = revoked \ {u}
      /\ UNCHANGED <<album, account, cur, consented, revoking, holders>>
  BY DEF IInv, Sever
<1>1. /\ Member' = Member \ {u} /\ Active' = Active \ {u}
      /\ Active' \subseteq Active
  BY <1>0 DEF TypeOK, Member, Active
<1>2. Admins' = Admins
  BY <1>0, <1>1 DEF TypeOK, Admins
<1>3. \A x \in Epoch : wraps'[x] = wraps[x] \ {u}
  BY DEF Sever
<1>4. TypeOK'
  <2>1. \A x \in Epoch : wraps'[x] \subseteq Member' /\ (x > cur' => wraps'[x] = {})
    BY <1>0, <1>1, <1>3 DEF TypeOK
  <2>2. wraps' \in [Epoch -> SUBSET Users]
    BY <1>0 DEF TypeOK, Sever
  <2> QED
    BY <1>0, <1>1, <2>1, <2>2 DEF TypeOK, DebtAfterDeparture
<1>5. CoverInv'
  BY <1>0, <1>1, <1>3 DEF IInv, CoverInv
<1>6. FreshInv'
  <2>1. CASE rotationRequired' = DebtAfterDeparture
    BY <2>1 DEF FreshInv, DebtAfterDeparture
  <2>2. CASE u \notin Active /\ UNCHANGED rotationRequired
    <3>1. SUFFICES ASSUME cur' >= 0, ~rotationRequired'
                   PROVE  wraps'[cur'] = Active' /\ holders'[cur'] = Active'
      BY DEF FreshInv
    <3>2. cur' = cur /\ cur \in Epoch /\ wraps[cur] = Active /\ holders[cur] = Active
      BY <1>0, <2>2, <3>1 DEF IInv, FreshInv, TypeOK, Epoch
    <3> QED
      BY <1>0, <1>1, <1>3, <2>2, <3>2
  <2> QED
    BY <2>1, <2>2
<1>7. MemberCap'
  <2>1. Cardinality(Active') <= Cardinality(Active) /\ Cardinality(Active') \in Nat
    BY <1>1, RosterFinite, FS_Subset, FS_CardinalityType
  <2> QED
    BY <2>1, RosterFinite DEF IInv, MemberCap
<1>8. ConsentInv'
  <2>1. \A a \in Admins : a \in Active /\ a \in Active' /\ (Active' # {a} => Active # {a})
    BY <1>1, <1>2 DEF Admins
  <2> QED
    BY <1>0, <1>2, <2>1 DEF IInv, ConsentInv
<1> QED
  BY <1>0, <1>2, <1>4, <1>5, <1>6, <1>7, <1>8
  DEF IInv, NoRowsInv, AdminInv, AskInv

\* Every outcome of the deletion job's step.
LEMMA RemoveMembershipStep ==
  ASSUME IInv, NEW u \in Users, RemoveMembership(u)
  PROVE  IInv'
<1>1. CASE Outcome(u) \in {"delete_album", "delete_shared"} /\ RemoveAlbum
  BY <1>1, RemoveAlbumStep
<1>2. CASE Outcome(u) = "leave" /\ Sever(u) /\ rotationRequired' = DebtAfterDeparture
  <2>1. u \notin Admins
    BY <1>2 DEF Outcome, Admins
  <2> QED
    BY <1>2, <2>1, SeverStep DEF RemoveMembership
<1>3. CASE Outcome(u) = "erase" /\ Sever(u) /\ UNCHANGED rotationRequired
  <2>1. u \notin Active /\ u \notin Admins
    BY <1>3 DEF Outcome, Admins
  <2> QED
    BY <1>3, <2>1, SeverStep DEF RemoveMembership
<1> QED
  BY <1>1, <1>2, <1>3 DEF RemoveMembership

\* The account row goes only when no membership row is left.
LEMMA FinishStep ==
  ASSUME IInv, NEW u \in Users, FinishAccount(u)
  PROVE  IInv'
<1>0. /\ TypeOK /\ u \notin Member /\ account' = [account EXCEPT ![u] = "gone"]
      /\ UNCHANGED <<album, role, revoked, cur, wraps, rotationRequired,
                     consented, revoking, holders>>
  BY DEF IInv, FinishAccount
<1>1. Member' = Member /\ Active' = Active /\ Admins' = Admins
  BY <1>0 DEF Member, Active, Admins
<1>2. TypeOK'
  BY <1>0, <1>1 DEF TypeOK
<1>3. ConsentInv'
  BY <1>0, <1>1 DEF IInv, ConsentInv, TypeOK, Admins, Active, Member
<1> QED
  BY <1>0, <1>1, <1>2, <1>3
  DEF IInv, NoRowsInv, AdminInv, CoverInv, FreshInv, MemberCap, AskInv

\* A step of the specification preserves the inductive invariant.
LEMMA StepInv == IInv /\ [Next]_keyVars => IInv'
<1> SUFFICES ASSUME IInv, [Next]_keyVars PROVE IInv'
  OBVIOUS
<1>1. CASE \E u \in Users : CreateWithAdmin(u)
  BY <1>1, CreateStep
<1>2. CASE \E u \in Users, e \in Epoch, R \in SUBSET Users : InsertEpoch(u, e, R)
  BY <1>2, InsertEpochStep
<1>3. CASE \E s, t \in Users, last \in Epoch : DeliverMember(s, t, last)
  BY <1>3, DeliverStep
<1>4. CASE \E c, t \in Users : RemoveMember(c, t)
  BY <1>4, RemoveMemberStep
<1>5. CASE \E r \in revoking : RevokeMemberTx(r)
  BY <1>5, RevokeStep
<1>6. CASE \E c \in Users : DeleteAlbum(c)
  BY <1>6, RemoveAlbumStep DEF DeleteAlbum
<1>7. CASE \E u \in Users, confirmed \in BOOLEAN : AcceptDeletion(u, confirmed)
  BY <1>7, AcceptStep
<1>8. CASE \E u \in Users : RemoveMembership(u)
  BY <1>8, RemoveMembershipStep
<1>9. CASE \E u \in Users : FinishAccount(u)
  BY <1>9, FinishStep
<1>10. CASE UNCHANGED keyVars
  <2>1. Member' = Member /\ Active' = Active /\ Admins' = Admins
    BY <1>10 DEF keyVars, Member, Active, Admins
  <2> QED
    BY <1>10, <2>1
    DEF keyVars, IInv, TypeOK, NoRowsInv, AdminInv, CoverInv, FreshInv,
        MemberCap, AskInv, ConsentInv
<1> QED
  BY <1>1, <1>2, <1>3, <1>4, <1>5, <1>6, <1>7, <1>8, <1>9, <1>10 DEF Next

-----------------------------------------------------------------------------
(***************************************************************************)
(* The properties, for every instance.                                     *)
(***************************************************************************)

\* The inductive invariant holds throughout.
THEOREM KeysInvariant == Spec => []IInv
BY InitInv, StepInv, PTL DEF Spec

\* Rows stay well typed and consistent with the schema's foreign keys.
THEOREM KeysTypeOK == Spec => []TypeOK
<1>1. IInv => TypeOK
  BY DEF IInv
<1> QED
  BY <1>1, KeysInvariant, PTL

\* With the upload and invite gate open, nobody but the active members was
\* ever handed the current key.
THEOREM KeysFreezeSound == Spec => []FreezeSound
<1>1. IInv => FreezeSound
  BY DEF IInv, FreshInv, FreezeSound, RotationRequired
<1> QED
  BY <1>1, KeysInvariant, PTL

\* Active members can fetch the key of every epoch.
THEOREM KeysHistoryReadable == Spec => []HistoryReadable
<1>1. IInv => HistoryReadable
  <2>1. SUFFICES ASSUME IInv, NEW u \in Active, NEW e \in 0 .. cur
                 PROVE  u \in wraps[e]
    BY DEF HistoryReadable
  <2>2. e \in Epoch /\ e <= cur
    BY <2>1, MaxEpochNat DEF IInv, TypeOK, Epoch
  <2> QED
    BY <2>1, <2>2 DEF IInv, CoverInv
<1> QED
  BY <1>1, KeysInvariant, PTL

\* The durable flag covers every drift of the wraps from the roster.
THEOREM KeysDriftImpliesDebt == Spec => []DriftImpliesDebt
<1>1. IInv => DriftImpliesDebt
  BY DEF IInv, FreshInv, DriftImpliesDebt, RotationRequired
<1> QED
  BY <1>1, KeysInvariant, PTL

\* A live album has exactly one active admin, and its roster never exceeds the
\* cap.
THEOREM KeysRosterSound == Spec => []RosterSound
<1>1. IInv => OneActiveAdmin
  BY FS_Singleton DEF IInv, AdminInv, OneActiveAdmin
<1>2. IInv => RosterSound
  BY <1>1 DEF IInv, RosterSound
<1> QED
  BY <1>2, KeysInvariant, PTL

\* A removal commits only on the authority its caller has at that moment.
THEOREM KeysRemovalAuthorised == Spec => RemovalAuthorised
<1>1. IInv /\ [Next]_keyVars =>
        [\A r \in revoking : (RevokeMemberTx(r) /\ revoked' # revoked)
             => r.caller = r.target \/ r.caller \in Admins]_keyVars
  <2>1. SUFFICES ASSUME IInv, NEW r \in revoking, RevokeMemberTx(r), revoked' # revoked
                 PROVE  r.caller = r.target \/ r.caller \in Admins
    OBVIOUS
  <2>2. album = "live"
    BY <2>1 DEF RevokeMemberTx
  <2> QED
    BY <2>1, <2>2 DEF IInv, AskInv
<1> QED
  BY <1>1, KeysInvariant, PTL DEF Spec, RemovalAuthorised

\* Account deletion takes a shared album down only with its confirmation.
THEOREM KeysSharedLossConfirmed == Spec => SharedLossConfirmed
<1>1. IInv /\ [Next]_keyVars =>
        [\A u \in Users : (RemoveMembership(u) /\ album' = "gone" /\ Active \ {u} # {})
             => u \in consented]_keyVars
  <2>1. SUFFICES ASSUME IInv, NEW u \in Users, RemoveMembership(u),
                        album' = "gone", Active \ {u} # {}
                 PROVE  u \in consented
    OBVIOUS
  <2>2. Outcome(u) \in {"delete_album", "delete_shared"}
    BY <2>1 DEF RemoveMembership, Sever
  <2>3. u \in Active /\ Active # {u}
    BY <2>1, <2>2 DEF Outcome
  <2>4. u \in Admins
    BY <2>2, <2>3, SharedCount DEF Outcome, Admins
  <2> QED
    BY <2>1, <2>3, <2>4 DEF IInv, ConsentInv, RemoveMembership
<1> QED
  BY <1>1, KeysInvariant, PTL DEF Spec, SharedLossConfirmed

\* Steps that attach an account lock its row and refuse one being deleted.
THEOREM KeysStaysDetached == Spec => StaysDetached
<1>1. IInv /\ [Next]_keyVars =>
        [\A u \in Users : (account[u] # "live" /\ u \notin Member)
             => (u \notin Member)']_keyVars
  <2>1. SUFFICES ASSUME IInv, Next, NEW u \in Users, account[u] # "live", u \notin Member
                 PROVE  (u \notin Member)'
    OBVIOUS
  <2>2. CASE \E c \in Users : CreateWithAdmin(c)
    BY <2>1, <2>2 DEF CreateWithAdmin, AccountLive, Member, IInv, TypeOK
  <2>3. CASE \E s, t \in Users, last \in Epoch : DeliverMember(s, t, last)
    BY <2>1, <2>3 DEF DeliverMember, PartiesLive, AccountLive, Member, IInv, TypeOK
  <2>4. CASE \/ \E c \in Users, e \in Epoch, R \in SUBSET Users : InsertEpoch(c, e, R)
             \/ \E c, t \in Users : RemoveMember(c, t)
             \/ \E r \in revoking : RevokeMemberTx(r)
             \/ \E c \in Users, confirmed \in BOOLEAN : AcceptDeletion(c, confirmed)
             \/ \E c \in Users : FinishAccount(c)
    <3>1. UNCHANGED role
      BY <2>4 DEF InsertEpoch, RemoveMember, RevokeMemberTx, AcceptDeletion, FinishAccount
    <3> QED
      BY <2>1, <3>1 DEF Member
  <2>5. CASE \/ \E c \in Users : DeleteAlbum(c)
             \/ \E c \in Users : RemoveMembership(c)
    BY <2>1, <2>5 DEF DeleteAlbum, RemoveMembership, RemoveAlbum, Sever, Member, IInv, TypeOK
  <2> QED
    BY <2>1, <2>2, <2>3, <2>4, <2>5 DEF Next
<1> QED
  BY <1>1, KeysInvariant, PTL DEF Spec, StaysDetached

=============================================================================
