-------------------------- MODULE KeyDeliveryProofs --------------------------
(***************************************************************************)
(* Proofs about KeyDelivery for every instance: it implements AlbumKeys,   *)
(* so what is proved there holds of it; the phone's keys agree with the    *)
(* album's, and the replay check never refuses an honest server's key.     *)
(***************************************************************************)
EXTENDS KeyDelivery, AlbumKeysProofs, WellFoundedInduction

-----------------------------------------------------------------------------
(***************************************************************************)
(* Least and greatest epochs and keys.                                     *)
(***************************************************************************)

\* A set of naturals that is not empty has a least element.
LEMMA LeastNatural ==
  ASSUME NEW T \in SUBSET Nat, T # {}
  PROVE  \E m \in T : \A y \in T : m <= y
<1> DEFINE R == OpToRel(<, Nat)
<1>1. IsWellFoundedOn(R, Nat)
  BY NatLessThanWellFounded
<1>2. \A x, y \in Nat : (<<y, x>> \in R) <=> y < x
  BY DEF OpToRel
<1> HIDE DEF R
<1>3. PICK m \in T : \A y \in T : ~(<<y, m>> \in R)
  BY <1>1, WFMin
<1>4. \A y \in T : ~(y < m)
  BY <1>2, <1>3, Zenon
<1>5. T \subseteq Nat
  OBVIOUS
<1> QED
  BY <1>4, <1>5

\* Min finds it.
LEMMA MinNatural ==
  ASSUME NEW T \in SUBSET Nat, T # {}
  PROVE  Min(T) \in T /\ \A y \in T : Min(T) <= y
BY LeastNatural, Zenon DEF Min

\* The epochs of a key store, and the latest of them.
PresentIn(k) == {e \in Epoch : k[e] # 0}
LatestIn(k) == Max(PresentIn(k) \cup {-1})

\* latestEpoch is -1, or a present epoch that no other one exceeds.
LEMMA LatestInIsGreatest ==
  ASSUME NEW k
  PROVE  /\ LatestIn(k) \in PresentIn(k) \cup {-1} /\ LatestIn(k) \in -1 .. MaxEpoch
         /\ \A e \in PresentIn(k) : e <= LatestIn(k)
<1> USE MaxEpochNat
<1> DEFINE S == PresentIn(k) \cup {-1}
           T == {MaxEpoch - x : x \in S}
<1>1. S \in SUBSET (-1 .. MaxEpoch) /\ S # {}
  BY DEF PresentIn, Epoch
<1>2. T \in SUBSET Nat /\ T # {}
  BY <1>1
<1>3. PICK m \in T : \A y \in T : m <= y
  BY <1>2, LeastNatural
<1>4. PICK x \in S : m = MaxEpoch - x
  BY <1>3
<1>5. ASSUME NEW y \in S PROVE x >= y
  <2>1. MaxEpoch - y \in T
    OBVIOUS
  <2>2. m <= MaxEpoch - y
    BY <1>3, <2>1
  <2>3. x \in Int /\ y \in Int
    BY <1>1
  <2> QED
    BY <1>4, <2>2, <2>3
<1>6. LatestIn(k) \in S /\ \A y \in S : LatestIn(k) >= y
  BY <1>4, <1>5, Zenon DEF LatestIn, Max
<1>7. LatestIn(k) \in -1 .. MaxEpoch
  BY <1>1, <1>6
<1> QED
  BY <1>1, <1>6, <1>7

\* So of the phone's own store.
LEMMA LatestIsGreatest ==
  /\ Latest \in Present \cup {-1} /\ Latest \in -1 .. MaxEpoch
  /\ \A e \in Present : e <= Latest
<1>1. Present = PresentIn(keys) /\ Latest = LatestIn(keys)
  BY DEF Present, Latest, PresentIn, LatestIn
<1> QED
  BY <1>1, LatestInIsGreatest

\* The same after a step.
LEMMA LatestAfter ==
  /\ Latest' \in Present' \cup {-1} /\ Latest' \in -1 .. MaxEpoch
  /\ \A e \in Present' : e <= Latest'
<1>1. Present' = PresentIn(keys') /\ Latest' = LatestIn(keys')
  BY DEF Present, Latest, PresentIn, LatestIn
<1> QED
  BY <1>1, LatestInIsGreatest

\* What a key that is put in does to it.
LEMMA LatestAfterPut ==
  ASSUME keys \in [Epoch -> Nat], NEW e \in Epoch, NEW k \in Nat \ {0}, keys' = [keys EXCEPT ![e] = k]
  PROVE  /\ Present' = Present \cup {e}
         /\ Latest <= Latest' /\ \A x \in Int : x > Latest /\ x > e => x > Latest'
<1> USE MaxEpochNat
<1>1. Present' = Present \cup {e}
  BY DEF Present
<1>2. Present \subseteq Int /\ e \in Int
  BY DEF Present, Epoch
<1> QED
  BY <1>1, <1>2, LatestIsGreatest, LatestAfter

-----------------------------------------------------------------------------
(***************************************************************************)
(* KeyDelivery implements AlbumKeys.                                       *)
(***************************************************************************)

\* The steps of AlbumKeys that happen here: all but those of account deletion.
KeysStep ==
    \/ \E u \in Users : CreateWithAdmin(u)
    \/ \E u \in Users, e \in Epoch, R \in SUBSET Users : InsertEpoch(u, e, R)
    \/ \E s, t \in Users, last \in Epoch : DeliverMember(s, t, last)
    \/ \E c, t \in Users : RemoveMember(c, t)
    \/ \E r \in revoking : RevokeMemberTx(r)
    \/ \E c \in Users : DeleteAlbum(c)

\* A request names an epoch and recipients the server can read.
CallsShape == phone \in Users /\ \A c \in calls : c.epoch \in Epoch /\ c.to \subseteq Users

\* A step of the server here is one of AlbumKeys, with the phone's share added.
LEMMA ServerStepIsKeysStep ==
  ASSUME ServerStep
  PROVE  KeysStep /\ UNCHANGED phone
<1>1. ASSUME NEW u \in Users, Create(u) PROVE KeysStep /\ UNCHANGED phone
  BY <1>1 DEF Create, KeysStep
<1>2. ASSUME NEW u \in Users, NEW R \in SUBSET Users, OthersRotate(u, R)
      PROVE  KeysStep /\ UNCHANGED phone
  <2>1. InsertEpoch(u, cur + 1, R) /\ cur + 1 \in Epoch
    BY <1>2 DEF OthersRotate, InsertEpoch
  <2> QED
    BY <1>2, <2>1 DEF OthersRotate, KeysStep
<1>3. ASSUME NEW s \in Users, NEW t \in Users, NEW last \in Epoch, Invite(s, t, last)
      PROVE  KeysStep /\ UNCHANGED phone
  BY <1>3 DEF Invite, KeysStep
<1>4. ASSUME NEW c \in Users, NEW t \in Users, Remove(c, t) PROVE KeysStep /\ UNCHANGED phone
  BY <1>4 DEF Remove, KeysStep
<1>5. ASSUME NEW r \in revoking, Revoke(r) PROVE KeysStep /\ UNCHANGED phone
  BY <1>5 DEF Revoke, KeysStep
<1>6. ASSUME NEW u \in Users, Delete(u) PROVE KeysStep /\ UNCHANGED phone
  BY <1>6 DEF Delete, KeysStep
<1> QED
  BY <1>1, <1>2, <1>3, <1>4, <1>5, <1>6 DEF ServerStep

\* A request of the phone that arrives is a rotation, or is refused.
LEMMA SetEpochIsKeysStep ==
  ASSUME CallsShape, NEW c \in calls, SetEpoch(c)
  PROVE  (KeysStep \/ UNCHANGED keyVars) /\ UNCHANGED phone
<1>1. CASE InsertEpoch(phone, c.epoch, c.to)
  BY <1>1 DEF CallsShape, KeysStep, SetEpoch
<1>2. CASE UNCHANGED keyVars
  BY <1>2 DEF SetEpoch
<1> QED
  BY <1>1, <1>2 DEF SetEpoch

\* What the phone does leaves the server alone.
LEMMA PhoneStepIsQuiet ==
  ASSUME PhoneStep
  PROVE  UNCHANGED <<keyVars, phone, keyOf>>
BY DEF PhoneStep, RotStep, SchedStep, ProcStep, RotateIfRequired, PostEpoch, InstallOwn,
       StillRequired, GiveUp, Ask, Settle, HandleEvent, FetchWrap, InstallFetched,
       CatchUp, Prompt, Crash, Wipe

\* So every step here is a step of AlbumKeys or leaves its variables alone.
LEMMA DeliveryStepIsKeysStep ==
  ASSUME CallsShape, [DeliveryNext]_deliveryVars
  PROVE  (KeysStep \/ UNCHANGED keyVars) /\ UNCHANGED phone
<1>1. CASE UNCHANGED deliveryVars
  BY <1>1 DEF deliveryVars
<1> QED
  BY <1>1, ServerStepIsKeysStep, SetEpochIsKeysStep, PhoneStepIsQuiet DEF DeliveryNext

\* A request is posted for the roster the phone has just listed.
LEMMA CallsShapeStep ==
  ASSUME CallsShape, [DeliveryNext]_deliveryVars
  PROVE  CallsShape'
<1> USE DEF CallsShape
<1>1. phone' = phone
  BY DeliveryStepIsKeysStep
<1>2. CASE UNCHANGED calls
  BY <1>1, <1>2
<1>3. CASE PostEpoch
  <2>1. {phone} \subseteq Users /\ Active \subseteq Users
    BY RosterFinite
  <2> QED
    BY <1>1, <1>3, <2>1 DEF PostEpoch
<1>4. ASSUME NEW c \in calls, SetEpoch(c) PROVE CallsShape'
  BY <1>1, <1>4 DEF SetEpoch
<1> QED
  BY <1>2, <1>3, <1>4
  DEF DeliveryNext, deliveryVars, ServerStep, Create, OthersRotate, Invite, Remove, Revoke, Delete,
      PhoneStep, RotStep, SchedStep, ProcStep, RotateIfRequired, InstallOwn, StillRequired, GiveUp,
      Ask, Settle, HandleEvent, FetchWrap, InstallFetched, CatchUp, Prompt, Crash, Wipe

\* Whatever the phone does, however late its requests arrive and whatever is lost,
\* the album on the server evolves as AlbumKeys says: its theorems hold here too.
THEOREM DeliveryImplementsKeys == DeliverySpec => Spec
<1>1. DeliveryInit => Init /\ CallsShape
  BY DEF DeliveryInit, CallsShape
<1>2. CallsShape /\ [DeliveryNext]_deliveryVars => CallsShape'
  BY CallsShapeStep
<1>3. CallsShape /\ [DeliveryNext]_deliveryVars => [Next]_keyVars
  BY DeliveryStepIsKeysStep DEF KeysStep, Next
<1> QED
  BY <1>1, <1>2, <1>3, PTL DEF DeliverySpec, Spec

-----------------------------------------------------------------------------
(***************************************************************************)
(* The inductive invariant.                                                *)
(***************************************************************************)

KeyOrNone == Key \cup {0}

\* An epoch whose key cannot change any more.
Settled(e) == album = "gone" \/ e <= cur

ServerTypes ==
    /\ phone \in Users /\ keyOf \in [Epoch -> KeyOrNone]
    /\ calls \subseteq Call /\ IsFiniteSet(calls) /\ Cardinality(calls) <= MaxCalls
    /\ faults \in 0 .. MaxFaults

ProcTypes ==
    /\ keys \in [Epoch -> KeyOrNone] /\ inbox \in Seq(Event)
    /\ proc \in [at : {"idle", "fetch", "install"}, todo : SUBSET Epoch,
                 below : -1 .. MaxEpoch + 1, key : KeyOrNone, for : {"none", "ws", "sync", "sched"}]
    /\ proc.at # "idle" => proc.todo # {}
    /\ sync \in {"idle", "handle"} /\ gone \in BOOLEAN /\ refused \in BOOLEAN

RotTypes ==
    /\ rot \in [at : {"free", "post", "posted", "won", "recheck"},
                who : {"none", "create", "kick", "sched"}, call : Call \cup {NoCall}]
    /\ kick \in {"none", "sent", "revoked"}
    /\ sched \in [at : {"idle", "ask", "want", "held", "settle", "reconcile"},
                  tries : 0 .. MaxTries - 1, again : BOOLEAN, owed : BOOLEAN]

DTypes == ServerTypes /\ ProcTypes /\ RotTypes

\* Whether somebody waits for an event of the queue, and for one at most.
Queued(q, w) == \E i \in 1 .. Len(q) : q[i].for = w
Once(q, w) == \A i, j \in 1 .. Len(q) : q[i].for = w /\ q[j].for = w => i = j

\* The mutex is held by whoever waits for the rotation.
RotWaits ==
    /\ rot.at = "free" <=> rot.who = "none"
    /\ rot.who = "sched" <=> sched.at = "held"

\* A catch-up or a reconcile waits for one event, queued or being handled.
ProcWaits ==
    /\ \A w \in {"sync", "sched"} : Once(inbox, w) /\ ~(Queued(inbox, w) /\ proc.for = w)
    /\ Queued(inbox, "sync") \/ proc.for = "sync" => sync = "handle"
    /\ Queued(inbox, "sched") \/ proc.for = "sched" => sched.at = "reconcile"

\* What the phone holds, is about to install and has just posted is what the
\* members were sent, for an epoch whose key cannot change any more.
Agreement ==
    /\ \A e \in Epoch : e <= cur => keyOf[e] \in Key
    /\ \A e \in Epoch : keys[e] # 0 => Settled(e) /\ keys[e] = keyOf[e]
    /\ rot.at = "won" =>
          Settled(rot.call.epoch) /\ rot.call.key \in Key /\ rot.call.key = keyOf[rot.call.epoch]
    /\ proc.at = "install" =>
          LET e == Min(proc.todo)
          IN  Settled(e) /\ proc.key \in Key /\ proc.key = keyOf[e]

\* Before the album exists the phone holds nothing and awaits nothing for it.
Untouched ==
    album = "none" =>
        rot.at = "free" /\ Present = {} /\ ~gone /\ proc.at = "idle" /\ inbox = << >>

\* The phone of the admin wipes nothing while the album lives, only the admin's
\* phone rotates, and by at most one epoch past its own store.
AdminSerial ==
    album = "live" =>
        /\ phone \in Admins => ~gone
        /\ rot.at = "won" => phone \in Admins
        /\ phone \in Admins /\ rot.at \in {"posted", "won"} => rot.call.epoch <= Latest + 1

\* What is left to install is either backfilled, or newer than the whole store, or
\* the admin's own rotation got there first.
InOrder ==
    album = "live" /\ proc.at # "idle" =>
        \A e \in proc.todo : \/ e < proc.below \/ e > Latest
                             \/ e \in Present /\ phone \in Admins

NoReplay == Untouched /\ AdminSerial /\ InOrder /\ ~refused

-----------------------------------------------------------------------------
(***************************************************************************)
(* A fresh key is a key.                                                   *)
(***************************************************************************)

\* A finite set has no more images than elements.
LEMMA ImageBound ==
  ASSUME NEW S, IsFiniteSet(S), NEW f
  PROVE  LET T == {f[x] : x \in S} IN IsFiniteSet(T) /\ Cardinality(T) <= Cardinality(S)
<1> DEFINE T == {f[x] : x \in S}
           g == [x \in S |-> f[x]]
<1>1. g \in Surjection(S, T)
  BY DEF Surjection
<1> HIDE DEF g, T
<1>2. IsFiniteSet(T) /\ Cardinality(T) <= Cardinality(S)
  BY <1>1, FS_Surjection
<1> QED
  BY <1>2 DEF T

\* Two finite sets together have at most as many elements as both.
LEMMA UnionBound ==
  ASSUME NEW S, NEW T, IsFiniteSet(S), IsFiniteSet(T)
  PROVE  /\ IsFiniteSet(S \cup T)
         /\ Cardinality(S \cup T) \in Nat
         /\ Cardinality(S \cup T) <= Cardinality(S) + Cardinality(T)
<1>1. Cardinality(S \cap T) \in Nat
  BY FS_Intersection, FS_CardinalityType
<1>2. IsFiniteSet(S \cup T)
       /\ Cardinality(S \cup T) = Cardinality(S) + Cardinality(T) - Cardinality(S \cap T)
  BY FS_Union
<1>3. Cardinality(S) \in Nat /\ Cardinality(T) \in Nat /\ Cardinality(S \cup T) \in Nat
  BY <1>2, FS_CardinalityType
<1> QED
  BY <1>1, <1>2, <1>3

\* There are more keys than could be in use, so a fresh one is a key.
LEMMA FreshIsKey ==
  ASSUME DTypes, Agreement
  PROVE  FreshKey \in Key
<1> USE MaxEpochNat, DeliveryBoundsNat
<1> DEFINE A == {keyOf[e] : e \in Epoch}
           C == {c.key : c \in calls}
           U == (A \cup C) \cup {rot.call.key}
           V == Key \ (A \cup {keys[e] : e \in Epoch} \cup C \cup {rot.call.key})
<1>1. IsFiniteSet(A) /\ Cardinality(A) <= MaxEpoch + 1
  <2>1. IsFiniteSet(Epoch) /\ Cardinality(Epoch) = MaxEpoch + 1
    BY FS_Interval DEF Epoch
  <2> QED
    BY <2>1, ImageBound
<1>2. IsFiniteSet(C) /\ Cardinality(C) <= MaxCalls
  <2> DEFINE key == [c \in calls |-> c.key]
  <2>1. IsFiniteSet(calls) /\ Cardinality(calls) <= MaxCalls /\ Cardinality(calls) \in Nat
    BY FS_CardinalityType DEF DTypes, ServerTypes
  <2>2. key \in Surjection(calls, C)
    BY DEF Surjection
  <2>3. IsFiniteSet(C) /\ Cardinality(C) <= Cardinality(calls)
    BY <2>1, <2>2, FS_Surjection
  <2>4. Cardinality(C) \in Nat
    BY <2>3, FS_CardinalityType
  <2> QED
    BY <2>1, <2>3, <2>4
<1>3. IsFiniteSet(U) /\ Cardinality(U) <= MaxEpoch + MaxCalls + 2
  <2> DEFINE k == {rot.call.key}
  <2>1. IsFiniteSet(k) /\ Cardinality(k) = 1
    BY FS_Singleton
  <2>2. Cardinality(A) \in Nat /\ Cardinality(C) \in Nat
    BY <1>1, <1>2, FS_CardinalityType
  <2> HIDE DEF A, C, k
  <2>3. IsFiniteSet(A \cup C) /\ Cardinality(A \cup C) \in Nat
         /\ Cardinality(A \cup C) <= Cardinality(A) + Cardinality(C)
    BY <1>1, <1>2, UnionBound
  <2>4. IsFiniteSet((A \cup C) \cup k) /\ Cardinality((A \cup C) \cup k) \in Nat
         /\ Cardinality((A \cup C) \cup k) <= Cardinality(A \cup C) + Cardinality(k)
    BY <2>1, <2>3, UnionBound
  <2>5. Cardinality((A \cup C) \cup k) <= MaxEpoch + MaxCalls + 2
    BY <1>1, <1>2, <2>1, <2>2, <2>3, <2>4
  <2> QED
    BY <2>4, <2>5 DEF k
<1>4. Cardinality(Key) = MaxEpoch + MaxCalls + 3
  BY FS_Interval DEF Key
<1>5. ~(Key \subseteq U)
  <2> HIDE DEF U
  <2>1. SUFFICES ASSUME Key \subseteq U PROVE FALSE
    OBVIOUS
  <2>2. Cardinality(Key) <= Cardinality(U) /\ Cardinality(U) \in Nat
    BY <1>3, <2>1, FS_Subset, FS_CardinalityType
  <2> QED
    BY <1>3, <1>4, <2>2
<1>6. \A e \in Epoch : keys[e] \in A \cup {0}
  BY DEF Agreement
<1>7. V # {} /\ V \subseteq Key
  BY <1>5, <1>6 DEF Key
<1>8. V \subseteq Nat
  BY <1>7 DEF Key
<1>9. FreshKey = Min(V)
  BY DEF FreshKey
<1> HIDE DEF V
<1> QED
  BY <1>7, <1>8, <1>9, MinNatural

-----------------------------------------------------------------------------
(***************************************************************************)
(* Types are kept.                                                         *)
(***************************************************************************)

\* The scheduler's functions return a record of the scheduler.
Sched == [at : {"idle", "ask", "want", "held", "settle", "reconcile"},
          tries : 0 .. MaxTries - 1, again : BOOLEAN, owed : BOOLEAN]

\* They keep the type.
LEMMA SchedFunctions ==
  ASSUME NEW s \in Sched, NEW w, NEW ok \in BOOLEAN
  PROVE  /\ Requested(s) \in Sched /\ Ended(s) \in Sched /\ Retried(s) \in Sched
         /\ Returned(s, w, ok) \in Sched /\ Heard(s, w, ok) \in Sched
<1> USE TriesPositive
<1>1. Requested(s) \in Sched
  BY DEF Requested, Sched
<1>0. s = [at |-> s.at, tries |-> s.tries, again |-> s.again, owed |-> s.owed]
       /\ s.owed \in BOOLEAN /\ s.again \in BOOLEAN /\ s.tries \in 0 .. MaxTries - 1
  BY DEF Sched
<1>2. Ended(s) \in Sched
  <2>1. 0 \in 0 .. MaxTries - 1
    OBVIOUS
  <2> QED
    BY <2>1 DEF Ended, Sched
<1>3. Retried(s) \in Sched
  <2>1. CASE s.tries + 1 < MaxTries
    <3>1. Retried(s) = [at |-> "want", tries |-> s.tries + 1, again |-> s.again, owed |-> s.owed]
      BY <1>0, <2>1 DEF Retried
    <3>2. s.tries + 1 \in 0 .. MaxTries - 1
      BY <1>0, <2>1
    <3> QED
      BY <1>0, <3>1, <3>2 DEF Sched
  <2> QED
    BY <1>2, <2>1 DEF Retried
<1>4. Returned(s, w, ok) \in Sched
  BY <1>3 DEF Returned, Sched
<1>5. Heard(s, w, ok) \in Sched
  <2> DEFINE t == CASE w = "sched" -> Ended(s) [] w = "sync" -> Requested(s) [] OTHER -> s
  <2>1. t \in Sched
    BY <1>1, <1>2
  <2>2. Requested(t) \in Sched
    BY <2>1 DEF Requested, Sched
  <2> HIDE DEF t
  <2>3. Heard(s, w, ok) = IF ok /\ t.owed THEN Requested(t) ELSE t
    BY DEF Heard, t
  <2> QED
    BY <2>1, <2>2, <2>3
<1> QED
  BY <1>1, <1>2, <1>3, <1>4, <1>5

\* A request leaves a run where it is, and a run that ends holds nothing.
LEMMA SchedMoves ==
  ASSUME NEW s \in Sched
  PROVE  /\ (Requested(s)).at \in {s.at, "ask"} /\ (s.at # "idle" => (Requested(s)).at = s.at)
         /\ (Ended(s)).at \in {"idle", "ask"} /\ (Retried(s)).at \in {"idle", "ask", "want"}
BY DEF Requested, Ended, Retried, Sched

\* What the scheduler answers to the end of a rotation or of an event.
LEMMA SchedWaits ==
  ASSUME NEW s \in Sched, NEW w, NEW ok \in BOOLEAN
  PROVE  /\ w # "sched" => Returned(s, w, ok) = s
         /\ w = "sched" => (Returned(s, w, ok)).at \in {"idle", "ask", "want", "settle"}
         /\ w = "sched" => (Heard(s, w, ok)).at \in {"idle", "ask"}
         /\ w # "sched" => (Heard(s, w, ok)).at \in {s.at, "ask"}
         /\ w # "sched" /\ s.at # "idle" => (Heard(s, w, ok)).at = s.at
<1>1. /\ (Requested(s)).at \in {s.at, "ask"} /\ (s.at # "idle" => (Requested(s)).at = s.at)
      /\ (Ended(s)).at \in {"idle", "ask"} /\ (Retried(s)).at \in {"idle", "ask", "want"}
  BY SchedMoves
<1>2. /\ w # "sched" => Returned(s, w, ok) = s
      /\ w = "sched" => (Returned(s, w, ok)).at \in {"idle", "ask", "want", "settle"}
  BY <1>1 DEF Returned, Sched
<1> DEFINE t == CASE w = "sched" -> Ended(s) [] w = "sync" -> Requested(s) [] OTHER -> s
<1>3. t \in Sched
  BY SchedFunctions
<1>4. /\ w = "sched" => t.at \in {"idle", "ask"}
      /\ w # "sched" => t.at \in {s.at, "ask"} /\ (s.at # "idle" => t.at = s.at)
  BY <1>1
<1>5. (Requested(t)).at \in {t.at, "ask"} /\ (t.at # "idle" => (Requested(t)).at = t.at)
  BY <1>3 DEF Requested, Sched
<1> HIDE DEF t
<1>6. Heard(s, w, ok) = IF ok /\ t.owed THEN Requested(t) ELSE t
  BY DEF Heard, t
<1>7. (Heard(s, w, ok)).at \in {t.at, "ask"} /\ (t.at # "idle" => (Heard(s, w, ok)).at = t.at)
  BY <1>5, <1>6
<1> QED
  BY <1>2, <1>4, <1>7

\* The server's types, calls among them.
LEMMA ServerTypesStep ==
  ASSUME DTypes, Agreement, TypeOK, [DeliveryNext]_deliveryVars
  PROVE  ServerTypes'
<1> USE MaxEpochNat, DeliveryBoundsNat
<1>0. FreshKey \in Key
  BY FreshIsKey
<1>1. faults' \in 0 .. MaxFaults
  <2>1. CASE PhoneStep
    <3>1. Fault \/ NoFault
      BY <2>1
      DEF PhoneStep, RotStep, SchedStep, ProcStep, RotateIfRequired, PostEpoch, InstallOwn,
          StillRequired, GiveUp, Ask, Settle, HandleEvent, FetchWrap, InstallFetched, CatchUp, Prompt,
          Crash, Wipe, NoFault, Required, NotRequired, Unanswered
    <3> QED
      BY <3>1 DEF Fault, NoFault, DTypes, ServerTypes
  <2>2. Fault \/ NoFault \/ PhoneStep
    BY DEF DeliveryNext, deliveryVars, ServerStep, Create, OthersRotate, Invite, Remove, Revoke,
           Delete, SetEpoch, NoFault
  <2> QED
    BY <2>1, <2>2 DEF Fault, NoFault, DTypes, ServerTypes
<1>2. phone' \in Users
  <2>1. CallsShape
    BY DEF DTypes, ServerTypes, CallsShape, Call
  <2> QED
    BY <2>1, DeliveryStepIsKeysStep DEF CallsShape
<1>3. keyOf' \in [Epoch -> KeyOrNone]
  <2>1. ASSUME NEW c \in calls, SetEpoch(c) PROVE keyOf' \in [Epoch -> KeyOrNone]
    <3>1. c.epoch \in Epoch /\ c.key \in KeyOrNone
      BY DEF DTypes, ServerTypes, Call, KeyOrNone
    <3> QED
      BY <2>1, <3>1 DEF SetEpoch, DTypes, ServerTypes
  <2>2. ASSUME NEW u \in Users, NEW R \in SUBSET Users, OthersRotate(u, R)
        PROVE  keyOf' \in [Epoch -> KeyOrNone]
    BY <1>0, <2>2 DEF OthersRotate, DTypes, ServerTypes, KeyOrNone
  <2>3. CASE UNCHANGED keyOf
    BY <2>3 DEF DTypes, ServerTypes
  <2> QED
    BY <2>1, <2>2, <2>3, PhoneStepIsQuiet
    DEF DeliveryNext, deliveryVars, ServerStep, Create, Invite, Remove, Revoke, Delete
<1>4. calls' \subseteq Call /\ IsFiniteSet(calls') /\ Cardinality(calls') <= MaxCalls
  <2>0. /\ calls \subseteq Call /\ IsFiniteSet(calls) /\ Cardinality(calls) <= MaxCalls
        /\ Cardinality(calls) \in Nat
    BY FS_CardinalityType DEF DTypes, ServerTypes
  <2>1. ASSUME NEW c \in calls, SetEpoch(c)
        PROVE  calls' \subseteq Call /\ IsFiniteSet(calls') /\ Cardinality(calls') <= MaxCalls
    <3>1. calls' = calls \ {c}
      BY <2>1 DEF SetEpoch
    <3> QED
      BY <2>0, <3>1, FS_RemoveElement
  <2>2. CASE PostEpoch
    <3>1. CASE UNCHANGED calls
      BY <2>0, <3>1
    <3>2. ASSUME NEW c \in Call, calls' = calls \cup {c}, Cardinality(calls) < MaxCalls
          PROVE  calls' \subseteq Call /\ IsFiniteSet(calls') /\ Cardinality(calls') <= MaxCalls
      BY <2>0, <3>2, FS_AddElement
    <3>3. ASSUME NEW e \in Epoch, NEW R \in SUBSET Users
          PROVE  [epoch |-> e, key |-> FreshKey, to |-> R] \in Call
      BY <1>0 DEF Call
    <3>4. {phone} \subseteq Users /\ Active \subseteq Users
      BY RosterFinite DEF DTypes, ServerTypes
    <3>5. (\E c \in Call : calls' = calls \cup {c} /\ Cardinality(calls) < MaxCalls)
            \/ UNCHANGED calls
      BY <2>2, <3>3, <3>4 DEF PostEpoch
    <3> QED
      BY <3>1, <3>2, <3>5
  <2>3. CASE UNCHANGED calls
    BY <2>0, <2>3
  <2> QED
    BY <2>1, <2>2, <2>3
    DEF DeliveryNext, deliveryVars, ServerStep, Create, OthersRotate, Invite, Remove, Revoke, Delete,
        PhoneStep, RotStep, SchedStep, ProcStep, RotateIfRequired, InstallOwn, StillRequired, GiveUp,
        Ask, Settle, HandleEvent, FetchWrap, InstallFetched, CatchUp, Prompt, Crash, Wipe
<1> QED
  BY <1>1, <1>2, <1>3, <1>4 DEF ServerTypes

\* The processor goes on with the epochs that are left, or rests.
ProcOK(p) ==
    /\ p \in [at : {"idle", "fetch", "install"}, todo : SUBSET Epoch,
              below : -1 .. MaxEpoch + 1, key : KeyOrNone, for : {"none", "ws", "sync", "sched"}]
    /\ p.at # "idle" => p.todo # {}

\* A processor at rest is well typed.
LEMMA RestingOK == ProcOK(Resting)
<1>1. 0 \in -1 .. MaxEpoch + 1
  BY MaxEpochNat
<1> QED
  BY <1>1 DEF ProcOK, Resting, KeyOrNone

\* So is one that goes on with what is left to install.
LEMMA InstallTypes ==
  ASSUME sync \in {"idle", "handle"}, NEW todo \in SUBSET Epoch, NEW below \in -1 .. MaxEpoch + 1,
         NEW for \in {"none", "ws", "sync", "sched"}, Install(todo, below, for)
  PROVE  ProcOK(proc') /\ sync' \in {"idle", "handle"}
<1>1. CASE todo = {}
  BY <1>1, RestingOK DEF Install, ProcessorEnds
<1>2. CASE todo # {}
  <2>1. 0 \in KeyOrNone
    BY DEF KeyOrNone
  <2>2. proc' = [at |-> "fetch", todo |-> todo, below |-> below, key |-> 0, for |-> for] /\ sync' = sync
    BY <1>2 DEF Install
  <2> QED
    BY <1>2, <2>1, <2>2 DEF ProcOK
<1> QED
  BY <1>1, <1>2

\* The types of the key store, the queue and the processor are kept.
LEMMA ProcTypesStep ==
  ASSUME DTypes, Agreement, TypeOK, [DeliveryNext]_deliveryVars
  PROVE  ProcTypes'
<1> USE MaxEpochNat, DeliveryBoundsNat
<1>0. /\ inbox \in Seq(Event) /\ ProcOK(proc) /\ sync \in {"idle", "handle"}
      /\ keys \in [Epoch -> KeyOrNone] /\ cur \in Epoch \cup {-1}
      /\ gone \in BOOLEAN /\ refused \in BOOLEAN
  BY DEF DTypes, ProcTypes, ProcOK, TypeOK
<1>1. Latest \in -1 .. MaxEpoch
  BY LatestIsGreatest DEF Present, Epoch
<1>2. inbox' \in Seq(Event)
  <2>1. ASSUME NEW ev \in Event, inbox' = Append(inbox, ev) PROVE inbox' \in Seq(Event)
    BY <1>0, <2>1
  <2>2. CASE inbox' = Tail(inbox) /\ inbox # << >>
    BY <1>0, <2>2
  <2>3. CASE inbox' = inbox \/ inbox' = << >>
    <3>1. << >> \in Seq(Event)
      OBVIOUS
    <3> QED
      BY <1>0, <2>3, <3>1
  <2>4. ASSUME NEW e \in Epoch, NEW j \in BOOLEAN, Announced(e, j) PROVE inbox' \in Seq(Event)
    <3>1. [epoch |-> e, joined |-> j, for |-> "ws"] \in Event
      BY DEF Event
    <3> QED
      BY <2>1, <2>3, <2>4, <3>1 DEF Announced
  <2>5. ASSUME NEW c \in calls, SetEpoch(c) PROVE inbox' \in Seq(Event)
    <3>1. c.epoch \in Epoch
      BY DEF DTypes, ServerTypes, Call
    <3> QED
      BY <2>3, <2>4, <2>5, <3>1 DEF SetEpoch
  <2>6. ASSUME NEW u \in Users, NEW R \in SUBSET Users, OthersRotate(u, R)
        PROVE  inbox' \in Seq(Event)
    <3>1. cur + 1 \in Epoch
      BY <2>6 DEF OthersRotate, InsertEpoch
    <3> QED
      BY <2>3, <2>4, <2>6, <3>1 DEF OthersRotate
  <2>7. ASSUME NEW s \in Users, NEW t \in Users, NEW last \in Epoch, Invite(s, t, last)
        PROVE  inbox' \in Seq(Event)
    BY <2>3, <2>4, <2>7 DEF Invite
  <2>8. CASE Settle
    <3>1. cur \in Epoch => [epoch |-> cur, joined |-> FALSE, for |-> "sched"] \in Event
      BY DEF Event
    <3>2. cur >= 0 => cur \in Epoch
      BY <1>0 DEF Epoch
    <3> QED
      BY <2>1, <2>3, <2>8, <3>1, <3>2 DEF Settle
  <2>9. CASE CatchUp
    <3>1. cur \in Epoch => [epoch |-> cur, joined |-> Latest < 0, for |-> "sync"] \in Event
      BY DEF Event
    <3>2. cur >= 0 => cur \in Epoch
      BY <1>0 DEF Epoch
    <3> QED
      BY <2>1, <2>3, <2>9, <3>1, <3>2 DEF CatchUp
  <2> QED
    BY <2>2, <2>3, <2>5, <2>6, <2>7, <2>8, <2>9
    DEF DeliveryNext, deliveryVars, phoneVars, ServerStep, Create, Remove, Revoke, Delete, PhoneStep, RotStep,
        SchedStep, ProcStep, RotateIfRequired, PostEpoch, InstallOwn, StillRequired, GiveUp, Ask,
        HandleEvent, FetchWrap, InstallFetched, Prompt, Crash, Wipe
<1>3. ProcOK(proc') /\ sync' \in {"idle", "handle"}
  <2>1. CASE HandleEvent
    <3>1. Head(inbox) \in Event
      BY <1>0, <2>1 DEF HandleEvent
    <3> DEFINE ev == Head(inbox)
    <3>2. ev.epoch \in Epoch /\ ev.for \in {"none", "ws", "sync", "sched"}
      BY <3>1 DEF Event
    <3>3. 0 .. ev.epoch \in SUBSET Epoch /\ Missing(ev.epoch) \in SUBSET Epoch
      BY <3>2 DEF Epoch, Missing
    <3>4. MaxEpoch + 1 \in -1 .. MaxEpoch + 1 /\ Latest \in -1 .. MaxEpoch + 1
      BY <1>1
    <3>5. Install(0 .. ev.epoch, MaxEpoch + 1, ev.for) \/ Install(Missing(ev.epoch), Latest, ev.for)
      BY <2>1 DEF HandleEvent
    <3> QED
      BY <1>0, <3>2, <3>3, <3>4, <3>5, InstallTypes
  <2>2. CASE FetchWrap
    <3>1. Min(proc.todo) \in Epoch
      BY <1>0, <2>2, MinNatural DEF FetchWrap, ProcOK, Epoch
    <3>2. keyOf[Min(proc.todo)] \in KeyOrNone
      BY <3>1 DEF DTypes, ServerTypes
    <3>3. CASE proc' = Resting /\ sync' \in {"idle", sync}
      BY <1>0, <3>3, RestingOK
    <3>4. CASE proc' = [proc EXCEPT !.at = "install", !.key = keyOf[Min(proc.todo)]] /\ sync' = sync
      BY <1>0, <2>2, <3>2, <3>4 DEF ProcOK, FetchWrap
    <3> QED
      BY <2>2, <3>3, <3>4 DEF FetchWrap, ProcessorEnds
  <2>3. CASE InstallFetched
    <3>1. CASE proc' = Resting /\ sync' \in {"idle", sync}
      BY <1>0, <3>1, RestingOK
    <3>2. CASE Install(proc.todo \ {Min(proc.todo)}, proc.below, proc.for)
      <4>1. /\ proc.todo \ {Min(proc.todo)} \in SUBSET Epoch /\ proc.below \in -1 .. MaxEpoch + 1
            /\ proc.for \in {"none", "ws", "sync", "sched"}
        BY <1>0 DEF ProcOK
      <4> QED
        BY <1>0, <3>2, <4>1, InstallTypes
    <3> QED
      BY <2>3, <3>1, <3>2 DEF InstallFetched, ProcessorEnds
  <2>4. CASE proc' \in {proc, Resting} /\ sync' \in {"idle", "handle", sync}
    BY <1>0, <2>4, RestingOK
  <2> QED
    BY <2>1, <2>2, <2>3, <2>4
    DEF DeliveryNext, deliveryVars, phoneVars, ServerStep, Create, OthersRotate, Invite, Remove, Revoke, Delete,
        SetEpoch, PhoneStep, RotStep, SchedStep, ProcStep, RotateIfRequired, PostEpoch, InstallOwn,
        StillRequired, GiveUp, Ask, Settle, CatchUp, Prompt, Crash, Wipe
<1>4. keys' \in [Epoch -> KeyOrNone]
  <2>1. CASE InstallOwn
    <3>1. rot.call.key \in KeyOrNone
      BY DEF DTypes, RotTypes, Call, NoCall, KeyOrNone
    <3> QED
      BY <1>0, <2>1, <3>1 DEF InstallOwn
  <2>2. CASE InstallFetched
    BY <1>0, <2>2 DEF InstallFetched, ProcOK
  <2>3. CASE Wipe
    BY <1>0, <2>3 DEF Wipe, KeyOrNone
  <2>4. CASE UNCHANGED keys
    BY <1>0, <2>4
  <2> QED
    BY <2>1, <2>2, <2>3, <2>4
    DEF DeliveryNext, deliveryVars, phoneVars, ServerStep, Create, OthersRotate, Invite, Remove, Revoke, Delete,
        SetEpoch, PhoneStep, RotStep, SchedStep, ProcStep, RotateIfRequired, PostEpoch,
        StillRequired, GiveUp, Ask, Settle, HandleEvent, FetchWrap, CatchUp, Prompt, Crash
<1>5. gone' \in BOOLEAN /\ refused' \in BOOLEAN
  BY <1>0
  DEF DeliveryNext, deliveryVars, phoneVars, ServerStep, Create, OthersRotate, Invite, Remove, Revoke, Delete,
      SetEpoch, PhoneStep, RotStep, SchedStep, ProcStep, RotateIfRequired, PostEpoch, InstallOwn,
      StillRequired, GiveUp, Ask, Settle, HandleEvent, FetchWrap, InstallFetched, CatchUp, Prompt,
      Crash, Wipe
<1> QED
  BY <1>2, <1>3, <1>4, <1>5 DEF ProcTypes, ProcOK

\* The types of the rotation and of the scheduler are kept.
LEMMA RotTypesStep ==
  ASSUME DTypes, Agreement, TypeOK, [DeliveryNext]_deliveryVars
  PROVE  RotTypes'
<1> DEFINE RotOK(r) == r \in [at : {"free", "post", "posted", "won", "recheck"},
                              who : {"none", "create", "kick", "sched"},
                              call : Call \cup {NoCall}]
<1>0. RotOK(rot) /\ sched \in Sched /\ kick \in {"none", "sent", "revoked"}
  BY DEF DTypes, RotTypes, Sched
<1>1. /\ RotOK(Free)
      /\ \A w \in {"none", "create", "kick", "sched"} : RotOK([Free EXCEPT !.at = "post", !.who = w])
  BY DEF Free
<1>2. \A w : \A ok \in BOOLEAN : Returned(sched, w, ok) \in Sched /\ Heard(sched, w, ok) \in Sched
  BY <1>0, SchedFunctions
<1>3. RotOK(rot')
  <2>1. CASE rot' \in {rot, Free}
    BY <1>0, <1>1, <2>1
  <2>2. ASSUME NEW a \in {"won", "recheck"}, rot' = [rot EXCEPT !.at = a]
        PROVE  RotOK(rot')
    BY <1>0, <2>2
  <2>3. ASSUME NEW w \in {"none", "create", "kick", "sched"}, rot' = [Free EXCEPT !.at = "post", !.who = w]
        PROVE  RotOK(rot')
    BY <1>1, <2>3
  <2>4. CASE PostEpoch
    <3>1. ASSUME NEW e \in Epoch, NEW R \in SUBSET Users
          PROVE  [epoch |-> e, key |-> FreshKey, to |-> R] \in Call
      BY FreshIsKey DEF Call
    <3>2. {phone} \subseteq Users /\ Active \subseteq Users
      BY RosterFinite DEF DTypes, ServerTypes
    <3>3. (\E c \in Call : rot' = [rot EXCEPT !.at = "posted", !.call = c]) \/ Threw
      BY <2>4, <3>1, <3>2 DEF PostEpoch
    <3>4. ASSUME NEW c \in Call, rot' = [rot EXCEPT !.at = "posted", !.call = c] PROVE RotOK(rot')
      BY <1>0, <3>4
    <3> QED
      BY <2>2, <3>3, <3>4 DEF Threw
  <2>5. ASSUME NEW c \in calls, SetEpoch(c) PROVE RotOK(rot')
    BY <2>1, <2>2, <2>5 DEF SetEpoch, Answered
  <2>6. ASSUME NEW w \in {"kick", "sched"}, RotateIfRequired(w) PROVE RotOK(rot')
    BY <2>1, <2>3, <2>6 DEF RotateIfRequired, Finish
  <2>7. CASE InstallOwn \/ StillRequired \/ GiveUp
    BY <2>1, <2>2, <2>7 DEF InstallOwn, StillRequired, GiveUp, Finish, Threw
  <2>8. ASSUME NEW u \in Users, Create(u) PROVE RotOK(rot')
    BY <2>1, <2>3, <2>8 DEF Create
  <2> QED
    BY <2>1, <2>4, <2>5, <2>6, <2>7, <2>8
    DEF DeliveryNext, deliveryVars, phoneVars, ServerStep, OthersRotate, Invite, Remove, Revoke, Delete,
        PhoneStep, RotStep, SchedStep, ProcStep, Ask, Settle, HandleEvent, FetchWrap, InstallFetched,
        CatchUp, Prompt, Crash, Wipe
<1>4. kick' \in {"none", "sent", "revoked"}
  BY <1>0
  DEF DeliveryNext, deliveryVars, phoneVars, ServerStep, Create, OthersRotate, Invite, Remove, Revoke, Delete,
      SetEpoch, PhoneStep, RotStep, SchedStep, ProcStep, RotateIfRequired, PostEpoch, InstallOwn,
      StillRequired, GiveUp, Ask, Settle, HandleEvent, FetchWrap, InstallFetched, CatchUp, Prompt,
      Crash, Wipe
<1>5. sched' \in Sched
  <2> USE TriesPositive
  <2>0. 0 \in 0 .. MaxTries - 1
    OBVIOUS
  <2>1. CASE sched' = sched
    BY <1>0, <2>1
  <2>2. CASE Crash
    BY <2>0, <2>2 DEF Crash, Unasked, Sched
  <2>3. ASSUME NEW w, NEW ok \in BOOLEAN, sched' = Returned(sched, w, ok) PROVE sched' \in Sched
    BY <1>2, <2>3
  <2>4. ASSUME NEW w \in {"kick", "sched"}, RotateIfRequired(w) PROVE sched' \in Sched
    BY <1>0, <2>1, <2>3, <2>4 DEF RotateIfRequired, Finish, Sched
  <2>5. CASE PostEpoch \/ InstallOwn \/ GiveUp \/ StillRequired
    BY <1>0, <2>1, <2>3, <2>5, SchedFunctions
    DEF PostEpoch, InstallOwn, GiveUp, StillRequired, Finish, Threw
  <2>6. CASE Ask
    <3>1. [sched EXCEPT !.at = "want", !.tries = 0, !.owed = TRUE] \in Sched
      BY <1>0, <2>0 DEF Sched
    <3>2. [sched EXCEPT !.owed = TRUE] \in Sched /\ [sched EXCEPT !.at = "settle"] \in Sched
      BY <1>0 DEF Sched
    <3> QED
      BY <1>0, <2>6, <3>1, <3>2, SchedFunctions DEF Ask
  <2>7. CASE Settle
    <3>1. [sched EXCEPT !.at = "reconcile", !.owed = FALSE] \in Sched
      BY <1>0 DEF Sched
    <3>2. [sched EXCEPT !.owed = FALSE] \in Sched
      BY <1>0 DEF Sched
    <3> QED
      BY <2>7, <3>1, <3>2, SchedFunctions DEF Settle
  <2>8. CASE HandleEvent \/ FetchWrap \/ InstallFetched
    <3>1. ASSUME NEW w, NEW ok \in BOOLEAN, ProcessorEnds(w, ok) PROVE sched' \in Sched
      BY <1>2, <3>1 DEF ProcessorEnds
    <3>2. ASSUME NEW T, NEW b, NEW w, Install(T, b, w) PROVE sched' \in Sched
      BY <1>0, <3>1, <3>2 DEF Install
    <3> QED
      BY <1>0, <2>8, <3>1, <3>2 DEF HandleEvent, FetchWrap, InstallFetched
  <2>9. CASE CatchUp \/ Prompt
    BY <1>0, <2>1, <2>9, SchedFunctions DEF CatchUp, Prompt
  <2>10. CASE Wipe
    BY <1>0, <2>10 DEF Wipe, Sched
  <2> QED
    BY <2>1, <2>2, <2>4, <2>5, <2>6, <2>7, <2>8, <2>9, <2>10
    DEF DeliveryNext, deliveryVars, phoneVars, ServerStep, Create, OthersRotate, Invite, Remove, Revoke, Delete,
        SetEpoch, PhoneStep, RotStep, SchedStep, ProcStep
<1> QED
  BY <1>3, <1>4, <1>5 DEF RotTypes, Sched

-----------------------------------------------------------------------------
(***************************************************************************)
(* The key store agrees with the album.                                    *)
(***************************************************************************)

\* What AlbumKeys keeps: an album that is gone stays gone, its epochs only grow
\* while it lives, and its admin stays its admin.
LEMMA KeysStepKeeps ==
  ASSUME IInv, KeysStep \/ UNCHANGED keyVars
  PROVE  /\ \A e \in Epoch : Settled(e) => Settled(e)'
         /\ album # "none" => album' # "none"
         /\ album = "gone" => album' = "gone"
         /\ album = "live" /\ album' = "live" => Admins' = Admins
<1>0. TypeOK /\ NoRowsInv
  BY DEF IInv
<1>2. ASSUME NEW u \in Users, CreateWithAdmin(u)
      PROVE  album = "none" /\ album' = "live" /\ \A e \in Epoch : ~Settled(e)
  BY <1>0, <1>2, MaxEpochNat DEF CreateWithAdmin, NoRowsInv, Settled, Epoch
<1>3. ASSUME NEW u \in Users, NEW e \in Epoch, NEW R \in SUBSET Users, InsertEpoch(u, e, R)
      PROVE  cur' = cur + 1 /\ album' = album /\ Admins' = Admins
  BY <1>3 DEF InsertEpoch, Member, Active, Admins
<1>4. ASSUME NEW p \in Users, NEW t \in Users, NEW last \in Epoch, DeliverMember(p, t, last)
      PROVE  cur' = cur /\ album' = album /\ Admins' = Admins
  <2>1. role' = [role EXCEPT ![t] = "member"] /\ revoked' = revoked \ {t} /\ t \notin Active
        /\ cur' = cur /\ album' = album
    BY <1>4 DEF DeliverMember
  <2> QED
    BY <1>0, <2>1 DEF TypeOK, Member, Active, Admins
<1>5. ASSUME NEW c \in Users, NEW t \in Users, RemoveMember(c, t)
      PROVE  cur' = cur /\ album' = album /\ Admins' = Admins
  BY <1>5 DEF RemoveMember, Member, Active, Admins
<1>6. ASSUME NEW r \in revoking, RevokeMemberTx(r), album = "live"
      PROVE  Admins' = Admins
  <2>1. CASE revoked' = revoked
    BY <1>6, <2>1 DEF RevokeMemberTx, Member, Active, Admins
  <2>2. CASE r.target \in Active /\ NotLastAdmin(r.target) /\ revoked' = revoked \cup {r.target}
    <3>1. PICK a \in Users : Admins = {a}
      BY <1>6 DEF IInv, AdminInv
    <3>2. r.target \notin Admins
      BY <2>2, <3>1, SoleAdminGuarded
    <3> QED
      BY <1>6, <2>2, <3>2 DEF RevokeMemberTx, Member, Active, Admins
  <2> QED
    BY <1>6, <2>1, <2>2 DEF RevokeMemberTx
<1>7. ASSUME NEW c \in Users, DeleteAlbum(c) PROVE album' = "gone"
  BY <1>7 DEF DeleteAlbum, RemoveAlbum
<1>8. ASSUME NEW r \in revoking, RevokeMemberTx(r) PROVE cur' = cur /\ album' = album
  BY <1>8 DEF RevokeMemberTx
<1> DEFINE Kept == /\ \A e \in Epoch : Settled(e) => Settled(e)'
                   /\ album # "none" => album' # "none"
                   /\ album = "gone" => album' = "gone"
                   /\ album = "live" /\ album' = "live" => Admins' = Admins
<1>9. ASSUME cur' \in {cur, cur + 1}, album' = album, album = "live" => Admins' = Admins PROVE Kept
  BY <1>0, <1>9, MaxEpochNat DEF TypeOK, Epoch, Settled
<1>10. ASSUME album = "none", album' = "live", \A e \in Epoch : ~Settled(e) PROVE Kept
  BY <1>10
<1>11. ASSUME album' = "gone" PROVE Kept
  BY <1>11 DEF Settled
<1> HIDE DEF Kept
<1>12. ASSUME KeysStep PROVE Kept
  BY <1>2, <1>3, <1>4, <1>5, <1>6, <1>7, <1>8, <1>9, <1>10, <1>11, <1>12 DEF KeysStep
<1>13. ASSUME UNCHANGED keyVars PROVE Kept
  <2>1. cur' = cur /\ album' = album /\ Admins' = Admins
    BY <1>13 DEF keyVars, Admins, Active, Member
  <2> QED
    BY <1>9, <2>1
<1> QED
  BY <1>12, <1>13 DEF Kept

\* Well-typed requests can be read by the server.
LEMMA ShapeOfTypes == DTypes => CallsShape
BY DEF DTypes, ServerTypes, CallsShape, Call

\* The key of an epoch is written once, with the epoch.
LEMMA KeyOfStep ==
  ASSUME IInv, DTypes, Agreement, [DeliveryNext]_deliveryVars
  PROVE  \/ /\ album = "live" /\ cur + 1 \in Epoch /\ cur' = cur + 1
            /\ \E k \in Key : keyOf' = [keyOf EXCEPT ![cur + 1] = k]
         \/ keyOf' = keyOf /\ cur' \in {cur, -1}
<1> DEFINE Written == /\ album = "live" /\ cur + 1 \in Epoch /\ cur' = cur + 1
                      /\ \E k \in Key : keyOf' = [keyOf EXCEPT ![cur + 1] = k]
           Same == keyOf' = keyOf /\ cur' \in {cur, -1}
<1>0. TypeOK /\ NoRowsInv /\ FreshKey \in Key
  BY FreshIsKey DEF IInv
<1>1. CASE UNCHANGED deliveryVars
  BY <1>1 DEF deliveryVars, keyVars
<1>2. CASE PhoneStep
  BY <1>2, PhoneStepIsQuiet DEF keyVars
<1>3. ASSUME NEW c \in calls, SetEpoch(c) PROVE Written \/ Same
  <2>1. c.key \in Key
    BY DEF DTypes, ServerTypes, Call
  <2>2. CASE InsertEpoch(phone, c.epoch, c.to) /\ keyOf' = [keyOf EXCEPT ![c.epoch] = c.key]
    BY <2>1, <2>2 DEF InsertEpoch
  <2>3. CASE UNCHANGED <<keyVars, keyOf>>
    BY <2>3 DEF keyVars
  <2> QED
    BY <1>3, <2>2, <2>3 DEF SetEpoch
<1>4. ASSUME NEW u \in Users, NEW R \in SUBSET Users, OthersRotate(u, R) PROVE Written
  BY <1>0, <1>4 DEF OthersRotate, InsertEpoch
<1>5. ASSUME NEW u \in Users, Create(u) PROVE Same
  BY <1>5 DEF Create, CreateWithAdmin
<1>6. ASSUME NEW p \in Users, NEW t \in Users, NEW last \in Epoch, Invite(p, t, last) PROVE Same
  BY <1>6 DEF Invite, DeliverMember
<1>7. ASSUME NEW c \in Users, NEW t \in Users, Remove(c, t) PROVE Same
  BY <1>7 DEF Remove, RemoveMember
<1>8. ASSUME NEW r \in revoking, Revoke(r) PROVE Same
  BY <1>8 DEF Revoke, RevokeMemberTx
<1>9. ASSUME NEW u \in Users, Delete(u) PROVE Same
  BY <1>9 DEF Delete, DeleteAlbum, RemoveAlbum
<1> QED
  BY <1>1, <1>2, <1>3, <1>4, <1>5, <1>6, <1>7, <1>8, <1>9 DEF DeliveryNext, ServerStep

\* Keys come into the store through the two installs, and leave it by a wipe.
LEMMA KeysChange ==
  ASSUME DTypes, [DeliveryNext]_deliveryVars
  PROVE  InstallOwn \/ InstallFetched \/ Wipe \/ UNCHANGED keys
BY DEF DeliveryNext, deliveryVars, phoneVars, ServerStep, Create, OthersRotate, Invite, Remove, Revoke, Delete,
       SetEpoch, PhoneStep, RotStep, SchedStep, ProcStep, RotateIfRequired, PostEpoch, StillRequired,
       GiveUp, Ask, Settle, HandleEvent, FetchWrap, CatchUp, Prompt, Crash

\* An answer makes a rotation win, and only for the request it posted.
LEMMA RotWon ==
  ASSUME RotTypes, [DeliveryNext]_deliveryVars, rot'.at = "won"
  PROVE  \/ rot' = rot
         \/ \E c \in calls : /\ SetEpoch(c) /\ InsertEpoch(phone, c.epoch, c.to)
                             /\ keyOf' = [keyOf EXCEPT ![c.epoch] = c.key]
                             /\ rot.at = "posted" /\ rot'.call = c /\ rot.call = c
<1>0. rot = [at |-> rot.at, who |-> rot.who, call |-> rot.call]
  BY DEF RotTypes
<1>1. ASSUME NEW c \in calls, SetEpoch(c), rot' # rot
      PROVE  /\ InsertEpoch(phone, c.epoch, c.to) /\ keyOf' = [keyOf EXCEPT ![c.epoch] = c.key]
             /\ rot.at = "posted" /\ rot'.call = c /\ rot.call = c
  <2>1. CASE Answered(c, "recheck")
    BY <1>0, <1>1, <2>1 DEF Answered
  <2>2. CASE InsertEpoch(phone, c.epoch, c.to) /\ keyOf' = [keyOf EXCEPT ![c.epoch] = c.key]
             /\ Answered(c, "won")
    BY <1>0, <1>1, <2>2 DEF Answered
  <2> QED
    BY <1>1, <2>1, <2>2 DEF SetEpoch
<1>2. Free.at # "won" /\ \A w : [Free EXCEPT !.at = "post", !.who = w].at # "won"
  BY DEF Free
<1>3. ASSUME PhoneStep PROVE rot' = rot
  <2>1. ~RotateIfRequired("kick") /\ ~RotateIfRequired("sched") /\ ~InstallOwn /\ ~StillRequired /\ ~GiveUp
    BY <1>0, <1>2 DEF RotateIfRequired, InstallOwn, StillRequired, GiveUp, Finish, Threw
  <2>2. ~PostEpoch
    BY <1>0 DEF PostEpoch, Threw
  <2>3. ~Crash
    BY <1>2 DEF Crash
  <2> QED
    BY <1>3, <2>1, <2>2, <2>3
    DEF PhoneStep, RotStep, SchedStep, ProcStep, Ask, Settle, HandleEvent, FetchWrap, InstallFetched,
        CatchUp, Prompt, Wipe
<1>4. ASSUME NEW u \in Users, Create(u) PROVE rot' = rot
  BY <1>2, <1>4 DEF Create
<1> QED
  BY <1>1, <1>3, <1>4
  DEF DeliveryNext, deliveryVars, phoneVars, ServerStep, OthersRotate, Invite, Remove, Revoke, Delete

\* An epoch is about to be installed once its wrap is fetched.
LEMMA ProcInstalls ==
  ASSUME ProcTypes, [DeliveryNext]_deliveryVars, proc'.at = "install"
  PROVE  \/ proc' = proc
         \/ /\ FetchWrap /\ Admitted /\ phone \in wraps[Min(proc.todo)]
            /\ proc' = [proc EXCEPT !.at = "install", !.key = keyOf[Min(proc.todo)]]
<1>1. ASSUME NEW T, NEW b, NEW w, Install(T, b, w) PROVE FALSE
  <2>1. CASE proc' = Resting
    BY <2>1 DEF Resting
  <2>2. CASE proc' = [at |-> "fetch", todo |-> T, below |-> b, key |-> 0, for |-> w]
    BY <2>2
  <2> QED
    BY <1>1, <2>1, <2>2 DEF Install, ProcessorEnds
<1>2. Resting.at # "install"
  BY DEF Resting
<1>3. ~HandleEvent /\ ~InstallFetched /\ ~Crash
  BY <1>1, <1>2 DEF HandleEvent, InstallFetched, ProcessorEnds, Crash
<1> QED
  BY <1>2, <1>3
  DEF DeliveryNext, deliveryVars, phoneVars, ServerStep, Create, OthersRotate, Invite, Remove, Revoke, Delete,
      SetEpoch, PhoneStep, RotStep, SchedStep, ProcStep, RotateIfRequired, PostEpoch, InstallOwn,
      StillRequired, GiveUp, Ask, Settle, FetchWrap, ProcessorEnds, CatchUp, Prompt, Wipe

\* A wrap exists for an epoch of the album only.
LEMMA FetchedSettled ==
  ASSUME TypeOK, ProcTypes, Agreement, Admitted, proc.at # "idle", phone \in wraps[Min(proc.todo)]
  PROVE  Min(proc.todo) \in Epoch /\ Settled(Min(proc.todo)) /\ keyOf[Min(proc.todo)] \in Key
<1>1. Min(proc.todo) \in Epoch
  BY MinNatural, MaxEpochNat DEF ProcTypes, Epoch
<1>2. Min(proc.todo) <= cur
  BY <1>1, MaxEpochNat DEF TypeOK, Epoch
<1> QED
  BY <1>1, <1>2 DEF Settled, Agreement

\* Agreement is kept: what is copied is settled, and what is settled stays.
LEMMA AgreementStep ==
  ASSUME IInv, DTypes, Agreement, [DeliveryNext]_deliveryVars
  PROVE  Agreement'
<1> USE MaxEpochNat
<1>0. TypeOK /\ NoRowsInv /\ cur \in Epoch \cup {-1}
  BY DEF IInv, TypeOK
<1>1. \A e \in Epoch : Settled(e) => album' = "gone" \/ e <= cur'
  BY ShapeOfTypes, DeliveryStepIsKeysStep, KeysStepKeeps DEF Settled
<1>2. \A e \in Epoch : Settled(e) => keyOf'[e] = keyOf[e]
  <2>1. CASE keyOf' = keyOf
    BY <2>1
  <2>2. CASE album = "live" /\ \E k \in Key : keyOf' = [keyOf EXCEPT ![cur + 1] = k]
    <3>1. \A e \in Epoch : Settled(e) => e # cur + 1
      BY <1>0, <2>2 DEF Settled, Epoch
    <3> QED
      BY <2>2, <3>1 DEF DTypes, ServerTypes
  <2> QED
    BY <2>1, <2>2, KeyOfStep
<1>3. \A e \in Epoch : e <= cur' => keyOf'[e] \in Key
  <2>1. CASE keyOf' = keyOf /\ cur' \in {cur, -1}
    BY <1>0, <2>1 DEF Agreement, Epoch
  <2>2. CASE cur' = cur + 1 /\ \E k \in Key : keyOf' = [keyOf EXCEPT ![cur + 1] = k]
    <3>1. \A e \in Epoch : e <= cur + 1 => e = cur + 1 \/ e <= cur
      BY <1>0 DEF Epoch
    <3> QED
      BY <2>2, <3>1 DEF Agreement, DTypes, ServerTypes
  <2> QED
    BY <2>1, <2>2, KeyOfStep
<1>4. ASSUME NEW e \in Epoch, keys'[e] # 0
      PROVE  (album' = "gone" \/ e <= cur') /\ keys'[e] = keyOf'[e]
  <2>1. CASE keys'[e] = keys[e]
    BY <1>1, <1>2, <1>4, <2>1 DEF Agreement
  <2>2. CASE InstallOwn /\ keys'[e] # keys[e]
    <3>1. rot.at = "won" /\ keys' = [keys EXCEPT ![rot.call.epoch] = rot.call.key]
      BY <2>2 DEF InstallOwn
    <3>2. e = rot.call.epoch /\ keys'[e] = rot.call.key
      BY <2>2, <3>1 DEF DTypes, ProcTypes
    <3> QED
      BY <1>1, <1>2, <3>1, <3>2 DEF Agreement
  <2>3. CASE InstallFetched /\ keys'[e] # keys[e]
    <3>1. proc.at = "install" /\ keys' = [keys EXCEPT ![Min(proc.todo)] = proc.key]
      BY <2>3 DEF InstallFetched
    <3>2. e = Min(proc.todo) /\ keys'[e] = proc.key
      BY <2>3, <3>1 DEF DTypes, ProcTypes
    <3> QED
      BY <1>1, <1>2, <3>1, <3>2 DEF Agreement
  <2>4. CASE Wipe
    <3>1. keys'[e] \in {0, keys[e]}
      BY <2>4 DEF Wipe
    <3> QED
      BY <1>4, <2>1, <3>1
  <2> QED
    BY <2>1, <2>2, <2>3, <2>4, KeysChange
<1>5. ASSUME rot'.at = "won"
      PROVE  /\ (album' = "gone" \/ rot'.call.epoch <= cur') /\ rot'.call.key \in Key
             /\ rot'.call.key = keyOf'[rot'.call.epoch]
  <2>1. CASE rot' = rot
    <3>1. rot.call.epoch \in Epoch
      BY DEF DTypes, RotTypes, Call, NoCall, Epoch
    <3> QED
      BY <1>1, <1>2, <1>5, <2>1, <3>1 DEF Agreement
  <2>2. ASSUME NEW c \in calls, InsertEpoch(phone, c.epoch, c.to), rot'.call = c,
               keyOf' = [keyOf EXCEPT ![c.epoch] = c.key]
        PROVE  /\ (album' = "gone" \/ rot'.call.epoch <= cur') /\ rot'.call.key \in Key
               /\ rot'.call.key = keyOf'[rot'.call.epoch]
    <3>1. c.epoch \in Epoch /\ c.key \in Key
      BY DEF DTypes, ServerTypes, Call
    <3>2. cur' = c.epoch
      BY <2>2 DEF InsertEpoch
    <3> QED
      BY <2>2, <3>1, <3>2 DEF DTypes, ServerTypes, Epoch
  <2> QED
    BY <1>5, <2>1, <2>2, RotWon DEF DTypes
<1>6. ASSUME proc'.at = "install"
      PROVE  /\ (album' = "gone" \/ Min(proc'.todo) <= cur') /\ proc'.key \in Key
             /\ proc'.key = keyOf'[Min(proc'.todo)]
  <2>1. CASE proc' = proc
    <3>1. Min(proc.todo) \in Epoch
      BY <1>6, <2>1, MinNatural DEF DTypes, ProcTypes, Epoch
    <3> QED
      BY <1>1, <1>2, <1>6, <2>1, <3>1 DEF Agreement
  <2>2. CASE /\ FetchWrap /\ Admitted /\ phone \in wraps[Min(proc.todo)]
             /\ proc' = [proc EXCEPT !.at = "install", !.key = keyOf[Min(proc.todo)]]
    <3>1. proc'.todo = proc.todo /\ proc'.key = keyOf[Min(proc.todo)]
      BY <2>2 DEF DTypes, ProcTypes
    <3>2. proc.at # "idle"
      BY <2>2 DEF FetchWrap
    <3>3. Min(proc.todo) \in Epoch /\ Settled(Min(proc.todo)) /\ keyOf[Min(proc.todo)] \in Key
      BY <1>0, <2>2, <3>2, FetchedSettled DEF DTypes
    <3> QED
      BY <1>1, <1>2, <3>1, <3>3
  <2> QED
    BY <1>6, <2>1, <2>2, ProcInstalls DEF DTypes
<1> QED
  BY <1>3, <1>4, <1>5, <1>6 DEF Agreement, Settled

-----------------------------------------------------------------------------
(***************************************************************************)
(* No replay is ever seen.                                                 *)
(***************************************************************************)

\* Without the album none of the phone's loops gets anywhere.
LEMMA UntouchedStep ==
  ASSUME IInv, DTypes, Untouched, [DeliveryNext]_deliveryVars
  PROVE  Untouched'
<1> SUFFICES ASSUME album' = "none"
             PROVE  rot'.at = "free" /\ Present' = {} /\ ~gone' /\ proc'.at = "idle" /\ inbox' = << >>
  BY DEF Untouched
<1>1. album = "none"
  BY ShapeOfTypes, DeliveryStepIsKeysStep, KeysStepKeeps DEF IInv, TypeOK
<1>2. rot.at = "free" /\ Present = {} /\ ~gone /\ proc.at = "idle" /\ inbox = << >> /\ ~Admitted
  BY <1>1 DEF Untouched, Admitted
<1> gone = FALSE
  BY <1>2 DEF DTypes, ProcTypes
<1>3. CASE UNCHANGED <<rot, keys, gone, proc, inbox>>
  <2>1. Present' = Present
    BY <1>3 DEF Present
  <2> QED
    BY <1>2, <1>3, <2>1
<1>4. CASE UNCHANGED keys /\ rot' \in {rot, Free} /\ proc' \in {proc, Resting} /\ ~gone' /\ inbox' = << >>
  <2>1. Present' = Present
    BY <1>4 DEF Present
  <2> QED
    BY <1>2, <1>4, <2>1 DEF Free, Resting
<1>5. ASSUME NEW c \in calls, SetEpoch(c) PROVE UNCHANGED <<rot, keys, gone, proc, inbox>>
  BY <1>1, <1>2, <1>5 DEF SetEpoch, InsertEpoch, Answered
<1>6. ASSUME ServerStep PROVE UNCHANGED <<rot, keys, gone, proc, inbox>>
  <2>1. ASSUME NEW r \in revoking, Revoke(r) PROVE UNCHANGED <<rot, keys, gone, proc, inbox>>
    <3>1. revoked' = revoked
      BY <1>1, <2>1 DEF Revoke, RevokeMemberTx
    <3> QED
      BY <1>2, <2>1, <3>1 DEF Revoke
  <2> QED
    BY <1>1, <1>6, <2>1
    DEF ServerStep, Create, CreateWithAdmin, OthersRotate, InsertEpoch, Invite, DeliverMember, Remove,
        RemoveMember, Delete, DeleteAlbum
<1>7. ASSUME PhoneStep
      PROVE  UNCHANGED keys /\ rot' \in {rot, Free} /\ proc' \in {proc, Resting} /\ ~gone' /\ inbox' = << >>
  <2>1. /\ ~PostEpoch /\ ~InstallOwn /\ ~StillRequired /\ ~GiveUp
        /\ ~HandleEvent /\ ~FetchWrap /\ ~InstallFetched /\ ~Wipe
    BY <1>2 DEF PostEpoch, InstallOwn, StillRequired, GiveUp, HandleEvent, FetchWrap, InstallFetched, Wipe
  <2>2. CASE RotateIfRequired("kick") \/ RotateIfRequired("sched")
    BY <1>2, <2>2 DEF RotateIfRequired, Required, Finish
  <2>3. CASE Ask \/ Settle \/ CatchUp \/ Prompt \/ Crash
    BY <1>2, <2>3 DEF Ask, Settle, CatchUp, Prompt, Crash
  <2> QED
    BY <1>7, <2>1, <2>2, <2>3 DEF PhoneStep, RotStep, SchedStep, ProcStep
<1> QED
  BY <1>3, <1>4, <1>5, <1>6, <1>7 DEF DeliveryNext, deliveryVars, phoneVars

\* A phone comes to know the album as lost when its member is revoked or the
\* album goes.
LEMMA GoneStep ==
  ASSUME [DeliveryNext]_deliveryVars, gone'
  PROVE  gone \/ phone' \in revoked' \/ album' = "gone"
BY DEF DeliveryNext, deliveryVars, phoneVars, ServerStep, Create, OthersRotate, Invite, Remove, Revoke, Delete,
       DeleteAlbum, RemoveAlbum, SetEpoch, PhoneStep, RotStep, SchedStep, ProcStep, RotateIfRequired,
       PostEpoch, InstallOwn, StillRequired, GiveUp, Ask, Settle, HandleEvent, FetchWrap, InstallFetched,
       CatchUp, Prompt, Crash, Wipe

\* While nothing is wiped the latest epoch of the store only grows.
LEMMA LatestGrows ==
  ASSUME DTypes, Agreement, [DeliveryNext]_deliveryVars, ~gone
  PROVE  Present \subseteq Present' /\ Latest <= Latest'
<1>0. keys \in [Epoch -> Nat] /\ Key \subseteq Nat \ {0}
  BY DEF DTypes, ProcTypes, KeyOrNone, Key
<1>1. CASE UNCHANGED keys
  BY <1>1, LatestIsGreatest DEF Present, Latest
<1>2. ASSUME NEW e \in Epoch, NEW k \in Key, keys' = [keys EXCEPT ![e] = k]
      PROVE  Present \subseteq Present' /\ Latest <= Latest'
  BY <1>0, <1>2, LatestAfterPut
<1>3. CASE InstallOwn
  <2>1. rot.call.epoch \in Epoch /\ rot.call.key \in Key
    BY <1>3, MaxEpochNat DEF InstallOwn, Agreement, DTypes, RotTypes, Call, NoCall, Epoch
  <2> QED
    BY <1>1, <1>2, <1>3, <2>1 DEF InstallOwn
<1>4. CASE InstallFetched
  <2>1. Min(proc.todo) \in Epoch /\ proc.key \in Key
    BY <1>4, MinNatural DEF InstallFetched, Agreement, DTypes, ProcTypes, Epoch
  <2> QED
    BY <1>1, <1>2, <1>4, <2>1 DEF InstallFetched
<1>5. ~Wipe
  BY DEF Wipe
<1> QED
  BY <1>1, <1>3, <1>4, <1>5, KeysChange

\* A request is on its way because it was, or because it is posted now.
LEMMA RotPosted ==
  ASSUME RotTypes, [DeliveryNext]_deliveryVars, rot'.at \in {"posted", "won"}
  PROVE  \/ rot.at \in {"posted", "won"} /\ rot'.call = rot.call
         \/ PostEpoch /\ rot'.call.epoch \in {0, Latest + 1}
<1>0. rot = [at |-> rot.at, who |-> rot.who, call |-> rot.call]
  BY DEF RotTypes
<1>1. ASSUME NEW c \in calls, SetEpoch(c) PROVE rot.at \in {"posted", "won"} /\ rot'.call = rot.call
  <2>1. Answered(c, "won") \/ Answered(c, "recheck")
    BY <1>1 DEF SetEpoch
  <2> QED
    BY <1>0, <2>1 DEF Answered
<1>2. Free.at = "free" /\ \A w : [Free EXCEPT !.at = "post", !.who = w].at = "post"
  BY DEF Free
<1>3. CASE PostEpoch
  <2>1. ~Threw
    BY <1>0 DEF Threw
  <2>2. ASSUME NEW e, NEW k, NEW R,
               rot' = [rot EXCEPT !.at = "posted", !.call = [epoch |-> e, key |-> k, to |-> R]]
        PROVE  rot'.call.epoch = e
    BY <1>0, <2>2
  <2>3. \E e \in {0, NextEpoch} : \E k, R :
          rot' = [rot EXCEPT !.at = "posted", !.call = [epoch |-> e, key |-> k, to |-> R]]
    BY <1>3, <2>1, Zenon DEF PostEpoch
  <2>4. rot'.call.epoch \in {0, Latest + 1}
    BY <2>2, <2>3, Zenon DEF NextEpoch
  <2> QED
    BY <1>3, <2>4
<1>4. CASE rot' = rot
  BY <1>4
<1>5. rot'.at \notin {"free", "post"} /\ rot' # Free
  BY <1>2
<1>6. ~RotateIfRequired("kick") /\ ~RotateIfRequired("sched") /\ ~InstallOwn /\ ~StillRequired /\ ~GiveUp /\ ~Crash
  BY <1>0, <1>2, <1>5 DEF RotateIfRequired, InstallOwn, StillRequired, GiveUp, Finish, Threw, Crash
<1>7. ASSUME NEW u \in Users, Create(u) PROVE rot' = rot
  BY <1>2, <1>5, <1>7 DEF Create
<1> QED
  BY <1>1, <1>3, <1>4, <1>6, <1>7
  DEF DeliveryNext, deliveryVars, phoneVars, ServerStep, OthersRotate, Invite, Remove, Revoke, Delete,
      PhoneStep, RotStep, SchedStep, ProcStep, Ask, Settle, HandleEvent, FetchWrap, InstallFetched,
      CatchUp, Prompt, Wipe

\* An album that lives after a step lived before it, unless nothing had begun.
LEMMA LivesOn ==
  ASSUME IInv, DTypes, [DeliveryNext]_deliveryVars, album' = "live", album # "none"
  PROVE  album = "live" /\ Admins' = Admins /\ phone' = phone
BY ShapeOfTypes, DeliveryStepIsKeysStep, KeysStepKeeps DEF IInv, TypeOK

\* The admin's rotations stay within one epoch of its store, which is not wiped.
LEMMA AdminSerialStep ==
  ASSUME IInv, DTypes, Agreement, NoReplay, [DeliveryNext]_deliveryVars
  PROVE  AdminSerial'
<1> USE MaxEpochNat
<1> SUFFICES ASSUME album' = "live"
             PROVE  /\ phone' \in Admins' => ~gone'
                    /\ rot'.at = "won" => phone' \in Admins'
                    /\ phone' \in Admins' /\ rot'.at \in {"posted", "won"}
                         => rot'.call.epoch <= Latest' + 1
  BY DEF AdminSerial
<1>1. Untouched /\ AdminSerial
  BY DEF NoReplay
<1>2. ASSUME gone' PROVE phone' \notin Admins'
  <2>1. CASE phone' \in revoked'
    BY <2>1 DEF Admins, Active
  <2>2. CASE gone
    BY <1>1, <2>2, LivesOn DEF Untouched, AdminSerial
  <2> QED
    BY <1>2, <2>1, <2>2, GoneStep
<1>3. ASSUME rot'.at = "won" PROVE phone' \in Admins'
  <2>1. CASE rot' = rot
    BY <1>1, <1>3, <2>1, LivesOn DEF Untouched, AdminSerial
  <2>2. ASSUME NEW c, InsertEpoch(phone, c.epoch, c.to) PROVE phone' \in Admins'
    BY <2>2, LivesOn DEF InsertEpoch, ActiveAdmin, Admins
  <2> QED
    BY <1>3, <2>1, <2>2, RotWon DEF DTypes
<1>4. ASSUME phone' \in Admins', rot'.at \in {"posted", "won"}
      PROVE  rot'.call.epoch <= Latest' + 1
  <2>1. rot.at # "free"
    BY <1>4, RotPosted DEF DTypes, PostEpoch
  <2>2. album = "live" /\ phone \in Admins /\ ~gone
    BY <1>1, <1>4, <2>1, LivesOn DEF Untouched, AdminSerial
  <2>3. Latest \in Int /\ Latest' \in Int /\ -1 <= Latest /\ Latest <= Latest' /\ rot.call.epoch \in Int
    BY <2>2, LatestIsGreatest, LatestAfter, LatestGrows DEF DTypes, RotTypes, Call, NoCall, Epoch
  <2>4. CASE rot.at \in {"posted", "won"} /\ rot'.call = rot.call
    BY <1>1, <2>2, <2>3, <2>4 DEF AdminSerial
  <2>5. CASE rot'.call.epoch \in {0, Latest + 1}
    BY <2>3, <2>5
  <2> QED
    BY <1>4, <2>4, <2>5, RotPosted DEF DTypes
<1> QED
  BY <1>2, <1>3, <1>4

\* What the processor has left to install: what it had, less what it installed,
\* or what the event it has just taken up asks for.
LEMMA ProcGoesOn ==
  ASSUME ProcTypes, [DeliveryNext]_deliveryVars, proc'.at # "idle"
  PROVE  \/ proc.at # "idle" /\ proc'.todo = proc.todo /\ proc'.below = proc.below /\ ~InstallFetched
         \/ /\ InstallFetched /\ proc'.todo = proc.todo \ {Min(proc.todo)}
            /\ proc'.below = proc.below /\ keys' = [keys EXCEPT ![Min(proc.todo)] = proc.key]
         \/ /\ HandleEvent /\ proc.at = "idle"
            /\ \/ proc'.todo \subseteq Epoch /\ proc'.below = MaxEpoch + 1
               \/ proc'.todo \subseteq Epoch \ Present /\ proc'.below = Latest
<1> USE MaxEpochNat
<1>0. Resting.at = "idle" /\ proc' # Resting
  BY DEF Resting
<1>1. ASSUME NEW T, NEW b, NEW w, Install(T, b, w) PROVE proc'.todo = T /\ proc'.below = b
  <2>1. proc' = [at |-> "fetch", todo |-> T, below |-> b, key |-> 0, for |-> w]
    BY <1>0, <1>1 DEF Install, ProcessorEnds
  <2> QED
    BY <2>1
<1>2. CASE HandleEvent
  <2>0. inbox \in Seq(Event) /\ inbox # << >>
    BY <1>2 DEF HandleEvent, ProcTypes
  <2>1. Head(inbox).epoch \in Epoch
    <3>1. Head(inbox) \in Event
      BY <2>0
    <3> QED
      BY <3>1 DEF Event
  <2>2. 0 .. Head(inbox).epoch \subseteq Epoch
        /\ Missing(Head(inbox).epoch) \subseteq Epoch \ Present
    BY <2>1 DEF Epoch, Missing
  <2>3. \/ proc'.todo = 0 .. Head(inbox).epoch /\ proc'.below = MaxEpoch + 1
        \/ proc'.todo = Missing(Head(inbox).epoch) /\ proc'.below = Latest
    BY <1>1, <1>2 DEF HandleEvent
  <2> QED
    BY <1>2, <2>2, <2>3 DEF HandleEvent
<1>3. CASE InstallFetched
  BY <1>0, <1>1, <1>3 DEF InstallFetched, ProcessorEnds
<1>4. CASE FetchWrap
  <2>1. proc' = [proc EXCEPT !.at = "install", !.key = keyOf[Min(proc.todo)]]
    BY <1>0, <1>4 DEF FetchWrap, ProcessorEnds
  <2> QED
    BY <1>4, <2>1 DEF FetchWrap, InstallFetched, ProcTypes
<1>5. CASE proc' = proc /\ ~InstallFetched
  BY <1>5
<1>6. ~Crash
  BY <1>0 DEF Crash
<1> QED
  BY <1>2, <1>3, <1>4, <1>5, <1>6
  DEF DeliveryNext, deliveryVars, phoneVars, ServerStep, Create, OthersRotate, Invite, Remove, Revoke, Delete,
      SetEpoch, PhoneStep, RotStep, SchedStep, ProcStep, RotateIfRequired, PostEpoch, InstallOwn,
      StillRequired, GiveUp, Ask, Settle, CatchUp, Prompt, Wipe

\* Installing side by side, the two loops never leave a hole below the latest epoch
\* that the processor still means to fill without a backfill.
LEMMA InOrderStep ==
  ASSUME IInv, DTypes, Agreement, NoReplay, [DeliveryNext]_deliveryVars
  PROVE  InOrder'
<1> USE MaxEpochNat
<1> DEFINE Fine(e) == e < proc'.below \/ e > Latest' \/ (e \in Present' /\ phone' \in Admins')
<1> SUFFICES ASSUME album' = "live", proc'.at # "idle", NEW e \in proc'.todo
             PROVE  Fine(e)
  BY DEF InOrder
<1>0. Untouched /\ AdminSerial /\ InOrder
  BY DEF NoReplay
<1>1. album = "live" /\ Admins' = Admins /\ phone' = phone
  <2>1. proc.at # "idle" \/ inbox # << >>
    BY ProcGoesOn DEF DTypes, InstallFetched, HandleEvent
  <2> QED
    BY <1>0, <2>1, LivesOn DEF Untouched
<1>2. /\ keys \in [Epoch -> Nat] /\ Key \subseteq Nat \ {0} /\ Present \subseteq Epoch
      /\ proc.todo \subseteq Nat /\ proc.below \in Int /\ Epoch \subseteq Nat
      /\ Latest \in Int /\ Latest' \in Int
  BY LatestIsGreatest, LatestAfter DEF DTypes, ProcTypes, KeyOrNone, Key, Epoch, Present
<1>3. CASE /\ proc.at # "idle" /\ proc'.todo = proc.todo /\ proc'.below = proc.below
           /\ ~InstallFetched
  <2>1. e < proc.below \/ e > Latest \/ (e \in Present /\ phone \in Admins)
    BY <1>0, <1>1, <1>3 DEF InOrder
  <2>2. CASE UNCHANGED keys
    <3>1. Present' = Present /\ Latest' = Latest
      BY <2>2 DEF Present, Latest
    <3> QED
      BY <1>1, <1>3, <2>1, <3>1
  <2>3. CASE InstallOwn /\ keys' = [keys EXCEPT ![rot.call.epoch] = rot.call.key]
    <3>1. /\ phone \in Admins /\ rot.call.epoch <= Latest + 1
          /\ rot.call.epoch \in Epoch /\ rot.call.key \in Key
      BY <1>0, <1>1, <2>3
      DEF InstallOwn, AdminSerial, Agreement, DTypes, RotTypes, Call, NoCall, Epoch
    <3>2. /\ Present' = Present \cup {rot.call.epoch}
          /\ \A x \in Int : x > Latest /\ x > rot.call.epoch => x > Latest'
      BY <1>2, <2>3, <3>1, LatestAfterPut
    <3>3. e \in Nat /\ rot.call.epoch \in Nat
      BY <1>2, <1>3, <3>1
    <3>4. e > Latest => e = rot.call.epoch \/ e > rot.call.epoch
      BY <1>2, <3>1, <3>3
    <3> QED
      BY <1>1, <1>3, <2>1, <3>1, <3>2, <3>3, <3>4
  <2>4. CASE Wipe
    <3>1. phone \notin Admins
      BY <1>0, <1>1, <2>4 DEF Wipe, AdminSerial
    <3>2. Present' \subseteq Present
      BY <2>4 DEF Wipe, Present
    <3>3. Latest' <= Latest
      BY <1>2, <3>2, LatestIsGreatest, LatestAfter
    <3>4. e \in Int
      BY <1>2, <1>3
    <3> QED
      BY <1>2, <1>3, <2>1, <3>1, <3>3, <3>4
  <2> QED
    BY <1>3, <2>2, <2>3, <2>4, KeysChange DEF InstallOwn
<1>4. CASE /\ InstallFetched /\ proc'.todo = proc.todo \ {Min(proc.todo)}
           /\ proc'.below = proc.below /\ keys' = [keys EXCEPT ![Min(proc.todo)] = proc.key]
  <2>1. proc.at = "install" /\ proc.todo # {}
    BY <1>4 DEF InstallFetched, DTypes, ProcTypes
  <2>2. Min(proc.todo) \in proc.todo /\ Min(proc.todo) <= e /\ e # Min(proc.todo)
    BY <1>2, <1>4, <2>1, MinNatural
  <2>3. Min(proc.todo) \in Epoch /\ proc.key \in Key
    BY <2>1, <2>2 DEF Agreement, DTypes, ProcTypes
  <2>4. /\ Present' = Present \cup {Min(proc.todo)}
        /\ \A x \in Int : x > Latest /\ x > Min(proc.todo) => x > Latest'
    BY <1>2, <1>4, <2>3, LatestAfterPut
  <2>5. e \in Int /\ e > Min(proc.todo)
    BY <1>2, <1>4, <2>2
  <2>6. e < proc.below \/ e > Latest \/ (e \in Present /\ phone \in Admins)
    BY <1>0, <1>1, <1>4, <2>1 DEF InOrder
  <2> QED
    BY <1>1, <1>4, <2>4, <2>5, <2>6
<1>5. CASE HandleEvent /\ proc'.todo \subseteq Epoch /\ proc'.below = MaxEpoch + 1
  BY <1>5 DEF Epoch
<1>6. CASE HandleEvent /\ proc'.todo \subseteq Epoch \ Present /\ proc'.below = Latest
  <2>1. Present' = Present /\ Latest' = Latest
    BY <1>6 DEF HandleEvent, Present, Latest
  <2>2. e \in Epoch /\ e # Latest
    BY <1>6, LatestIsGreatest DEF Epoch
  <2> QED
    BY <1>2, <1>6, <2>1, <2>2
<1> QED
  BY <1>3, <1>4, <1>5, <1>6, ProcGoesOn DEF DTypes

\* The replay check refuses nothing: what is installed agrees with what is there,
\* and an older epoch comes as a backfill.
LEMMA NothingRefused ==
  ASSUME IInv, DTypes, Agreement, NoReplay, [DeliveryNext]_deliveryVars
  PROVE  ~refused'
<1>1. ASSUME InstallFetched, Admitted, Verdict(Min(proc.todo), proc.key, Min(proc.todo) < proc.below) = "replay"
      PROVE  FALSE
  <2> DEFINE e == Min(proc.todo)
  <2>1. proc.at = "install" /\ proc.todo # {} /\ proc.todo \subseteq Nat
    BY <1>1, MaxEpochNat DEF InstallFetched, DTypes, ProcTypes, Epoch
  <2>2. e \in proc.todo /\ e \in Epoch /\ e \in Nat
    BY <2>1, MinNatural DEF DTypes, ProcTypes
  <2>3. e \in Present => keys[e] = proc.key
    BY <2>1, <2>2 DEF Agreement, Present
  <2>4. \/ e < proc.below \/ e > Latest \/ e \in Present
    BY <1>1, <2>1, <2>2 DEF NoReplay, InOrder, Admitted
  <2>5. Latest \in Int
    BY LatestIsGreatest, MaxEpochNat
  <2> HIDE DEF e
  <2>6. Verdict(e, proc.key, e < proc.below) # "replay"
    BY <2>2, <2>3, <2>4, <2>5 DEF Verdict
  <2> QED
    BY <1>1, <2>6 DEF e
<1>2. ~refused /\ refused \in BOOLEAN
  BY DEF NoReplay, DTypes, ProcTypes
<1>3. CASE InstallFetched
  BY <1>1, <1>2, <1>3 DEF InstallFetched
<1> QED
  BY <1>2, <1>3
  DEF DeliveryNext, deliveryVars, phoneVars, ServerStep, Create, OthersRotate, Invite, Remove, Revoke, Delete,
      SetEpoch, PhoneStep, RotStep, SchedStep, ProcStep, RotateIfRequired, PostEpoch, InstallOwn,
      StillRequired, GiveUp, Ask, Settle, HandleEvent, FetchWrap, CatchUp, Prompt, Crash, Wipe

-----------------------------------------------------------------------------
(***************************************************************************)
(* The loops of the phone wait for one another.                            *)
(***************************************************************************)

\* The mutex stays with who waits for it.
LEMMA RotWaitsStep ==
  ASSUME DTypes, Untouched, RotWaits, ProcWaits, [DeliveryNext]_deliveryVars
  PROVE  RotWaits'
<1>0. /\ sched \in Sched
      /\ rot = [at |-> rot.at, who |-> rot.who, call |-> rot.call]
  BY DEF DTypes, RotTypes, Sched
<1>1. CASE rot' = rot /\ (sched'.at = "held" <=> sched.at = "held")
  BY <1>1 DEF RotWaits
<1>2. ASSUME rot'.who = rot.who, rot.at # "free", rot'.at # "free", sched' = sched PROVE RotWaits'
  BY <1>2 DEF RotWaits
<1>3. ASSUME NEW w, NEW ok \in BOOLEAN, Finish(w, ok), w # "sched" => rot.who # "sched" PROVE RotWaits'
  <2>1. rot'.at = "free" /\ rot'.who = "none"
    BY <1>3 DEF Finish, Free
  <2>2. sched'.at # "held"
    BY <1>0, <1>3, SchedWaits DEF Finish, RotWaits
  <2> QED
    BY <2>1, <2>2 DEF RotWaits
<1>4. ASSUME NEW w \in {"create", "kick", "sched"}, rot' = [Free EXCEPT !.at = "post", !.who = w],
             w = "sched" <=> sched'.at = "held"
      PROVE  RotWaits'
  BY <1>4 DEF Free, RotWaits
<1>5. ASSUME Threw, rot.at # "free" PROVE RotWaits'
  BY <1>0, <1>2, <1>5 DEF Threw
<1>6. ASSUME NEW c \in calls, SetEpoch(c) PROVE RotWaits'
  <2>1. Answered(c, "won") \/ Answered(c, "recheck")
    BY <1>6 DEF SetEpoch
  <2> QED
    BY <1>0, <1>1, <1>2, <1>6, <2>1 DEF SetEpoch, Answered
<1>7. ASSUME NEW u \in Users, Create(u) PROVE RotWaits'
  <2>1. sched.at # "held" /\ sched' = sched
    BY <1>7 DEF Create, CreateWithAdmin, Untouched, RotWaits
  <2> QED
    BY <1>1, <1>4, <1>7, <2>1 DEF Create
<1>8. ASSUME NEW w \in {"kick", "sched"}, RotateIfRequired(w) PROVE RotWaits'
  <2>1. rot.who = "none" /\ sched.at # "held"
    BY <1>8 DEF RotateIfRequired, RotWaits
  <2>2. CASE rot' = [Free EXCEPT !.at = "post", !.who = w]
             /\ sched' = IF w = "sched" THEN [sched EXCEPT !.at = "held"] ELSE sched
    <3>1. w = "sched" <=> sched'.at = "held"
      BY <1>0, <2>1, <2>2 DEF Sched
    <3> QED
      BY <1>4, <2>2, <3>1
  <2> QED
    BY <1>3, <1>8, <2>1, <2>2 DEF RotateIfRequired
<1>9. CASE PostEpoch
  <2>1. ASSUME NEW c, rot' = [rot EXCEPT !.at = "posted", !.call = c] PROVE rot'.who = rot.who /\ rot'.at # "free"
    BY <1>0, <2>1
  <2>2. rot.at # "free"
    BY <1>9 DEF PostEpoch
  <2>3. Threw \/ (sched' = sched /\ \E c : rot' = [rot EXCEPT !.at = "posted", !.call = c])
    BY <1>9, Zenon DEF PostEpoch
  <2> QED
    BY <1>2, <1>5, <2>1, <2>2, <2>3
<1>10. CASE InstallOwn \/ StillRequired \/ GiveUp
  <2>1. rot.at # "free"
    BY <1>10 DEF InstallOwn, StillRequired, GiveUp
  <2>2. CASE rot.who = "sched" /\ rot' = Free /\ sched' = Ended(sched)
    <3>1. sched'.at # "held"
      BY <1>0, <2>2, SchedMoves
    <3> QED
      BY <2>2, <3>1 DEF Free, RotWaits
  <2> QED
    BY <1>3, <1>5, <1>10, <2>1, <2>2 DEF InstallOwn, StillRequired, GiveUp
<1>11. CASE Ask
  <2>1. [sched EXCEPT !.owed = TRUE] \in Sched
    BY <1>0 DEF Sched
  <2>2. (Ended([sched EXCEPT !.owed = TRUE])).at # "held" /\ (Ended(sched)).at # "held"
    BY <1>0, <2>1, SchedMoves
  <2>3. [sched EXCEPT !.at = "want", !.tries = 0, !.owed = TRUE].at # "held"
        /\ [sched EXCEPT !.at = "settle"].at # "held"
    BY <1>0 DEF Sched
  <2>4. sched.at # "held" /\ sched'.at # "held"
    BY <1>11, <2>2, <2>3 DEF Ask
  <2> QED
    BY <1>1, <1>11, <2>4 DEF Ask
<1>12. CASE Settle
  <2>1. [sched EXCEPT !.owed = FALSE] \in Sched
    BY <1>0 DEF Sched
  <2>2. (Ended([sched EXCEPT !.owed = FALSE])).at # "held"
        /\ [sched EXCEPT !.at = "reconcile", !.owed = FALSE].at # "held"
    BY <1>0, <2>1, SchedMoves DEF Sched
  <2>3. sched.at # "held" /\ sched'.at # "held"
    BY <1>12, <2>2 DEF Settle
  <2> QED
    BY <1>1, <1>12, <2>3 DEF Settle
<1>13. ASSUME NEW w, NEW ok \in BOOLEAN, ProcessorEnds(w, ok), w = "sched" => sched.at = "reconcile"
       PROVE  sched'.at = "held" <=> sched.at = "held"
  BY <1>0, <1>13, SchedWaits DEF ProcessorEnds
<1>14. ASSUME NEW T, NEW b, NEW w, Install(T, b, w), w = "sched" => sched.at = "reconcile"
       PROVE  sched'.at = "held" <=> sched.at = "held"
  BY <1>13, <1>14 DEF Install
<1>15. CASE HandleEvent
  <2>1. Head(inbox).for = "sched" => sched.at = "reconcile"
    BY <1>15 DEF HandleEvent, ProcWaits, Queued, DTypes, ProcTypes
  <2> QED
    BY <1>1, <1>14, <1>15, <2>1 DEF HandleEvent
<1>16. CASE FetchWrap \/ InstallFetched
  <2>1. proc.for = "sched" => sched.at = "reconcile"
    BY DEF ProcWaits
  <2> QED
    BY <1>1, <1>13, <1>14, <1>16, <2>1 DEF FetchWrap, InstallFetched
<1>17. CASE CatchUp \/ Prompt
  <2>1. sched' = sched \/ sched' = Requested(sched)
    BY <1>17 DEF CatchUp, Prompt
  <2>2. sched'.at = "held" <=> sched.at = "held"
    BY <1>0, <2>1, SchedMoves
  <2> QED
    BY <1>1, <1>17, <2>2 DEF CatchUp, Prompt
<1>18. CASE Crash
  BY <1>18 DEF Crash, Free, Unasked, RotWaits
<1>19. CASE Wipe
  <2>1. sched'.at = sched.at
    BY <1>0, <1>19 DEF Wipe, Sched
  <2> QED
    BY <1>1, <1>19, <2>1 DEF Wipe
<1>20. CASE rot' = rot /\ sched' = sched
  BY <1>1, <1>20
<1> QED
  BY <1>6, <1>7, <1>8, <1>9, <1>10, <1>11, <1>12, <1>15, <1>16, <1>17, <1>18, <1>19, <1>20
  DEF DeliveryNext, deliveryVars, phoneVars, ServerStep, OthersRotate, Invite, Remove, Revoke, Delete,
      PhoneStep, RotStep, SchedStep, ProcStep

\* What an event that joins or leaves the queue does to who waits for it.
LEMMA QueueAppended ==
  ASSUME NEW q \in Seq(Event), NEW ev \in Event, NEW w
  PROVE  /\ Queued(Append(q, ev), w) <=> Queued(q, w) \/ ev.for = w
         /\ Once(q, w) /\ (ev.for = w => ~Queued(q, w)) => Once(Append(q, ev), w)
<1>1. /\ Len(Append(q, ev)) = Len(q) + 1 /\ Len(q) \in Nat
      /\ \A i \in 1 .. Len(q) : Append(q, ev)[i] = q[i]
      /\ Append(q, ev)[Len(q) + 1] = ev
  OBVIOUS
<1>2. \A i \in 1 .. Len(q) + 1 : i \in 1 .. Len(q) \/ i = Len(q) + 1
  BY <1>1
<1>3. 1 .. Len(q) \subseteq 1 .. Len(q) + 1 /\ Len(q) + 1 \in 1 .. Len(q) + 1
  BY <1>1
<1> QED
  BY <1>1, <1>2, <1>3 DEF Queued, Once

\* And one that is taken from its head.
LEMMA QueueTaken ==
  ASSUME NEW q \in Seq(Event), q # << >>, NEW w
  PROVE  /\ Tail(q) \in Seq(Event) /\ Head(q) \in Event
         /\ Queued(Tail(q), w) => Queued(q, w)
         /\ Head(q).for = w => Queued(q, w)
         /\ Once(q, w) => Once(Tail(q), w) /\ (Head(q).for = w => ~Queued(Tail(q), w))
<1>1. /\ Len(q) \in Nat /\ Len(q) >= 1 /\ Head(q) = q[1] /\ Len(Tail(q)) = Len(q) - 1
      /\ Tail(q) \in Seq(Event) /\ Head(q) \in Event
      /\ \A i \in 1 .. Len(q) - 1 : Tail(q)[i] = q[i + 1]
  OBVIOUS
<1>2. /\ \A i \in 1 .. Len(q) - 1 : i + 1 \in 1 .. Len(q) /\ i + 1 # 1
      /\ \A i, j \in 1 .. Len(q) - 1 : i + 1 = j + 1 => i = j
      /\ 1 \in 1 .. Len(q)
  BY <1>1
<1> QED
  BY <1>1, <1>2 DEF Queued, Once

\* An event that is done with is awaited no longer; what is queued still is.
LEMMA EndsWaits ==
  ASSUME sched \in Sched, NEW w, NEW ok \in BOOLEAN, ProcessorEnds(w, ok),
         \A v \in {"sync", "sched"} : Once(inbox', v) /\ ~(Queued(inbox', v) /\ w = v),
         Queued(inbox', "sync") => sync = "handle",
         Queued(inbox', "sched") => sched.at = "reconcile"
  PROVE  ProcWaits'
<1>1. proc'.for = "none" /\ sched' = Heard(sched, w, ok)
      /\ sync' = IF w = "sync" THEN "idle" ELSE sync
  BY DEF ProcessorEnds, Resting
<1>2. w # "sched" /\ sched.at = "reconcile" => sched'.at = "reconcile"
  BY <1>1, SchedWaits
<1> QED
  BY <1>1, <1>2 DEF ProcWaits, Queued, Once

\* An event whose epochs are still being installed is awaited on.
LEMMA InstallWaits ==
  ASSUME sched \in Sched, NEW T, NEW b, NEW w, Install(T, b, w),
         \A v \in {"sync", "sched"} : Once(inbox', v) /\ ~(Queued(inbox', v) /\ w = v),
         Queued(inbox', "sync") \/ w = "sync" => sync = "handle",
         Queued(inbox', "sched") \/ w = "sched" => sched.at = "reconcile"
  PROVE  ProcWaits'
<1>1. CASE ProcessorEnds(w, TRUE)
  BY <1>1, EndsWaits
<1>2. CASE proc' = [at |-> "fetch", todo |-> T, below |-> b, key |-> 0, for |-> w]
           /\ UNCHANGED <<sync, sched>>
  <2>1. proc'.for = w /\ sync' = sync /\ sched' = sched
    BY <1>2
  <2> QED
    BY <2>1 DEF ProcWaits, Queued, Once
<1> QED
  BY <1>1, <1>2 DEF Install

\* No second event is ever awaited by the same loop.
LEMMA ProcWaitsStep ==
  ASSUME TypeOK, DTypes, RotWaits, ProcWaits, [DeliveryNext]_deliveryVars
  PROVE  ProcWaits'
<1>0. /\ sched \in Sched /\ inbox \in Seq(Event)
      /\ \A w \in {"sync", "sched"} : Once(inbox, w) /\ ~(Queued(inbox, w) /\ proc.for = w)
      /\ Queued(inbox, "sync") \/ proc.for = "sync" => sync = "handle"
      /\ Queued(inbox, "sched") \/ proc.for = "sched" => sched.at = "reconcile"
  BY DEF DTypes, RotTypes, ProcTypes, Sched, ProcWaits
<1>1. ASSUME inbox' = inbox, proc' = proc, sync' = sync,
             sched.at = "reconcile" => sched'.at = "reconcile" \/ ~(Queued(inbox, "sched") \/ proc.for = "sched")
      PROVE  ProcWaits'
  BY <1>0, <1>1 DEF ProcWaits, Queued, Once
<1>2. ASSUME NEW ev \in Event, inbox' = Append(inbox, ev), proc' = proc,
             ev.for = "ws" => sync' = sync /\ sched' = sched,
             ev.for = "sync" => sync = "idle" /\ sync' = "handle" /\ sched' = sched,
             ev.for = "sched" => sched.at # "reconcile" /\ sched'.at = "reconcile" /\ sync' = sync
      PROVE  ProcWaits'
  <2>1. \A w : /\ Queued(inbox', w) <=> Queued(inbox, w) \/ ev.for = w
               /\ Once(inbox, w) /\ (ev.for = w => ~Queued(inbox, w)) => Once(inbox', w)
    BY <1>0, <1>2, QueueAppended
  <2>2. ev.for \in {"ws", "sync", "sched"}
    BY DEF Event
  <2>3. \A w \in {"sync", "sched"} : ev.for = w => ~Queued(inbox, w) /\ proc.for # w
    BY <1>0, <1>2
  <2>4. \A w \in {"sync", "sched"} : Once(inbox', w) /\ ~(Queued(inbox', w) /\ proc'.for = w)
    BY <1>0, <1>2, <2>1, <2>3
  <2>5. Queued(inbox', "sync") \/ proc'.for = "sync" => sync' = "handle"
    BY <1>0, <1>2, <2>1, <2>2
  <2>6. Queued(inbox', "sched") \/ proc'.for = "sched" => sched'.at = "reconcile"
    BY <1>0, <1>2, <2>1, <2>2
  <2> QED
    BY <2>4, <2>5, <2>6 DEF ProcWaits, Queued, Once
<1>3. CASE UNCHANGED <<inbox, proc, sync, sched>>
  BY <1>1, <1>3
<1>4. ASSUME NEW e \in Epoch, NEW j \in BOOLEAN, Announced(e, j), UNCHANGED <<proc, sync, sched>>
      PROVE  ProcWaits'
  <2>1. [epoch |-> e, joined |-> j, for |-> "ws"] \in Event
    BY DEF Event
  <2> QED
    BY <1>2, <1>3, <1>4, <2>1 DEF Announced
<1>5. ASSUME NEW c \in calls, SetEpoch(c) PROVE ProcWaits'
  <2>1. c.epoch \in Epoch
    BY DEF DTypes, ServerTypes, Call
  <2> QED
    BY <1>3, <1>4, <1>5, <2>1 DEF SetEpoch
<1>6. ASSUME NEW u \in Users, NEW R \in SUBSET Users, OthersRotate(u, R) PROVE ProcWaits'
  <2>1. cur + 1 \in Epoch
    BY <1>6 DEF OthersRotate, InsertEpoch
  <2> QED
    BY <1>3, <1>4, <1>6, <2>1 DEF OthersRotate
<1>7. ASSUME NEW s \in Users, NEW t \in Users, NEW last \in Epoch, Invite(s, t, last) PROVE ProcWaits'
  BY <1>3, <1>4, <1>7 DEF Invite
<1>8. ASSUME NEW w \in {"kick", "sched"}, RotateIfRequired(w) PROVE ProcWaits'
  <2>1. w = "kick" => sched' = sched
    BY <1>8 DEF RotateIfRequired, Finish, Returned
  <2>2. w = "sched" => sched.at # "reconcile"
    BY <1>8 DEF RotateIfRequired
  <2> QED
    BY <1>1, <1>8, <2>1, <2>2 DEF RotateIfRequired
<1>9. CASE PostEpoch \/ GiveUp
  BY <1>3, <1>9 DEF PostEpoch, GiveUp, Threw
<1>10. CASE InstallOwn \/ StillRequired
  <2>1. rot.who # "sched" => sched' = sched
    BY <1>10 DEF InstallOwn, StillRequired, Finish, Returned, Threw
  <2>2. rot.who = "sched" => sched.at # "reconcile"
    BY DEF RotWaits
  <2> QED
    BY <1>1, <1>10, <2>1, <2>2 DEF InstallOwn, StillRequired
<1>11. CASE Ask
  BY <1>1, <1>11 DEF Ask
<1>12. CASE Settle
  <2>1. cur >= 0 => cur \in Epoch
    BY MaxEpochNat DEF TypeOK, Epoch
  <2>2. [sched EXCEPT !.at = "reconcile", !.owed = FALSE].at = "reconcile"
    BY <1>0 DEF Sched
  <2>3. CASE UNCHANGED inbox
    BY <1>1, <1>12, <2>3 DEF Settle
  <2>4. CASE cur \in Epoch /\ inbox' = Append(inbox, [epoch |-> cur, joined |-> FALSE, for |-> "sched"])
             /\ sched' = [sched EXCEPT !.at = "reconcile", !.owed = FALSE]
    <3>1. [epoch |-> cur, joined |-> FALSE, for |-> "sched"] \in Event
      BY <2>4 DEF Event
    <3>2. sched.at # "reconcile" /\ sched'.at = "reconcile" /\ proc' = proc /\ sync' = sync
      BY <1>12, <2>2, <2>4 DEF Settle
    <3> QED
      BY <1>2, <2>4, <3>1, <3>2
  <2> QED
    BY <1>12, <2>1, <2>3, <2>4 DEF Settle
<1>13. CASE HandleEvent
  <2>1. inbox # << >> /\ inbox' = Tail(inbox)
    BY <1>13 DEF HandleEvent
  <2>2. \A w : /\ Queued(inbox', w) => Queued(inbox, w)
               /\ Head(inbox).for = w => Queued(inbox, w)
               /\ Once(inbox, w) => Once(inbox', w) /\ (Head(inbox).for = w => ~Queued(inbox', w))
    BY <1>0, <2>1, QueueTaken
  <2>3. \A v \in {"sync", "sched"} : Once(inbox', v) /\ ~(Queued(inbox', v) /\ Head(inbox).for = v)
    BY <1>0, <2>2
  <2>4. /\ Queued(inbox', "sync") \/ Head(inbox).for = "sync" => sync = "handle"
        /\ Queued(inbox', "sched") \/ Head(inbox).for = "sched" => sched.at = "reconcile"
    BY <1>0, <2>2
  <2>5. \E T, b : Install(T, b, Head(inbox).for)
    BY <1>13 DEF HandleEvent
  <2> QED
    BY <1>0, <2>3, <2>4, <2>5, InstallWaits
<1>14. CASE FetchWrap \/ InstallFetched
  <2>1. inbox' = inbox
    BY <1>14 DEF FetchWrap, InstallFetched
  <2>2. CASE proc'.for = proc.for /\ UNCHANGED <<sync, sched>>
    BY <1>0, <2>1, <2>2 DEF ProcWaits, Queued, Once
  <2>3. ASSUME NEW ok \in BOOLEAN, ProcessorEnds(proc.for, ok) PROVE ProcWaits'
    BY <1>0, <2>1, <2>3, EndsWaits
  <2>4. ASSUME NEW T, NEW b, Install(T, b, proc.for) PROVE ProcWaits'
    BY <1>0, <2>1, <2>4, InstallWaits
  <2>5. ASSUME NEW k, proc' = [proc EXCEPT !.at = "install", !.key = k] PROVE proc'.for = proc.for
    BY <2>5 DEF DTypes, ProcTypes
  <2> QED
    BY <1>14, <2>2, <2>3, <2>4, <2>5 DEF FetchWrap, InstallFetched
<1>15. CASE CatchUp
  <2>1. CASE sched' = Requested(sched) /\ UNCHANGED <<inbox, sync>>
    <3>1. sched.at = "reconcile" => sched'.at = "reconcile"
      BY <1>0, <2>1, SchedMoves
    <3> QED
      BY <1>1, <1>15, <2>1, <3>1 DEF CatchUp
  <2>2. CASE /\ sync = "idle" /\ sync' = "handle" /\ sched' = sched /\ cur \in Epoch
             /\ inbox' = Append(inbox, [epoch |-> cur, joined |-> Latest < 0, for |-> "sync"])
    <3>1. [epoch |-> cur, joined |-> Latest < 0, for |-> "sync"] \in Event
      BY <2>2 DEF Event
    <3> QED
      BY <1>2, <1>15, <2>2, <3>1 DEF CatchUp
  <2>3. cur >= 0 => cur \in Epoch
    BY MaxEpochNat DEF TypeOK, Epoch
  <2> QED
    BY <1>15, <2>1, <2>2, <2>3 DEF CatchUp
<1>16. CASE Prompt
  <2>1. sched.at = "reconcile" => sched'.at = "reconcile"
    BY <1>0, <1>16, SchedMoves DEF Prompt
  <2> QED
    BY <1>1, <1>16, <2>1 DEF Prompt
<1>17. CASE Crash
  <2>1. proc'.for = "none" /\ inbox' = << >>
    BY <1>17 DEF Crash, Resting
  <2>2. \A w : ~Queued(inbox', w) /\ Once(inbox', w)
    BY <2>1 DEF Queued, Once
  <2> QED
    BY <2>1, <2>2 DEF ProcWaits, Queued, Once
<1>18. CASE Wipe
  <2>1. sched'.at = sched.at
    BY <1>0, <1>18 DEF Wipe, Sched
  <2> QED
    BY <1>1, <1>18, <2>1 DEF Wipe
<1> QED
  BY <1>3, <1>5, <1>6, <1>7, <1>8, <1>9, <1>10, <1>11, <1>12, <1>13, <1>14, <1>15, <1>16, <1>17, <1>18
  DEF DeliveryNext, deliveryVars, phoneVars, ServerStep, Create, Remove, Revoke, Delete,
      PhoneStep, RotStep, SchedStep, ProcStep

-----------------------------------------------------------------------------
(***************************************************************************)
(* The theorems.                                                           *)
(***************************************************************************)

\* The inductive invariant: the one of AlbumKeys, and the parts shown to be kept above.
DInv == IInv /\ DTypes /\ Agreement /\ RotWaits /\ ProcWaits /\ NoReplay

\* The initial states satisfy the inductive invariant.
LEMMA DeliveryInitInv == DeliveryInit => DInv
<1> SUFFICES ASSUME DeliveryInit PROVE DInv
  OBVIOUS
<1> USE MaxEpochNat, TriesPositive, DeliveryBoundsNat
<1>1. IInv
  BY InitInv DEF DeliveryInit
<1>2. Present = {}
  BY DEF DeliveryInit, Present
<1>3. DTypes
  <2>1. ServerTypes
    BY FS_EmptySet DEF DeliveryInit, ServerTypes, KeyOrNone
  <2>2. ProcTypes
    <3>1. << >> \in Seq(Event) /\ ProcOK(Resting) /\ 0 \in KeyOrNone
      BY RestingOK DEF KeyOrNone
    <3> QED
      BY <3>1 DEF DeliveryInit, ProcTypes, ProcOK
  <2>3. RotTypes
    BY DEF DeliveryInit, RotTypes, Free, Unasked
  <2> QED
    BY <2>1, <2>2, <2>3 DEF DTypes
<1>4. Agreement
  BY DEF DeliveryInit, Init, Agreement, Free, Resting, Epoch
<1>5. RotWaits /\ ProcWaits
  BY DEF DeliveryInit, RotWaits, ProcWaits, Queued, Once, Free, Unasked, Resting
<1>6. NoReplay
  BY <1>2 DEF DeliveryInit, Init, NoReplay, Untouched, AdminSerial, InOrder, Free, Resting
<1> QED
  BY <1>1, <1>3, <1>4, <1>5, <1>6 DEF DInv

\* Every step keeps it.
LEMMA DeliveryStepInv == DInv /\ [DeliveryNext]_deliveryVars => DInv'
<1> SUFFICES ASSUME DInv, [DeliveryNext]_deliveryVars PROVE DInv'
  OBVIOUS
<1>0. IInv /\ DTypes /\ Agreement /\ RotWaits /\ ProcWaits /\ NoReplay /\ Untouched /\ TypeOK
  BY DEF DInv, NoReplay, IInv
<1>1. IInv'
  <2>1. [Next]_keyVars
    BY <1>0, ShapeOfTypes, DeliveryStepIsKeysStep DEF KeysStep, Next
  <2> QED
    BY <1>0, <2>1, StepInv
<1>2. DTypes'
  BY <1>0, ServerTypesStep, ProcTypesStep, RotTypesStep DEF DTypes
<1>3. Agreement'
  BY <1>0, AgreementStep
<1>4. RotWaits' /\ ProcWaits'
  BY <1>0, RotWaitsStep, ProcWaitsStep
<1>5. Untouched' /\ AdminSerial' /\ InOrder' /\ ~refused'
  BY <1>0, UntouchedStep, AdminSerialStep, InOrderStep, NothingRefused
<1> QED
  BY <1>1, <1>2, <1>3, <1>4, <1>5 DEF DInv, NoReplay

\* The inductive invariant holds throughout.
THEOREM DeliveryInvariant == DeliverySpec => []DInv
BY DeliveryInitInv, DeliveryStepInv, PTL DEF DeliverySpec

\* What the phone and the server keep stays well typed, the rotation's mutex and
\* the event that is waited for have the loop they belong to, and every epoch of
\* the album has a key.
THEOREM DeliveryKeepsTypes == DeliverySpec => []DeliveryTypeOK
<1>1. DInv => DeliveryTypeOK
  <2> SUFFICES ASSUME DInv PROVE DeliveryTypeOK
    OBVIOUS
  <2>1. TypeOK /\ ServerTypes /\ ProcTypes /\ RotTypes /\ Agreement /\ RotWaits /\ ProcWaits
    BY DEF DInv, DTypes, IInv
  <2>2. \A e \in Epoch : e <= cur => keyOf[e] # 0
    BY <2>1 DEF Agreement, Key
  <2> QED
    BY <2>1, <2>2 DEF ServerTypes, ProcTypes, RotTypes, RotWaits, ProcWaits, KeyOrNone, DeliveryTypeOK
<1> QED
  BY <1>1, DeliveryInvariant, PTL

\* The phone holds the key the members were sent, or none, for every epoch, and an
\* honest server's keys are never refused as a replay: for any number of users,
\* epochs, requests, retries and failures.
THEOREM DeliveryKeysAgree == DeliverySpec => []KeysAgree
<1>1. DInv => KeysAgree
  BY DEF DInv, NoReplay, Agreement, KeysAgree, Present
<1> QED
  BY <1>1, DeliveryInvariant, PTL

\* What AlbumKeys promises holds with the phone in the loop: an open gate means
\* that the current key is known to the active members and to nobody else.
THEOREM DeliveryFreezeSound == DeliverySpec => []FreezeSound
BY DeliveryImplementsKeys, KeysFreezeSound, PTL


\* The key of an epoch is chosen once.  What its members were sent never
\* changes, and a key that the phone installed is neither replaced nor
\* removed, but by the wipe of an album the phone lost, and the admin's phone
\* does not lose one that lives.
KeysFinal ==
    [][\A e \in Epoch :
          /\ Settled(e) => Settled(e)' /\ keyOf'[e] = keyOf[e]
          /\ keys[e] # 0 => \/ keys'[e] = keys[e]
                            \/ keys'[e] = 0 /\ gone /\ ~(album = "live" /\ phone \in Admins)]_deliveryVars

\* Insert-only envelopes (uq_mk_wraps), the replay check and the wipe together
\* make a key final once it was handed out or installed.
THEOREM DeliveryKeysFinal == DeliverySpec => KeysFinal
<1> DEFINE Final ==
        \A e \in Epoch :
          /\ Settled(e) => Settled(e)' /\ keyOf'[e] = keyOf[e]
          /\ keys[e] # 0 => \/ keys'[e] = keys[e]
                            \/ keys'[e] = 0 /\ gone /\ ~(album = "live" /\ phone \in Admins)
<1>1. DInv /\ [DeliveryNext]_deliveryVars => Final
  <2> SUFFICES ASSUME DInv, [DeliveryNext]_deliveryVars, NEW e \in Epoch
               PROVE  /\ Settled(e) => Settled(e)' /\ keyOf'[e] = keyOf[e]
                      /\ keys[e] # 0 => \/ keys'[e] = keys[e]
                                        \/ /\ keys'[e] = 0 /\ gone
                                           /\ ~(album = "live" /\ phone \in Admins)
    OBVIOUS
  <2>0. IInv /\ DTypes /\ Agreement /\ AdminSerial /\ TypeOK
    BY DEF DInv, NoReplay, IInv
  <2>t. keyOf \in [Epoch -> KeyOrNone] /\ keys \in [Epoch -> KeyOrNone] /\ cur \in Int
    BY <2>0, MaxEpochNat DEF DTypes, ServerTypes, ProcTypes, TypeOK, Epoch
  <2>1. Settled(e) => Settled(e)'
    <3>1. KeysStep \/ UNCHANGED keyVars
      BY <2>0, ShapeOfTypes, DeliveryStepIsKeysStep
    <3> QED
      BY <2>0, <3>1, KeysStepKeeps
  <2>2. Settled(e) => keyOf'[e] = keyOf[e]
    <3>1. CASE keyOf' = keyOf
      BY <3>1
    <3>2. CASE album = "live" /\ \E k \in Key : keyOf' = [keyOf EXCEPT ![cur + 1] = k]
      <4>1. Settled(e) => e # cur + 1
        BY <2>t, <3>2 DEF Settled, Epoch
      <4> QED
        BY <2>t, <3>2, <4>1
    <3> QED
      BY <2>0, <3>1, <3>2, KeyOfStep
  <2>3. keys[e] # 0 => \/ keys'[e] = keys[e]
                       \/ keys'[e] = 0 /\ gone /\ ~(album = "live" /\ phone \in Admins)
    <3>1. CASE InstallOwn
      BY <2>t, <3>1 DEF InstallOwn, Verdict, Present
    <3>2. CASE InstallFetched
      BY <2>t, <3>2 DEF InstallFetched, Verdict, Present
    <3>3. CASE Wipe
      <4>1. gone /\ \E S \in SUBSET Present : keys' = [x \in Epoch |-> IF x \in S THEN keys[x] ELSE 0]
        BY <3>3 DEF Wipe
      <4>2. ~(album = "live" /\ phone \in Admins)
        BY <2>0, <4>1 DEF AdminSerial
      <4> QED
        BY <4>1, <4>2
    <3>4. CASE UNCHANGED deliveryVars
      BY <3>4 DEF deliveryVars, phoneVars
    <3>5. CASE UNCHANGED keys
      BY <3>5
    <3> QED
      BY <3>1, <3>2, <3>3, <3>4, <3>5
         DEF DeliveryNext, ServerStep, PhoneStep, SetEpoch, Create, OthersRotate, Invite, Remove,
             Revoke, Delete, RotStep, SchedStep, ProcStep, RotateIfRequired, PostEpoch, GiveUp,
             StillRequired, Ask, Settle, HandleEvent, FetchWrap, CatchUp, Prompt, Crash
  <2> QED
    BY <2>1, <2>2, <2>3
<1>2. DInv /\ [DeliveryNext]_deliveryVars => [Final]_deliveryVars
  BY <1>1
<1> QED
  BY <1>2, DeliveryInvariant, PTL DEF DeliverySpec, KeysFinal
=================================================================================
