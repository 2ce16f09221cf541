-------------------------- MODULE AlbumMediaProofs ---------------------------
(***************************************************************************)
(* Proofs about AlbumMedia for every instance: the composition implements  *)
(* AlbumKeys, so what is proved there holds of it, and publication stays   *)
(* inside the membership.                                                  *)
(***************************************************************************)
EXTENDS AlbumMedia, AlbumKeysProofs

-----------------------------------------------------------------------------
(***************************************************************************)
(* The composition implements AlbumKeys.                                   *)
(***************************************************************************)

\* Every step of the composition is a step of AlbumKeys or leaves it alone.
LEMMA MediaStepIsKeysStep == [MediaNext]_vars => [Next]_keyVars
<1> SUFFICES ASSUME [MediaNext]_vars PROVE [Next]_keyVars
  OBVIOUS
<1>1. CASE QuietAlbumStep
  BY <1>1, Zenon DEF QuietAlbumStep, Next
<1>2. CASE RemovingAlbumStep
  BY <1>2, Zenon DEF RemovingAlbumStep, Next
<1>3. CASE UNCHANGED keyVars
  BY <1>3
<1>4. CASE UNCHANGED vars
  BY <1>4 DEF vars
<1> QED
  BY <1>1, <1>2, <1>3, <1>4 DEF MediaNext

\* Whatever publishing, uploading and cleaning do, the album's roster, epochs
\* and debt evolve as AlbumKeys says: its theorems hold with media in play.
THEOREM MediaImplementsKeys == MediaSpec => Spec
<1>1. [MediaNext]_vars => [Next]_keyVars
  BY MediaStepIsKeysStep
<1> QED
  BY <1>1, PTL DEF MediaSpec, Spec

-----------------------------------------------------------------------------
(***************************************************************************)
(* Types and the publication order.                                        *)
(***************************************************************************)

\* The clauses of MediaTypeOK but the one about the audience.
Core == RowsOK /\ RequestsOK /\ StoreOK /\ SeqsDistinct

\* A row that exists has the fields of Row; its keys are keys.
LEMMA RowFields ==
  ASSUME RowsOK, NEW m \in MediaIds, media[m].st # "none"
  PROVE  media[m] \in Row /\ KeysOf(m) \subseteq Key
<1>1. media[m] \in Row
  BY DEF RowsOK, NoRow
<1> QED
  BY <1>1 DEF KeysOf, Row

\* Retiring rows keeps every clause.
LEMMA RetireStep ==
  ASSUME Core, NEW S \in SUBSET MediaIds, Retire(S), requests' \subseteq requests,
         nextRes' = nextRes, gen' = gen, urls' = urls, objects' = objects,
         cleaning' = cleaning, swept' \subseteq swept \cup KeysOfAll(S)
  PROVE  Core'
<1>1. \A m \in MediaIds : KeysOf(m) \subseteq Key
  BY RowFields DEF Core, KeysOf
<1>2. KeysOfAll(S) \subseteq Key
  BY <1>1 DEF KeysOfAll
<1>3. RowsOK'
  BY DEF Core, RowsOK, Retire
<1>4. RequestsOK'
  BY DEF Core, RequestsOK
<1>5. StoreOK'
  BY <1>2 DEF Core, StoreOK, Retire, Key
<1>6. SeqsDistinct'
  <2>1. \A m \in MediaIds : Confirmed(m)' => Confirmed(m) /\ media'[m] = media[m]
    BY DEF Retire, Confirmed, NoRow
  <2> QED
    BY <2>1 DEF Core, SeqsDistinct, Confirmed
<1> QED
  BY <1>3, <1>4, <1>5, <1>6 DEF Core

\* A step that leaves the rows, the counters and the queue alone and adds only
\* well-formed requests, URLs and contents keeps every clause.
LEMMA QuietStep ==
  ASSUME Core, media' = media, nextRes' = nextRes, gen' = gen, queue' = queue,
         swept' = swept, RequestsOK', cleaning' \subseteq queue,
         urls' \subseteq [key : [Assets -> Key], data : [Assets -> Data]],
         objects' \in [Key -> Data \cup {NoData}]
  PROVE  Core'
<1>1. RowsOK'
  BY DEF Core, RowsOK
<1>2. StoreOK'
  BY DEF Core, StoreOK, Key
<1>3. SeqsDistinct'
  BY DEF Core, SeqsDistinct, Confirmed
<1> QED
  BY <1>1, <1>2, <1>3 DEF Core

\* A request of one of the shapes the handlers build.
LEMMA RequestShapes ==
  ASSUME RequestsOK, NEW q \in requests
  PROVE  /\ q.op = "reserve" => q \in ReserveRequest
         /\ q.op = "delete" => q \in DeleteRequest
         /\ q.op \notin {"reserve", "delete"} => q \in RowRequest
BY DEF RequestsOK, ReserveRequest, DeleteRequest, RowRequest

\* The reservation transaction.
LEMMA ReserveStep ==
  ASSUME Core, NEW q \in requests, ReserveUploadRow(q)
  PROVE  Core'
<1> DEFINE res == nextRes + 1
           key == KeysFor(res, q.m, q.data)
           new == [st |-> "pending", by |-> q.by, epoch |-> q.e,
                   data |-> q.data, key |-> key, res |-> res, seq |-> 0]
           ask == [op |-> "presign", by |-> q.by, m |-> q.m,
                   data |-> q.data, key |-> key, res |-> res]
<1> USE MediaBoundsNat
<1>1. q \in ReserveRequest
  BY RequestShapes DEF Core, ReserveUploadRow
<1>2. CASE requests' = requests \ {q} /\ UNCHANGED <<media, queue, nextRes>>
  <2>1. RequestsOK'
    BY <1>2 DEF Core, RequestsOK
  <2> QED
    BY <1>2, <2>1, QuietStep DEF Core, StoreOK, ReserveUploadRow
<1>3. CASE /\ ~Confirmed(q.m)
           /\ res <= MaxRes
           /\ media' = [media EXCEPT ![q.m] = new]
           /\ queue' = queue \cup DroppedKeys(q.m, key)
           /\ requests' = (requests \ {q}) \cup {ask}
           /\ nextRes' = res
  <2>0. q.m \in MediaIds /\ q.by \in Users /\ q.e \in Epoch /\ q.data \in [Assets -> Data]
    BY <1>1 DEF ReserveRequest
  <2>1. res \in 1 .. MaxRes
    BY <1>3 DEF Core, StoreOK
  <2>2. key \in [Assets -> Key]
    <3>1. SUFFICES ASSUME NEW a \in Assets PROVE key[a] \in Key
      BY DEF KeysFor
    <3>2. CASE KeepsKey(q.m, a, q.data)
      <4>1. media[q.m] \in Row
        BY <2>0, <3>2, RowFields DEF Core, KeepsKey, Pending
      <4> QED
        BY <3>2, <4>1 DEF KeysFor, Row
    <3>3. CASE ~KeepsKey(q.m, a, q.data)
      BY <3>3, <2>1 DEF KeysFor, Key
    <3> QED
      BY <3>2, <3>3
  <2>3. RowsOK'
    <3>1. new \in Row
      BY <2>0, <2>1, <2>2 DEF Row
    <3> QED
      BY <1>3, <2>0, <3>1 DEF Core, RowsOK
  <2>4. RequestsOK'
    <3>1. ask \in RowRequest
      BY <2>0, <2>1, <2>2 DEF RowRequest
    <3> QED
      BY <1>3, <3>1 DEF Core, RequestsOK
  <2>5. StoreOK'
    <3>1. KeysOf(q.m) \subseteq Key
      BY <2>0, RowFields DEF Core, KeysOf
    <3> QED
      BY <1>3, <2>1, <3>1 DEF Core, StoreOK, ReserveUploadRow, DroppedKeys, Key
  <2>6. SeqsDistinct'
    <3>1. \A m \in MediaIds : Confirmed(m)' => Confirmed(m) /\ media'[m] = media[m]
      BY <1>3, <2>0 DEF Core, RowsOK, Confirmed
    <3>2. gen' = gen
      BY DEF ReserveUploadRow
    <3> QED
      BY <3>1, <3>2 DEF Core, SeqsDistinct, Confirmed
  <2> QED
    BY <2>3, <2>4, <2>5, <2>6 DEF Core
<1> QED
  BY <1>2, <1>3 DEF ReserveUploadRow

\* Editing the two columns a confirmation writes keeps a row a row.
LEMMA ConfirmedRow ==
  ASSUME NEW row \in Row, NEW n \in Nat
  PROVE  /\ [row EXCEPT !.st = "confirmed"] \in Row
         /\ [row EXCEPT !.seq = n] \in Row
BY DEF Row

\* The confirmation transaction: the stamped sequence is new.
LEMMA ConfirmStep ==
  ASSUME Core, NEW q \in requests, MarkConfirmed(q)
  PROVE  Core'
<1>1. q.m \in MediaIds
  BY RequestShapes DEF Core, MarkConfirmed, RowRequest
<1>2. RequestsOK'
  BY DEF Core, RequestsOK, MarkConfirmed
<1>3. CASE UNCHANGED <<media, gen>>
  BY <1>2, <1>3, QuietStep DEF Core, StoreOK, MarkConfirmed
<1>4. CASE /\ SameReservation(q.m, q.res)
           /\ media' = [media EXCEPT ![q.m].st = "confirmed", ![q.m].seq = NextSeq]
           /\ gen' = gen + 1
  <2>0. gen \in Nat
    BY DEF Core, StoreOK
  <2>1. media[q.m] \in Row
    BY <1>1, <1>4, RowFields DEF Core, SameReservation, Pending
  <2>2. media' = [media EXCEPT ![q.m] =
                    [[media[q.m] EXCEPT !.st = "confirmed"] EXCEPT !.seq = gen + 1]]
    BY <1>1, <1>4, <2>1 DEF NextSeq, Core, RowsOK, Row
  <2>3. RowsOK'
    <3>1. [media[q.m] EXCEPT !.st = "confirmed"] \in Row
      BY <2>0, <2>1, ConfirmedRow
    <3>2. [[media[q.m] EXCEPT !.st = "confirmed"] EXCEPT !.seq = gen + 1] \in Row
      <4>1. gen + 1 \in Nat
        BY <2>0
      <4> QED
        BY <3>1, <4>1, ConfirmedRow
    <3> QED
      BY <1>1, <2>2, <3>2 DEF Core, RowsOK
  <2>4. StoreOK'
    BY <1>4 DEF Core, StoreOK, MarkConfirmed, Key
  <2>5. /\ media'[q.m].seq = gen + 1
        /\ \A m \in MediaIds : m # q.m => media'[m] = media[m]
    BY <1>1, <2>1, <2>2 DEF Core, RowsOK, Row
  <2>6. SeqsDistinct'
    <3>1. \A m \in MediaIds \ {q.m} : Confirmed(m)' => Confirmed(m) /\ media[m].seq \in 1 .. gen
      BY <2>5 DEF Core, SeqsDistinct, Confirmed
    <3>2. \A m \in MediaIds : Confirmed(m)' => media'[m].seq \in 1 .. gen'
      <4>1. SUFFICES ASSUME NEW m \in MediaIds, Confirmed(m)'
                     PROVE  media'[m].seq \in 1 .. gen + 1
        BY <1>4
      <4>2. 1 .. gen \subseteq 1 .. gen + 1 /\ gen + 1 \in 1 .. gen + 1
        BY <2>0
      <4> QED
        BY <2>5, <3>1, <4>1, <4>2
    <3>3. \A m \in MediaIds \ {q.m} : Confirmed(m)' => media'[m].seq # media'[q.m].seq
      <4>1. \A n \in 1 .. gen : n # gen + 1
        BY <2>0
      <4> QED
        BY <2>5, <3>1, <4>1
    <3>4. \A m, n \in MediaIds \ {q.m} :
             (m # n /\ Confirmed(m)' /\ Confirmed(n)') => media'[m].seq # media'[n].seq
      BY <2>5, <3>1 DEF Core, SeqsDistinct
    <3> QED
      BY <3>2, <3>3, <3>4 DEF SeqsDistinct, Confirmed
  <2> QED
    BY <1>2, <2>3, <2>4, <2>6 DEF Core
<1> QED
  BY <1>3, <1>4 DEF MarkConfirmed

\* What a handler read of a row is of the row's types.
LEMMA ReadStep ==
  ASSUME Core, NEW u \in Users, NEW m \in MediaIds, NEW op, ReadRow(u, m, op)
  PROVE  Core'
<1>1. media[m] \in Row
  BY RowFields DEF Core, ReadRow, Pending
<1>2. RequestsOK'
  BY <1>1 DEF Core, RequestsOK, ReadRow, Begin, Row, RowRequest
<1> QED
  BY <1>2, QuietStep DEF Core, StoreOK, ReadRow

\* The steps of the handlers.
LEMMA RequestStepCore ==
  ASSUME Core, RequestStep
  PROVE  Core'
<1>1. ASSUME NEW u \in Users, NEW m \in MediaIds, NEW e \in Epoch,
             NEW data \in [Assets -> Data], RequestUploadURL(u, m, e, data)
      PROVE  Core'
  <2>1. RequestsOK'
    BY <1>1 DEF Core, RequestsOK, RequestUploadURL, Begin, ReserveRequest
  <2> QED
    BY <1>1, <2>1, QuietStep DEF Core, StoreOK, RequestUploadURL
<1>2. ASSUME NEW u \in Users, NEW m \in MediaIds, NEW op \in {"confirm", "abort"},
             ReadRow(u, m, op)
      PROVE  Core'
  BY <1>2, ReadStep
<1>3. ASSUME NEW q \in requests, ReserveUploadRow(q) PROVE Core'
  BY <1>3, ReserveStep
<1>4. ASSUME NEW q \in requests, Presign(q) PROVE Core'
  <2>1. q \in RowRequest
    BY <1>4, RequestShapes DEF Core, Presign
  <2>2. CASE Retire({m \in {q.m} : SameReservation(m, q.res)}) /\ UNCHANGED urls
    BY <1>4, <2>1, <2>2, RetireStep DEF Presign, RowRequest
  <2>3. CASE urls' = urls \cup {[key |-> q.key, data |-> q.data]} /\ UNCHANGED <<media, queue>>
    <3>1. RequestsOK'
      BY <1>4 DEF Core, RequestsOK, Presign
    <3> QED
      BY <1>4, <2>1, <2>3, <3>1, QuietStep DEF Core, StoreOK, Presign, RowRequest
  <2> QED
    BY <1>4, <2>2, <2>3 DEF Presign
<1>5. ASSUME NEW q \in requests, HeadObject(q) PROVE Core'
  <2>1. q \in RowRequest
    BY <1>5, RequestShapes DEF Core, HeadObject
  <2>2. CASE /\ requests' = requests \ {q}
             /\ Retire({m \in {q.m} : SameReservation(m, q.res)})
    BY <1>5, <2>1, <2>2, RetireStep DEF HeadObject, RowRequest
  <2>3. CASE /\ \/ requests' = requests \ {q}
                \/ requests' = (requests \ {q}) \cup {[q EXCEPT !.op = "checked"]}
             /\ UNCHANGED <<media, queue>>
    <3>1. [q EXCEPT !.op = "checked"] \in RowRequest
      BY <2>1 DEF RowRequest
    <3>2. RequestsOK'
      BY <2>3, <3>1 DEF Core, RequestsOK
    <3> QED
      BY <1>5, <2>3, <3>2, QuietStep DEF Core, StoreOK, HeadObject
  <2> QED
    BY <1>5, <2>2, <2>3 DEF HeadObject
<1>6. ASSUME NEW q \in requests, MarkConfirmed(q) PROVE Core'
  BY <1>6, ConfirmStep
<1>7. ASSUME NEW q \in requests, AbortPendingUpload(q) PROVE Core'
  <2>1. q \in RowRequest
    BY <1>7, RequestShapes DEF Core, AbortPendingUpload
  <2> QED
    BY <1>7, <2>1, RetireStep DEF AbortPendingUpload, RowRequest
<1>8. ASSUME NEW q \in requests, DropRequest(q) PROVE Core'
  <2>1. RequestsOK'
    BY <1>8 DEF Core, RequestsOK, DropRequest
  <2> QED
    BY <1>8, <2>1, QuietStep DEF Core, StoreOK, DropRequest
<1>9. ASSUME NEW u \in Users, NEW m \in MediaIds, RequestDelete(u, m) PROVE Core'
  <2>1. RequestsOK'
    BY <1>9 DEF Core, RequestsOK, RequestDelete, Begin, DeleteRequest
  <2> QED
    BY <1>9, <2>1, QuietStep DEF Core, StoreOK, RequestDelete
<1>10. ASSUME NEW q \in requests, DeleteOwnedMedia(q) PROVE Core'
  <2>1. q \in DeleteRequest
    BY <1>10, RequestShapes DEF Core, DeleteOwnedMedia
  <2> QED
    BY <1>10, <2>1, RetireStep DEF DeleteOwnedMedia, DeleteRequest
<1> QED
  BY <1>1, <1>2, <1>3, <1>4, <1>5, <1>6, <1>7, <1>8, <1>9, <1>10 DEF RequestStep

\* The steps of clients' transfers, the sweep and the cleaner.
LEMMA StorageStepCore ==
  ASSUME Core, StorageStep
  PROVE  Core'
<1>1. ASSUME NEW url \in urls, NEW a \in Assets, PutObject(url, a) PROVE Core'
  <2>1. url.key[a] \in Key /\ url.data[a] \in Data
    BY DEF Core, StoreOK
  <2>2. objects' \in [Key -> Data \cup {NoData}]
    BY <1>1, <2>1 DEF Core, StoreOK, PutObject
  <2>3. RequestsOK'
    BY <1>1 DEF Core, RequestsOK, PutObject
  <2> QED
    BY <1>1, <2>2, <2>3, QuietStep DEF Core, StoreOK, PutObject
<1>2. ASSUME NEW url \in urls, ExpireURL(url) PROVE Core'
  <2>1. RequestsOK'
    BY <1>2 DEF Core, RequestsOK, ExpireURL
  <2> QED
    BY <1>2, <2>1, QuietStep DEF Core, StoreOK, ExpireURL
<1>3. ASSUME NEW m \in MediaIds, SweepStale(m) PROVE Core'
  BY <1>3, RetireStep DEF SweepStale, KeysOfAll
<1>4. ASSUME NEW k \in Key, DeleteObject(k) PROVE Core'
  <2>1. RequestsOK'
    BY <1>4 DEF Core, RequestsOK, DeleteObject
  <2>2. objects' \in [Key -> Data \cup {NoData}]
    BY <1>4 DEF Core, StoreOK, DeleteObject
  <2> QED
    BY <1>4, <2>1, <2>2, QuietStep DEF Core, StoreOK, DeleteObject
<1>5. ASSUME NEW k \in Key, AckCleanup(k) PROVE Core'
  BY <1>5 DEF Core, RowsOK, RequestsOK, StoreOK, SeqsDistinct, Confirmed, AckCleanup, Key
<1>6. ASSUME NEW k \in Key, CleanupFails(k) PROVE Core'
  <2>1. RequestsOK'
    BY <1>6 DEF Core, RequestsOK, CleanupFails
  <2> QED
    BY <1>6, <2>1, QuietStep DEF Core, StoreOK, CleanupFails
<1> QED
  BY <1>1, <1>2, <1>3, <1>4, <1>5, <1>6 DEF StorageStep

\* Every step of the composition.
LEMMA CoreStep == Core /\ [MediaNext]_vars => Core'
<1> SUFFICES ASSUME Core, [MediaNext]_vars PROVE Core'
  OBVIOUS
<1>1. CASE UNCHANGED mediaVars
  <2>1. RequestsOK'
    BY <1>1 DEF Core, RequestsOK, mediaVars
  <2> QED
    BY <1>1, <2>1, QuietStep DEF Core, StoreOK, mediaVars
<1>2. CASE /\ RemovingAlbumStep
           /\ UNCHANGED <<nextRes, gen, requests, urls, objects, cleaning, swept>>
  BY <1>2, RetireStep DEF RemovingAlbumStep
<1>3. CASE RequestStep
  BY <1>3, RequestStepCore
<1>4. CASE StorageStep
  BY <1>4, StorageStepCore
<1> QED
  BY <1>1, <1>2, <1>3, <1>4 DEF MediaNext, vars, mediaVars

\* The rows, requests and object keys stay well typed and no two published
\* media ever carry the same album_seq (MarkConfirmed's generation stamp).
THEOREM MediaTypes == MediaSpec => []MediaTypeOK
<1>1. Init /\ MediaInit => MediaTypeOK
  BY MediaBoundsNat DEF MediaInit, MediaTypeOK, RowsOK, RequestsOK, StoreOK,
     SeqsDistinct, Confirmed, NoRow
<1>2. MediaTypeOK /\ [MediaNext]_vars => MediaTypeOK'
  <2> SUFFICES ASSUME MediaTypeOK, [MediaNext]_vars PROVE MediaTypeOK'
    OBVIOUS
  <2>1. Core'
    BY CoreStep DEF Core, MediaTypeOK
  <2>2. Active' \subseteq Users
    BY DEF Active, Member
  <2>3. (audience \in [MediaIds -> SUBSET Users])'
    BY <2>2 DEF MediaTypeOK, MediaNext, vars
  <2> QED
    BY <2>1, <2>3 DEF Core, MediaTypeOK
<1> QED
  BY <1>1, <1>2, PTL DEF MediaSpec

-----------------------------------------------------------------------------
(***************************************************************************)
(* Publication and membership.                                             *)
(***************************************************************************)

\* A row is published only by MarkConfirmed: under the open gate, in the
\* current epoch, without a change of the roster.
PublishedNow(m) ==
    /\ Pending(m) /\ media'[m].epoch = media[m].epoch /\ media'[m].by = media[m].by
    /\ album = "live" /\ MayPublish(media[m].epoch)
    /\ UNCHANGED keyVars

\* A published row was published before or is published by this step.
LEMMA PublishedStep ==
  ASSUME MediaTypeOK, [MediaNext]_vars, NEW m \in MediaIds, Confirmed(m)'
  PROVE  \/ Confirmed(m) /\ media'[m] = media[m]
         \/ PublishedNow(m)
<1>1. RowsOK
  BY DEF MediaTypeOK
<1>2. ASSUME NEW S, Retire(S)
      PROVE  Confirmed(m) /\ media'[m] = media[m]
  BY <1>2 DEF Retire, Confirmed, NoRow
<1>3. CASE media' = media
  BY <1>3 DEF Confirmed
<1>4. CASE RemovingAlbumStep
  BY <1>2, <1>4 DEF RemovingAlbumStep
<1>5. CASE RequestStep /\ UNCHANGED keyVars
  <2>1. ASSUME NEW q \in requests, ReserveUploadRow(q)
        PROVE  Confirmed(m) /\ media'[m] = media[m]
    BY <1>1, <2>1 DEF ReserveUploadRow, Confirmed, RowsOK
  <2>2. ASSUME NEW q \in requests, MarkConfirmed(q)
        PROVE  \/ Confirmed(m) /\ media'[m] = media[m]
               \/ PublishedNow(m)
    BY <1>1, <1>5, <2>2
    DEF MarkConfirmed, Confirmed, Pending, SameReservation, RowsOK, Row, NoRow, PublishedNow
  <2> QED
    BY <1>2, <1>3, <1>5, <2>1, <2>2
    DEF RequestStep, RequestUploadURL, Presign, ReadRow, HeadObject,
        AbortPendingUpload, DropRequest, RequestDelete, DeleteOwnedMedia
<1>6. CASE StorageStep
  BY <1>2, <1>3, <1>6
  DEF StorageStep, PutObject, ExpireURL, SweepStale, DeleteObject, AckCleanup, CleanupFails
<1> QED
  BY <1>3, <1>4, <1>5, <1>6 DEF MediaNext, vars, mediaVars

\* Only members of the moment are handed keys.
LEMMA HoldersGrow ==
  ASSUME TypeOK, [Next]_keyVars, NEW e \in Epoch
  PROVE  holders'[e] \subseteq holders[e] \cup Active'
<1>1. ASSUME NEW u \in Users, NEW x \in Epoch, NEW R \in SUBSET Users, InsertEpoch(u, x, R)
      PROVE  holders'[e] \subseteq holders[e] \cup Active'
  BY <1>1 DEF InsertEpoch, CoversActiveSet, TypeOK, Active, Member
<1>2. ASSUME NEW p \in Users, NEW t \in Users, NEW last \in Epoch, DeliverMember(p, t, last)
      PROVE  holders'[e] \subseteq holders[e] \cup Active'
  BY <1>2 DEF DeliverMember, TypeOK, Active, Member
<1>3. CASE holders' = holders
  BY <1>3
<1> QED
  BY <1>1, <1>2, <1>3
  DEF Next, keyVars, CreateWithAdmin, RemoveMember, RevokeMemberTx, DeleteAlbum,
      RemoveAlbum, AcceptDeletion, RemoveMembership, Sever, FinishAccount

\* The key of a published photo reaches members only: the gate re-read by
\* MarkConfirmed under the album lock is what makes it so (FreezeSound).
THEOREM MediaPublishedToMembersOnly == MediaSpec => []PublishedToMembersOnly
<1>1. Init /\ MediaInit => PublishedToMembersOnly
  BY DEF MediaInit, PublishedToMembersOnly, Confirmed, NoRow
<1>2. TypeOK /\ FreezeSound /\ MediaTypeOK /\ PublishedToMembersOnly /\ [MediaNext]_vars
        => PublishedToMembersOnly'
  <2> SUFFICES ASSUME TypeOK, FreezeSound, MediaTypeOK, PublishedToMembersOnly,
                      [MediaNext]_vars, NEW m \in MediaIds, Confirmed(m)'
               PROVE  (holders[media[m].epoch])' \subseteq audience'[m]
    BY DEF PublishedToMembersOnly
  <2>1. CASE UNCHANGED vars
    BY <2>1 DEF vars, keyVars, mediaVars, PublishedToMembersOnly, Confirmed
  <2>2. CASE MediaNext
    <3>1. audience'[m] = audience[m] \cup Active'
      BY <2>2 DEF MediaNext, Confirmed
    <3>2. CASE Confirmed(m) /\ media'[m] = media[m]
      <4>1. media[m].epoch \in Epoch
        BY <3>2, RowFields DEF MediaTypeOK, Confirmed, Row
      <4> QED
        BY <3>1, <3>2, <4>1, HoldersGrow, MediaStepIsKeysStep DEF PublishedToMembersOnly
    <3>3. CASE PublishedNow(m)
      <4>1. media[m].epoch = cur /\ media[m].epoch \in Epoch
        BY <3>3, RowFields DEF PublishedNow, MayPublish, MediaTypeOK, Pending, Row
      <4>2. holders[cur] = Active
        BY <3>3, <4>1, MaxEpochNat DEF PublishedNow, MayPublish, FreezeSound, Epoch
      <4>3. holders' = holders /\ Active' = Active /\ media'[m].epoch = media[m].epoch
        BY <3>3 DEF PublishedNow, keyVars, Active, Member
      <4> QED
        BY <3>1, <4>1, <4>2, <4>3
    <3> QED
      BY <3>2, <3>3, PublishedStep
  <2> QED
    BY <2>1, <2>2
<1> QED
  BY <1>1, <1>2, MediaImplementsKeys, KeysTypeOK, KeysFreezeSound, MediaTypes, PTL
  DEF MediaSpec

\* Nobody holds the key of an epoch the album has not reached.
NoFutureKeys == album # "gone" => \A e \in Epoch : e > cur => holders[e] = {}

\* While the gate is open, whoever reserved, or asked to reserve, in the
\* current epoch is still a member: a departure would have closed the gate,
\* and only a later epoch reopens it.
Owners ==
    album = "live" =>
      /\ \A q \in requests : q.op = "reserve" =>
            q.e <= cur /\ ((q.e = cur /\ ~rotationRequired) => q.by \in Active)
      /\ \A m \in MediaIds : Pending(m) =>
            /\ media[m].epoch <= cur
            /\ (media[m].epoch = cur /\ ~rotationRequired) => media[m].by \in Active

\* Before the album exists nothing is published or asked for.
NothingBefore == album = "none" => requests = {} /\ \A m \in MediaIds : ~Pending(m)

\* Keys are handed out for the epochs that exist.
LEMMA NoFutureKeysStep ==
  ASSUME IInv, NoFutureKeys, [Next]_keyVars
  PROVE  NoFutureKeys'
<1> USE MaxEpochNat
<1>1. ASSUME NEW u \in Users, CreateWithAdmin(u) PROVE NoFutureKeys'
  BY <1>1 DEF CreateWithAdmin, NoFutureKeys
<1>2. ASSUME NEW u \in Users, NEW x \in Epoch, NEW R \in SUBSET Users, InsertEpoch(u, x, R)
      PROVE  NoFutureKeys'
  BY <1>2 DEF InsertEpoch, NoFutureKeys, IInv, TypeOK, Epoch
<1>3. ASSUME NEW p \in Users, NEW t \in Users, NEW last \in Epoch, DeliverMember(p, t, last)
      PROVE  NoFutureKeys'
  BY <1>3 DEF DeliverMember, Envelopes, EnvelopesReachCurrent, NoFutureKeys, IInv, TypeOK, Epoch
<1>4. CASE album' = "gone"
  BY <1>4 DEF NoFutureKeys
<1>5. CASE UNCHANGED <<album, cur, holders>>
  BY <1>5 DEF NoFutureKeys
<1> QED
  BY <1>1, <1>2, <1>3, <1>4, <1>5
  DEF Next, keyVars, RemoveMember, RevokeMemberTx, DeleteAlbum,
      RemoveAlbum, AcceptDeletion, RemoveMembership, Sever, FinishAccount

\* What an album step does to the gate: it creates or ends the album, opens a
\* later epoch, closes the gate, or loses no active member.
LEMMA GateMoves ==
  ASSUME IInv, [Next]_keyVars, album' = "live"
  PROVE  \/ album = "none" /\ cur' = -1
         \/ album = "live" /\ cur' = cur + 1
         \/ album = "live" /\ cur' = cur /\ rotationRequired'
         \/ /\ album = "live" /\ cur' = cur /\ rotationRequired' = rotationRequired
            /\ Active \subseteq Active'
<1>1. ASSUME NEW u \in Users, CreateWithAdmin(u)
      PROVE  album = "none" /\ cur' = -1
  BY <1>1 DEF CreateWithAdmin, IInv, NoRowsInv
<1>2. ASSUME NEW u \in Users, NEW x \in Epoch, NEW R \in SUBSET Users, InsertEpoch(u, x, R)
      PROVE  album = "live" /\ cur' = cur + 1
  BY <1>2 DEF InsertEpoch
<1> DEFINE Lossless == /\ album = "live" /\ cur' = cur /\ rotationRequired' = rotationRequired
                       /\ Active \subseteq Active'
<1>3. ASSUME NEW p \in Users, NEW t \in Users, NEW last \in Epoch, DeliverMember(p, t, last)
      PROVE  Lossless
  BY <1>3 DEF DeliverMember, Envelopes, IInv, TypeOK, Active, Member
<1>4. ASSUME NEW r \in revoking, RevokeMemberTx(r)
      PROVE  Lossless \/ (album = "live" /\ cur' = cur /\ rotationRequired')
  BY <1>4 DEF RevokeMemberTx, DebtAfterDeparture, Active, Member
<1>5. ASSUME NEW u \in Users, RemoveMembership(u)
      PROVE  Lossless \/ (album = "live" /\ cur' = cur /\ rotationRequired')
  <2>1. CASE Outcome(u) \in {"delete_album", "delete_shared"} /\ RemoveAlbum
    BY <2>1 DEF RemoveAlbum
  <2>2. CASE Outcome(u) = "leave" /\ Sever(u) /\ rotationRequired' = DebtAfterDeparture
    BY <1>5, <2>2 DEF RemoveMembership, Sever, DebtAfterDeparture
  <2>3. CASE Outcome(u) = "erase" /\ Sever(u) /\ UNCHANGED rotationRequired
    <3>1. u \notin Active
      BY <2>3 DEF Outcome
    <3> QED
      BY <1>5, <2>3, <3>1 DEF RemoveMembership, Sever, IInv, TypeOK, Active, Member
  <2> QED
    BY <1>5, <2>1, <2>2, <2>3 DEF RemoveMembership
<1>6. CASE UNCHANGED <<album, role, revoked, cur, rotationRequired>>
  <2>1. album = "live"
    BY <1>6
  <2> QED
    BY <1>6, <2>1 DEF Active, Member
<1> QED
  BY <1>1, <1>2, <1>3, <1>4, <1>5, <1>6
  DEF Next, keyVars, RemoveMember, DeleteAlbum, RemoveAlbum, AcceptDeletion, FinishAccount

\* A step that adds neither a reserve request nor a pending row.
LEMMA OwnersKept ==
  ASSUME IInv, MediaTypeOK, Owners, [Next]_keyVars,
         \A q \in requests' : q.op = "reserve" => q \in requests,
         \A m \in MediaIds : Pending(m)' => Pending(m) /\ media'[m] = media[m],
         NothingBefore
  PROVE  Owners'
<1> USE MaxEpochNat
<1> SUFFICES ASSUME album' = "live" PROVE Owners'
  BY DEF Owners
<1>1. \A q \in requests : q.op = "reserve" => q.e \in Int
  BY RequestShapes DEF MediaTypeOK, ReserveRequest, Epoch
<1>2. \A m \in MediaIds : Pending(m) => media[m].epoch \in Int
  BY RowFields DEF MediaTypeOK, Pending, Row, Epoch
<1>3. cur \in Int /\ rotationRequired \in BOOLEAN
  BY DEF IInv, TypeOK, Epoch
<1>4. CASE album = "none"
  BY <1>4 DEF Owners, NothingBefore
<1>5. CASE album = "live" /\ cur' = cur + 1
  BY <1>1, <1>2, <1>3, <1>5 DEF Owners, Pending
<1>6. CASE album = "live" /\ cur' = cur /\ rotationRequired'
  BY <1>6 DEF Owners, Pending
<1>7. CASE /\ album = "live" /\ cur' = cur /\ rotationRequired' = rotationRequired
           /\ Active \subseteq Active'
  BY <1>7 DEF Owners, Pending
<1> QED
  BY <1>4, <1>5, <1>6, <1>7, GateMoves

\* Retiring rows leaves the other pending rows as they are.
LEMMA RetireKeeps ==
  ASSUME NEW S, Retire(S), NEW m \in MediaIds, Pending(m)'
  PROVE  Pending(m) /\ media'[m] = media[m]
BY DEF Retire, Pending, NoRow

\* Only Gate lets a request in, only ReserveUploadRow makes a pending row.
LEMMA OwnersStep ==
  ASSUME IInv, MediaTypeOK, NoFutureKeys, NothingBefore, Owners, [MediaNext]_vars
  PROVE  Owners' /\ NothingBefore'
<1> USE MaxEpochNat
<1> DEFINE Kept == /\ \A q \in requests' : q.op = "reserve" => q \in requests
                   /\ \A m \in MediaIds : Pending(m)' => Pending(m) /\ media'[m] = media[m]
<1>0. [Next]_keyVars
  BY MediaStepIsKeysStep
<1>1. ASSUME Kept PROVE Owners'
  BY <1>0, <1>1, OwnersKept
<1>2. CASE UNCHANGED mediaVars
  <2>1. Kept
    BY <1>2 DEF mediaVars, Pending
  <2>2. album' = "none" => album = "none"
    BY <1>0 DEF Next, keyVars, CreateWithAdmin, InsertEpoch, DeliverMember, RemoveMember,
       RevokeMemberTx, DeleteAlbum, RemoveAlbum, AcceptDeletion, RemoveMembership, Sever,
       FinishAccount
  <2> QED
    BY <1>1, <1>2, <2>1, <2>2 DEF mediaVars, NothingBefore, Pending
<1>3. CASE RemovingAlbumStep /\ UNCHANGED requests
  <2>1. Kept
    BY <1>3, RetireKeeps DEF RemovingAlbumStep
  <2>2. album' # "none"
    BY <1>3 DEF RemovingAlbumStep, DeleteAlbum, RemoveMembership, RemoveAlbum, Sever
  <2> QED
    BY <1>1, <2>1, <2>2 DEF NothingBefore
<1>4. CASE RequestStep /\ UNCHANGED keyVars
  <2>0. Active' = Active /\ album' = album /\ cur' = cur /\ rotationRequired' = rotationRequired
    BY <1>4 DEF keyVars, Active, Member
  <2>1. ASSUME NEW u \in Users, NEW m \in MediaIds, NEW e \in Epoch,
               NEW data \in [Assets -> Data], RequestUploadURL(u, m, e, data)
        PROVE  Owners' /\ NothingBefore'
    <3>1. u \in Active /\ album = "live"
      BY <2>1 DEF RequestUploadURL, Gate
    <3>2. e <= cur
      BY <2>1, <3>1 DEF RequestUploadURL, NoFutureKeys, IInv, TypeOK, Epoch
    <3> QED
      BY <2>0, <2>1, <3>1, <3>2 DEF RequestUploadURL, Begin, Owners, NothingBefore, Pending
  <2>2. ASSUME NEW q \in requests, ReserveUploadRow(q)
        PROVE  Owners' /\ NothingBefore'
    <3>1. album # "none"
      BY DEF NothingBefore
    <3>2. RowsOK
      BY DEF MediaTypeOK
    <3> QED
      BY <2>0, <2>2, <3>1, <3>2
      DEF ReserveUploadRow, Owners, NothingBefore, Pending, RowsOK
  <2>3. ASSUME Kept, requests # {} \/ album = "live" PROVE Owners' /\ NothingBefore'
    BY <1>1, <2>0, <2>3 DEF NothingBefore
  <2>4. ASSUME NEW q \in requests, MarkConfirmed(q) PROVE Kept
    <3>1. RowsOK
      BY DEF MediaTypeOK
    <3> QED
      BY <2>4, <3>1 DEF MarkConfirmed, Pending, RowsOK, SameReservation, Row, NoRow
  <2>5. ASSUME NEW u \in Users, NEW m \in MediaIds, NEW op, ReadRow(u, m, op)
        PROVE  Kept /\ album = "live"
    BY <2>5 DEF ReadRow, Gate, Begin, Pending
  <2>6. ASSUME NEW u \in Users, NEW m \in MediaIds, RequestDelete(u, m)
        PROVE  Kept /\ album = "live"
    BY <2>6 DEF RequestDelete, Gate, Begin, Pending
  <2>7. ASSUME NEW q \in requests, Presign(q) \/ AbortPendingUpload(q) \/ DropRequest(q)
                                   \/ DeleteOwnedMedia(q)
        PROVE  Kept
    BY <2>7, RetireKeeps
    DEF Presign, AbortPendingUpload, DropRequest, DeleteOwnedMedia, Pending
  <2>8. ASSUME NEW q \in requests, HeadObject(q) PROVE Kept
    <3>1. q \in RowRequest
      BY <2>8, RequestShapes DEF HeadObject, MediaTypeOK
    <3>2. [q EXCEPT !.op = "checked"].op = "checked"
      BY <3>1 DEF RowRequest
    <3> QED
      BY <2>8, <3>2, RetireKeeps DEF HeadObject, Pending
  <2> QED
    BY <1>4, <2>1, <2>2, <2>3, <2>4, <2>5, <2>6, <2>7, <2>8 DEF RequestStep
<1>5. CASE StorageStep /\ UNCHANGED keyVars
  <2>1. Kept /\ requests' = requests
    BY <1>5, RetireKeeps
    DEF StorageStep, PutObject, ExpireURL, SweepStale, DeleteObject, AckCleanup,
        CleanupFails, Pending
  <2>2. album' = album
    BY <1>5 DEF keyVars
  <2> QED
    BY <1>1, <2>1, <2>2 DEF NothingBefore
<1> QED
  BY <1>2, <1>3, <1>4, <1>5 DEF MediaNext, vars

\* Neither the reservation nor the confirmation looks the membership up under
\* the lock, yet whoever publishes is an active member at that moment.
THEOREM MediaPublishedByMember == MediaSpec => PublishedByMember
<1> DEFINE Inv == NoFutureKeys /\ NothingBefore /\ Owners
<1>1. Init /\ MediaInit => Inv
  BY DEF Init, MediaInit, NoFutureKeys, NothingBefore, Owners, Pending, NoRow
<1>2. IInv /\ MediaTypeOK /\ Inv /\ [MediaNext]_vars => Inv'
  BY OwnersStep, NoFutureKeysStep, MediaStepIsKeysStep
<1>3. IInv /\ MediaTypeOK /\ Inv /\ [MediaNext]_vars =>
        [\A m \in MediaIds : (~Confirmed(m) /\ Confirmed(m)') => media[m].by \in Active]_vars
  <2> SUFFICES ASSUME MediaTypeOK, Owners, [MediaNext]_vars, NEW m \in MediaIds,
                      ~Confirmed(m), Confirmed(m)'
               PROVE  media[m].by \in Active
    OBVIOUS
  <2>1. PublishedNow(m)
    BY PublishedStep
  <2> QED
    BY <2>1 DEF PublishedNow, MayPublish, RotationRequired, Owners
<1> QED
  BY <1>1, <1>2, <1>3, MediaImplementsKeys, KeysInvariant, MediaTypes, PTL
  DEF MediaSpec, PublishedByMember

-----------------------------------------------------------------------------
(***************************************************************************)
(* Published photos stay stored, swept uploads stay gone.                  *)
(***************************************************************************)

\* Requests that carry a reservation: its id, keys and contents.
Carries(q) == q.op \notin {"reserve", "delete"}

\* Reservations are numbered in order and name the keys they mint, one for
\* each asset; what is queued or swept was minted by one of them.
KeysMinted ==
    /\ \A m \in Rows : /\ media[m].res <= nextRes
                       /\ \A a \in Assets : media[m].key[a] \in (1 .. nextRes) \X {a}
    /\ \A q \in requests : Carries(q) =>
          /\ q.res <= nextRes
          /\ \A a \in Assets : q.key[a] \in (1 .. nextRes) \X {a}
    /\ \A url \in urls, a \in Assets : url.key[a] \in (1 .. nextRes) \X {a}
    /\ queue \cup swept \subseteq (1 .. nextRes) \X Assets

\* A key belongs to one row, and to none once it is queued or swept.
KeysOwned ==
    \A m \in Rows, a \in Assets :
        /\ media[m].key[a] \notin queue \cup swept
        /\ \A n \in Rows : media[m].key[a] = media[n].key[a] => m = n

\* A retry keeps a key only for the bytes it was minted for, so whatever
\* request or URL has a row's key has that row's content.
KeyMeansContent ==
    \A m \in Rows, a \in Assets :
        /\ \A q \in requests : Carries(q) /\ q.key[a] = media[m].key[a]
              => q.data[a] = media[m].data[a]
        /\ \A url \in urls : url.key[a] = media[m].key[a]
              => url.data[a] = media[m].data[a]

\* The reservation a request read: the keys and contents are still the row's,
\* and what was checked is still there.
ReservationHolds ==
    \A q \in requests :
        Carries(q) /\ q.m \in Rows /\ media[q.m].res = q.res
            => /\ q.key = media[q.m].key /\ q.data = media[q.m].data
               /\ q.op = "checked" => \A a \in Assets : objects[q.key[a]] = q.data[a]

\* No URL is or will be signed for a swept key, so its deletion is final.
SweptForgotten ==
    /\ \A url \in urls, a \in Assets : url.key[a] \notin swept
    /\ \A q \in requests : q.op = "presign" => \A a \in Assets : q.key[a] \notin swept
    /\ \A k \in swept : k \in queue \ cleaning \/ objects[k] = NoData

StorageInv == Core /\ KeysMinted /\ KeysOwned /\ KeyMeansContent /\ ReservationHolds
              /\ ConfirmedStored /\ SweptForgotten

\* A row that exists is a row, with keys of its own.
LEMMA StoredRow ==
  ASSUME Core, NEW m \in Rows
  PROVE  /\ m \in MediaIds /\ media[m] \in Row
         /\ \A a \in Assets : media[m].key[a] \in Key /\ media[m].data[a] \in Data
         /\ KeysOf(m) = {media[m].key[a] : a \in Assets}
<1>1. m \in MediaIds /\ media[m].st # "none"
  BY DEF Rows
<1>2. media[m] \in Row
  BY <1>1, RowFields DEF Core
<1> QED
  BY <1>1, <1>2 DEF Row, KeysOf

\* The initial state.
LEMMA StorageInit == Init /\ MediaInit => StorageInv
<1> SUFFICES ASSUME MediaInit PROVE StorageInv
  OBVIOUS
<1>1. Rows = {}
  BY DEF MediaInit, Rows, NoRow
<1>2. Core
  BY MediaBoundsNat DEF MediaInit, Core, RowsOK, RequestsOK, StoreOK, SeqsDistinct, Confirmed, NoRow
<1>3. KeysMinted /\ KeysOwned /\ KeyMeansContent /\ ReservationHolds /\ SweptForgotten
  BY <1>1 DEF MediaInit, KeysMinted, KeysOwned, KeyMeansContent, ReservationHolds, SweptForgotten
<1>4. ConfirmedStored
  BY DEF MediaInit, ConfirmedStored, Confirmed, NoRow
<1> QED
  BY <1>2, <1>3, <1>4 DEF StorageInv

\* Keys tell rows and assets apart.
LEMMA KeysDiffer ==
  ASSUME KeysMinted, KeysOwned, NEW m \in Rows, NEW n \in Rows, NEW a \in Assets,
         NEW b \in Assets, media[m].key[a] = media[n].key[b]
  PROVE  m = n /\ a = b
<1>1. /\ media[m].key[a] \in (1 .. nextRes) \X {a}
      /\ media[n].key[b] \in (1 .. nextRes) \X {b}
  BY DEF KeysMinted
<1>2. a = b
  BY <1>1
<1> QED
  BY <1>2 DEF KeysOwned

\* Rows that leave the table leave their keys to the cleaner; a sweep only
\* takes keys that no URL and no request about to sign one has.
LEMMA RetireStorage ==
  ASSUME StorageInv, Core', NEW S \in SUBSET MediaIds, Retire(S), requests' \subseteq requests,
         UNCHANGED <<nextRes, urls, objects, cleaning>>,
         swept \subseteq swept', swept' \subseteq swept \cup KeysOfAll(S),
         \A url \in urls, a \in Assets : url.key[a] \notin swept' \ swept,
         \A q \in requests : q.op = "presign" => \A a \in Assets : q.key[a] \notin swept' \ swept
  PROVE  StorageInv'
<1> USE DEF StorageInv
<1>1. Rows' = Rows \ S /\ \A m \in Rows' : media'[m] = media[m]
  BY DEF Retire, Rows, NoRow
<1>2. \A k \in KeysOfAll(S) : \E m \in Rows \cap S, a \in Assets : k = media[m].key[a]
  BY DEF KeysOfAll, KeysOf, Rows
<1>3. queue' = queue \cup KeysOfAll(S)
  BY DEF Retire
<1>4. \A m \in Rows', a \in Assets : media[m].key[a] \notin KeysOfAll(S)
  BY <1>1, <1>2, KeysDiffer
<1>5. KeysOfAll(S) \subseteq (1 .. nextRes) \X Assets
  BY <1>2 DEF KeysMinted
<1>6. KeysMinted'
  <2>1. queue' \cup swept' \subseteq (1 .. nextRes) \X Assets
    BY <1>3, <1>5 DEF KeysMinted
  <2> QED
    BY <1>1, <2>1 DEF KeysMinted, Carries
<1>7. KeysOwned'
  BY <1>1, <1>3, <1>4 DEF KeysOwned
<1>8. KeyMeansContent'
  BY <1>1 DEF KeyMeansContent, Carries
<1>9. ReservationHolds'
  BY <1>1 DEF ReservationHolds, Carries
<1>10. ConfirmedStored'
  <2>1. \A m \in MediaIds : Confirmed(m)' => Confirmed(m) /\ media'[m] = media[m]
    BY DEF Retire, Confirmed, NoRow
  <2> QED
    BY <2>1 DEF ConfirmedStored
<1>11. SweptForgotten'
  <2>1. \A k \in KeysOfAll(S) : k \notin cleaning /\ k \in queue'
    BY <1>2, <1>3 DEF KeysOwned, Core, StoreOK
  <2>2. \A k \in swept' : k \in queue' \ cleaning \/ objects[k] = NoData
    BY <1>3, <2>1 DEF SweptForgotten
  <2> QED
    BY <2>2 DEF SweptForgotten
<1> QED
  BY <1>6, <1>7, <1>8, <1>9, <1>10, <1>11

\* Requests come, go on and end; what they carry is the row's.
LEMMA RequestsStorage ==
  ASSUME StorageInv, Core', UNCHANGED <<media, nextRes, urls, objects, queue, cleaning, swept>>,
         \A r \in requests' : Carries(r) /\ r \notin requests =>
            /\ r.op # "presign" /\ r.res <= nextRes
            /\ \A a \in Assets : r.key[a] \in (1 .. nextRes) \X {a}
            /\ \A m \in Rows, a \in Assets :
                  r.key[a] = media[m].key[a] => r.data[a] = media[m].data[a]
            /\ r.m \in Rows /\ media[r.m].res = r.res
                  => /\ r.key = media[r.m].key /\ r.data = media[r.m].data
                     /\ r.op = "checked" => \A a \in Assets : objects[r.key[a]] = r.data[a]
  PROVE  StorageInv'
<1> USE DEF StorageInv
<1>1. Rows' = Rows
  BY DEF Rows
<1>2. \A r : Carries(r)' <=> Carries(r)
  BY DEF Carries
<1>3. KeysMinted'
  BY <1>1, <1>2 DEF KeysMinted
<1>4. KeysOwned' /\ ConfirmedStored'
  BY <1>1 DEF KeysOwned, ConfirmedStored, Confirmed
<1>5. KeyMeansContent'
  BY <1>1, <1>2 DEF KeyMeansContent
<1>6. ReservationHolds'
  BY <1>1, <1>2 DEF ReservationHolds
<1>7. SweptForgotten'
  BY DEF SweptForgotten, Carries
<1> QED
  BY <1>3, <1>4, <1>5, <1>6, <1>7

\* The reservation: fresh keys are new, kept ones were the row's for the same
\* bytes, dropped ones are queued, and no request knows the new reservation.
LEMMA ReserveStorage ==
  ASSUME StorageInv, Core', NEW q \in requests, ReserveUploadRow(q)
  PROVE  StorageInv'
<1> DEFINE res == nextRes + 1
           key == KeysFor(res, q.m, q.data)
           new == [st |-> "pending", by |-> q.by, epoch |-> q.e,
                   data |-> q.data, key |-> key, res |-> res, seq |-> 0]
           ask == [op |-> "presign", by |-> q.by, m |-> q.m,
                   data |-> q.data, key |-> key, res |-> res]
<1> USE DEF StorageInv
<1>1. CASE requests' = requests \ {q} /\ UNCHANGED <<media, queue, nextRes>>
  BY <1>1, RequestsStorage DEF ReserveUploadRow
<1>2. CASE /\ ~Confirmed(q.m)
           /\ res <= MaxRes
           /\ media' = [media EXCEPT ![q.m] = new]
           /\ queue' = queue \cup DroppedKeys(q.m, key)
           /\ requests' = (requests \ {q}) \cup {ask}
           /\ nextRes' = res
  <2>0. q.m \in MediaIds /\ q.data \in [Assets -> Data]
    BY RequestShapes DEF Core, ReserveUploadRow, ReserveRequest
  <2>1. nextRes \in Nat /\ res = nextRes + 1 /\ res \in 1 .. res
    BY DEF Core, StoreOK
  <2>s. UNCHANGED <<urls, objects, cleaning, swept>>
    BY DEF ReserveUploadRow
  <2>2. Rows' = Rows \cup {q.m}
    BY <1>2, <2>0 DEF Rows, Core, RowsOK
  <2>3. media'[q.m] = new /\ \A m \in Rows \ {q.m} : media'[m] = media[m]
    BY <1>2, <2>0 DEF Rows, Core, RowsOK
  <2>f. /\ new.key = key /\ new.data = q.data /\ new.res = res /\ new.st = "pending"
        /\ ask.key = key /\ ask.data = q.data /\ ask.res = res /\ ask.m = q.m
        /\ ask.op = "presign" /\ Carries(ask)
    BY DEF Carries
  <2>4. \A a \in Assets :
           \/ key[a] = <<res, a>>
           \/ /\ q.m \in Rows /\ key[a] = media[q.m].key[a]
              /\ media[q.m].data[a] = q.data[a]
    BY <2>0 DEF KeysFor, KeepsKey, Pending, Rows
  <2> HIDE DEF key, new, ask
  <2>r. \A r : Carries(r)' <=> Carries(r)
    BY DEF Carries
  \* A key minted before is not a fresh one.
  <2>5. \A a \in Assets : <<res, a>> \notin (1 .. nextRes) \X Assets
    BY <2>1
  <2>6. (1 .. nextRes) \subseteq (1 .. res) /\ \A n \in Int : n <= nextRes => n <= res
    BY <2>1
  <2>7. \A a \in Assets : key[a] \in (1 .. res) \X {a}
    <3>1. \A a \in Assets : <<res, a>> \in (1 .. res) \X {a}
      BY <2>1
    <3>2. q.m \in Rows => \A a \in Assets : media[q.m].key[a] \in (1 .. nextRes) \X {a}
      BY DEF KeysMinted
    <3> QED
      BY <2>4, <2>6, <3>1, <3>2
  <2>8. KeysMinted'
    <3>1. \A m \in Rows' : /\ media'[m].res <= res
                           /\ \A a \in Assets : media'[m].key[a] \in (1 .. res) \X {a}
      <4>1. \A m \in Rows : media[m].res \in Int
        BY StoredRow DEF Row
      <4> QED
        BY <2>1, <2>2, <2>3, <2>f, <2>6, <2>7, <4>1 DEF KeysMinted
    <3>2. \A r \in requests' : Carries(r) =>
             /\ r.res <= res
             /\ \A a \in Assets : r.key[a] \in (1 .. res) \X {a}
      <4>1. \A r \in requests : Carries(r) => r.res \in Int
        BY RequestShapes DEF Core, RowRequest, Carries
      <4> QED
        BY <1>2, <2>1, <2>f, <2>6, <2>7, <4>1 DEF KeysMinted
    <3>3. \A url \in urls, a \in Assets : url.key[a] \in (1 .. res) \X {a}
      BY <2>6 DEF KeysMinted
    <3>4. queue' \cup swept' \subseteq (1 .. res) \X Assets
      <4>1. KeysOf(q.m) \subseteq (1 .. nextRes) \X Assets
        BY <2>0 DEF KeysOf, Rows, KeysMinted
      <4> QED
        BY <1>2, <2>1, <2>s, <2>6, <4>1 DEF DroppedKeys, KeysMinted
    <3> QED
      BY <1>2, <2>s, <2>r, <3>1, <3>2, <3>3, <3>4 DEF KeysMinted
  \* The new row's keys are in nobody else's hands.
  <2>9. \A a \in Assets : key[a] \notin queue \cup swept
    BY <2>4, <2>5 DEF KeysOwned, KeysMinted
  <2>10. \A n \in Rows \ {q.m}, a, b \in Assets : media[n].key[b] # key[a]
    <3> SUFFICES ASSUME NEW n \in Rows \ {q.m}, NEW a \in Assets, NEW b \in Assets,
                        media[n].key[b] = key[a]
                 PROVE  FALSE
      OBVIOUS
    <3>1. media[n].key[b] \in (1 .. nextRes) \X {b} /\ key[a] \in (1 .. res) \X {a}
      BY <2>7 DEF KeysMinted
    <3>2. a = b
      BY <3>1
    <3> QED
      BY <2>4, <2>5, <3>1, <3>2 DEF KeysOwned
  <2>11. KeysOwned'
    <3>1. \A m \in Rows', a \in Assets : media'[m].key[a] \notin queue' \cup swept'
      <4>1. DroppedKeys(q.m, key) \cap {key[a] : a \in Assets} = {}
        BY DEF DroppedKeys
      <4>2. \A m \in Rows \ {q.m}, a \in Assets : media[m].key[a] \notin KeysOf(q.m)
        <5> SUFFICES ASSUME NEW m \in Rows \ {q.m}, NEW a \in Assets, q.m \in Rows,
                            NEW b \in Assets, media[m].key[a] = media[q.m].key[b]
                     PROVE  FALSE
          BY <2>0 DEF KeysOf, Rows
        <5> QED
          BY KeysDiffer
      <4>3. CASE q.m \in Rows'
        BY <1>2, <2>2, <2>3, <2>f, <2>s, <2>9, <4>1, <4>2 DEF DroppedKeys, KeysOwned
      <4> QED
        BY <2>2, <4>3
    <3>2. \A m, n \in Rows', a \in Assets : media'[m].key[a] = media'[n].key[a] => m = n
      BY <2>2, <2>3, <2>f, <2>10 DEF KeysOwned
    <3> QED
      BY <3>1, <3>2 DEF KeysOwned
  \* Whoever has the new row's keys has its content.
  <2>12. \A a \in Assets :
            /\ \A r \in requests : Carries(r) /\ r.key[a] = key[a] => r.data[a] = q.data[a]
            /\ \A url \in urls : url.key[a] = key[a] => url.data[a] = q.data[a]
    <3> SUFFICES ASSUME NEW a \in Assets
                 PROVE  /\ \A r \in requests : Carries(r) /\ r.key[a] = key[a] => r.data[a] = q.data[a]
                        /\ \A url \in urls : url.key[a] = key[a] => url.data[a] = q.data[a]
      OBVIOUS
    <3>1. CASE key[a] = <<res, a>>
      BY <2>5, <3>1 DEF KeysMinted
    <3>2. CASE q.m \in Rows /\ key[a] = media[q.m].key[a] /\ media[q.m].data[a] = q.data[a]
      BY <3>2 DEF KeyMeansContent
    <3> QED
      BY <2>4, <3>1, <3>2
  <2>13. KeyMeansContent'
    <3> SUFFICES ASSUME NEW m \in Rows', NEW a \in Assets
                 PROVE  /\ \A r \in requests' : Carries(r) /\ r.key[a] = media'[m].key[a]
                              => r.data[a] = media'[m].data[a]
                        /\ \A url \in urls : url.key[a] = media'[m].key[a]
                              => url.data[a] = media'[m].data[a]
      BY <2>r, <2>s DEF KeyMeansContent
    <3>1. CASE m = q.m
      BY <1>2, <2>3, <2>f, <2>12, <3>1
    <3>2. CASE m # q.m
      BY <1>2, <2>2, <2>3, <2>f, <2>10, <3>2 DEF KeyMeansContent
    <3> QED
      BY <3>1, <3>2
  <2>14. ReservationHolds'
    <3> SUFFICES ASSUME NEW r \in requests', Carries(r), r.m \in Rows', media'[r.m].res = r.res
                 PROVE  /\ r.key = media'[r.m].key /\ r.data = media'[r.m].data
                        /\ r.op = "checked" => \A a \in Assets : objects[r.key[a]] = r.data[a]
      BY <2>r, <2>s DEF ReservationHolds
    <3>1. CASE r = ask
      BY <2>3, <2>f, <3>1
    <3>2. CASE r # ask
      <4>1. r \in requests /\ r.res <= nextRes /\ r.res \in Int
        BY <1>2, <3>2, RequestShapes DEF KeysMinted, Core, RowRequest, Carries
      <4>2. r.res # res
        BY <2>1, <4>1
      <4> QED
        BY <2>2, <2>3, <2>f, <4>1, <4>2 DEF ReservationHolds
    <3> QED
      BY <3>1, <3>2
  <2>15. ConfirmedStored'
    <3>1. \A m \in MediaIds : media'[m].st = "confirmed" => Confirmed(m) /\ media'[m] = media[m]
      BY <1>2, <2>0, <2>f DEF Core, RowsOK, Confirmed
    <3> QED
      BY <2>s, <3>1 DEF ConfirmedStored, Confirmed
  <2>16. SweptForgotten'
    BY <1>2, <2>s, <2>f, <2>9 DEF SweptForgotten
  <2> QED
    BY <2>8, <2>11, <2>13, <2>14, <2>15, <2>16
<1> QED
  BY <1>1, <1>2 DEF ReserveUploadRow

\* A confirmation publishes what was checked under the same reservation.
LEMMA ConfirmStorage ==
  ASSUME StorageInv, Core', NEW q \in requests, MarkConfirmed(q)
  PROVE  StorageInv'
<1> USE DEF StorageInv
<1>1. /\ requests' = requests \ {q} /\ q.op = "checked" /\ Carries(q)
      /\ UNCHANGED <<nextRes, urls, objects, queue, cleaning, swept>>
  BY DEF MarkConfirmed, Carries
<1>2. CASE UNCHANGED media
  BY <1>1, <1>2, RequestsStorage
<1>3. CASE /\ SameReservation(q.m, q.res)
           /\ media' = [media EXCEPT ![q.m].st = "confirmed", ![q.m].seq = NextSeq]
  <2>1. q.m \in MediaIds
    BY <1>1, RequestShapes DEF Core, RowRequest
  <2>2. q.m \in Rows /\ media[q.m].res = q.res
    BY <1>3, <2>1 DEF SameReservation, Pending, Rows
  <2>3. media[q.m] \in Row
    BY <2>2, StoredRow
  <2>4. \A m \in MediaIds : m # q.m => media'[m] = media[m]
    BY <1>3, <2>1 DEF Core, RowsOK
  <2>5. /\ media'[q.m].st = "confirmed" /\ media'[q.m].key = media[q.m].key
        /\ media'[q.m].data = media[q.m].data /\ media'[q.m].res = media[q.m].res
    BY <1>3, <2>1, <2>3 DEF Core, RowsOK, Row
  <2>6. Rows' = Rows
    BY <2>1, <2>2, <2>4, <2>5 DEF Rows
  <2>7. \A m \in Rows : /\ media'[m].key = media[m].key /\ media'[m].data = media[m].data
                        /\ media'[m].res = media[m].res
    BY <2>4, <2>5 DEF Rows
  <2>r. \A r : Carries(r)' <=> Carries(r)
    BY DEF Carries
  <2>8. KeysMinted' /\ KeysOwned'
    BY <1>1, <2>6, <2>7, <2>r DEF KeysMinted, KeysOwned
  <2>9. KeyMeansContent'
    BY <1>1, <2>6, <2>7, <2>r DEF KeyMeansContent
  <2>10. ReservationHolds'
    BY <1>1, <2>6, <2>7, <2>r DEF ReservationHolds
  <2>11. ConfirmedStored'
    <3>1. \A a \in Assets : objects[media[q.m].key[a]] = media[q.m].data[a]
      BY <1>1, <2>2 DEF ReservationHolds
    <3> QED
      BY <1>1, <2>4, <2>5, <3>1 DEF ConfirmedStored, Confirmed
  <2>12. SweptForgotten'
    BY <1>1 DEF SweptForgotten
  <2> QED
    BY <2>8, <2>9, <2>10, <2>11, <2>12
<1> QED
  BY <1>2, <1>3 DEF MarkConfirmed

\* The steps of the handlers.
LEMMA RequestStepStorage ==
  ASSUME StorageInv, Core', RequestStep
  PROVE  StorageInv'
<1> USE DEF StorageInv
<1>1. ASSUME NEW u \in Users, NEW m \in MediaIds, NEW e \in Epoch,
             NEW data \in [Assets -> Data], RequestUploadURL(u, m, e, data)
      PROVE  StorageInv'
  BY <1>1, RequestsStorage DEF RequestUploadURL, Begin, Carries
<1>2. ASSUME NEW u \in Users, NEW m \in MediaIds, NEW op \in {"confirm", "abort"},
             ReadRow(u, m, op)
      PROVE  StorageInv'
  <2>1. m \in Rows
    BY <1>2 DEF ReadRow, Pending, Rows
  <2>2. \A r \in requests' : Carries(r) /\ r \notin requests =>
           /\ r.op \in {"confirm", "abort"} /\ r.m = m /\ r.res = media[m].res
           /\ r.key = media[m].key /\ r.data = media[m].data
    BY <1>2 DEF ReadRow, Begin
  <2>3. \A n \in Rows, a \in Assets :
           media[m].key[a] = media[n].key[a] => media[m].data[a] = media[n].data[a]
    BY <2>1, KeysDiffer
  <2>4. UNCHANGED <<media, nextRes, urls, objects, queue, cleaning, swept>>
    BY <1>2 DEF ReadRow
  <2>5. /\ media[m].res <= nextRes
        /\ \A a \in Assets : media[m].key[a] \in (1 .. nextRes) \X {a}
    BY <2>1 DEF KeysMinted
  <2> QED
    BY <2>1, <2>2, <2>3, <2>4, <2>5, RequestsStorage
<1>3. ASSUME NEW q \in requests, ReserveUploadRow(q) PROVE StorageInv'
  BY <1>3, ReserveStorage
<1>4. ASSUME NEW q \in requests, Presign(q) PROVE StorageInv'
  <2>1. q \in RowRequest /\ Carries(q)
    BY <1>4, RequestShapes DEF Core, Presign, Carries
  <2>2. CASE Retire({m \in {q.m} : SameReservation(m, q.res)}) /\ UNCHANGED urls
    BY <1>4, <2>1, <2>2, RetireStorage DEF Presign, RowRequest
  <2>3. CASE urls' = urls \cup {[key |-> q.key, data |-> q.data]} /\ UNCHANGED <<media, queue>>
    <3>1. /\ requests' \subseteq requests /\ Rows' = Rows
          /\ UNCHANGED <<nextRes, objects, cleaning, swept>>
      BY <1>4, <2>3 DEF Presign, Rows
    <3>2. KeysMinted'
      BY <2>1, <2>3, <3>1 DEF KeysMinted, Carries
    <3>3. KeyMeansContent'
      BY <2>1, <2>3, <3>1 DEF KeyMeansContent, Carries
    <3>4. KeysOwned' /\ ConfirmedStored' /\ ReservationHolds'
      BY <2>3, <3>1 DEF KeysOwned, ConfirmedStored, Confirmed, ReservationHolds, Carries
    <3>5. SweptForgotten'
      BY <1>4, <2>3, <3>1 DEF SweptForgotten, Presign
    <3> QED
      BY <3>2, <3>3, <3>4, <3>5
  <2> QED
    BY <1>4, <2>2, <2>3 DEF Presign
<1>5. ASSUME NEW q \in requests, HeadObject(q) PROVE StorageInv'
  <2>1. q \in RowRequest /\ Carries(q)
    BY <1>5, RequestShapes DEF Core, HeadObject, Carries
  <2>2. CASE /\ requests' = requests \ {q}
             /\ Retire({m \in {q.m} : SameReservation(m, q.res)})
    BY <1>5, <2>1, <2>2, RetireStorage DEF HeadObject, RowRequest
  <2>3. CASE requests' = requests \ {q} /\ UNCHANGED <<media, queue>>
    BY <1>5, <2>3, RequestsStorage DEF HeadObject
  <2>4. CASE /\ HeadMatches(q)
             /\ requests' = (requests \ {q}) \cup {[q EXCEPT !.op = "checked"]}
             /\ UNCHANGED <<media, queue>>
    <3> DEFINE r == [q EXCEPT !.op = "checked"]
    <3>1. /\ r.op = "checked" /\ r.m = q.m /\ r.key = q.key /\ r.data = q.data /\ r.res = q.res
      BY <2>1 DEF RowRequest
    <3>2. \A x \in requests' : x \notin requests => x = r
      BY <2>4
    <3> HIDE DEF r
    <3>3. UNCHANGED <<media, nextRes, urls, objects, queue, cleaning, swept>>
      BY <1>5, <2>4 DEF HeadObject
    <3>4. /\ r.op # "presign" /\ r.res <= nextRes
          /\ \A a \in Assets : r.key[a] \in (1 .. nextRes) \X {a}
      BY <2>1, <3>1 DEF KeysMinted
    <3>5. \A m \in Rows, a \in Assets : r.key[a] = media[m].key[a] => r.data[a] = media[m].data[a]
      BY <2>1, <3>1 DEF KeyMeansContent
    <3>6. r.m \in Rows /\ media[r.m].res = r.res
             => r.key = media[r.m].key /\ r.data = media[r.m].data
      BY <2>1, <3>1 DEF ReservationHolds
    <3>7. \A a \in Assets : objects[r.key[a]] = r.data[a]
      BY <2>4, <3>1 DEF HeadMatches
    <3> QED
      BY <3>2, <3>3, <3>4, <3>5, <3>6, <3>7, RequestsStorage
  <2> QED
    BY <1>5, <2>2, <2>3, <2>4 DEF HeadObject
<1>6. ASSUME NEW q \in requests, MarkConfirmed(q) PROVE StorageInv'
  BY <1>6, ConfirmStorage
<1>7. ASSUME NEW q \in requests, AbortPendingUpload(q) PROVE StorageInv'
  <2>1. q \in RowRequest
    BY <1>7, RequestShapes DEF Core, AbortPendingUpload
  <2> QED
    BY <1>7, <2>1, RetireStorage DEF AbortPendingUpload, RowRequest
<1>8. ASSUME NEW q \in requests, DropRequest(q) PROVE StorageInv'
  BY <1>8, RequestsStorage DEF DropRequest
<1>9. ASSUME NEW u \in Users, NEW m \in MediaIds, RequestDelete(u, m) PROVE StorageInv'
  BY <1>9, RequestsStorage DEF RequestDelete, Begin, Carries
<1>10. ASSUME NEW q \in requests, DeleteOwnedMedia(q) PROVE StorageInv'
  <2>1. q \in DeleteRequest
    BY <1>10, RequestShapes DEF Core, DeleteOwnedMedia
  <2> QED
    BY <1>10, <2>1, RetireStorage DEF DeleteOwnedMedia, DeleteRequest
<1> QED
  BY <1>1, <1>2, <1>3, <1>4, <1>5, <1>6, <1>7, <1>8, <1>9, <1>10 DEF RequestStep

\* A PUT writes a key's one content, the cleaner spares the keys of rows, and
\* the sweep waits for every URL that could bring its keys back.
LEMMA StorageStepStorage ==
  ASSUME StorageInv, Core', StorageStep
  PROVE  StorageInv'
<1> USE DEF StorageInv
<1>r. \A r : Carries(r)' <=> Carries(r)
  BY DEF Carries
\* The rows stay: what is left is what the store and the queue do.
<1>s. ASSUME UNCHANGED <<media, nextRes, requests, swept>>, urls' \subseteq urls,
             queue' \subseteq queue,
             \A m \in Rows, a \in Assets :
                \/ objects'[media[m].key[a]] = objects[media[m].key[a]]
                \/ objects'[media[m].key[a]] = media[m].data[a],
             \A k \in swept : k \in queue' \ cleaning' \/ objects'[k] = NoData
      PROVE  StorageInv'
  <2>1. Rows' = Rows
    BY <1>s DEF Rows
  <2>2. KeysMinted'
    BY <1>s, <1>r, <2>1 DEF KeysMinted
  <2>3. KeysOwned'
    BY <1>s, <2>1 DEF KeysOwned
  <2>4. KeyMeansContent'
    BY <1>s, <1>r, <2>1 DEF KeyMeansContent
  <2>5. ReservationHolds'
    <3> SUFFICES ASSUME NEW q \in requests, Carries(q), q.m \in Rows, media[q.m].res = q.res
                 PROVE  /\ q.key = media[q.m].key /\ q.data = media[q.m].data
                        /\ q.op = "checked" => \A a \in Assets : objects'[q.key[a]] = q.data[a]
      BY <1>s, <1>r, <2>1 DEF ReservationHolds
    <3>1. q.key = media[q.m].key /\ q.data = media[q.m].data
      BY DEF ReservationHolds
    <3>2. ASSUME q.op = "checked", NEW a \in Assets PROVE objects'[q.key[a]] = q.data[a]
      <4>1. objects[q.key[a]] = q.data[a]
        BY <3>2 DEF ReservationHolds
      <4> QED
        BY <1>s, <3>1, <4>1
    <3> QED
      BY <3>1, <3>2
  <2>6. ConfirmedStored'
    <3> SUFFICES ASSUME NEW m \in MediaIds, Confirmed(m), NEW a \in Assets
                 PROVE  objects'[media[m].key[a]] = media[m].data[a]
      BY <1>s DEF ConfirmedStored, Confirmed
    <3>1. m \in Rows
      BY DEF Confirmed, Rows
    <3> QED
      BY <1>s, <3>1 DEF ConfirmedStored
  <2>7. SweptForgotten'
    BY <1>s DEF SweptForgotten
  <2> QED
    BY <2>2, <2>3, <2>4, <2>5, <2>6, <2>7
<1>1. ASSUME NEW url \in urls, NEW b \in Assets, PutObject(url, b) PROVE StorageInv'
  <2>1. /\ UNCHANGED <<media, nextRes, requests, urls, queue, cleaning, swept>>
        /\ objects' = [objects EXCEPT ![url.key[b]] = url.data[b]]
    BY <1>1 DEF PutObject
  <2>2. url.key[b] \in Key /\ objects \in [Key -> Data \cup {NoData}]
    BY DEF Core, StoreOK
  <2>3. \A m \in Rows, a \in Assets :
           \/ objects'[media[m].key[a]] = objects[media[m].key[a]]
           \/ objects'[media[m].key[a]] = media[m].data[a]
    <3> SUFFICES ASSUME NEW m \in Rows, NEW a \in Assets, media[m].key[a] = url.key[b]
                 PROVE  objects'[media[m].key[a]] = media[m].data[a]
      BY <2>1, <2>2, StoredRow
    <3>1. media[m].key[a] \in (1 .. nextRes) \X {a} /\ url.key[b] \in (1 .. nextRes) \X {b}
      BY DEF KeysMinted
    <3>2. a = b
      BY <3>1
    <3> QED
      BY <2>1, <2>2, <3>2 DEF KeyMeansContent
  <2>4. \A k \in swept : k \in queue \ cleaning \/ objects'[k] = NoData
    <3>1. url.key[b] \notin swept /\ swept \subseteq Key
      BY DEF SweptForgotten, Core, StoreOK
    <3> QED
      BY <2>1, <2>2, <3>1 DEF SweptForgotten
  <2> QED
    BY <1>s, <2>1, <2>3, <2>4
<1>2. ASSUME NEW url \in urls, ExpireURL(url) PROVE StorageInv'
  BY <1>s, <1>2 DEF ExpireURL, SweptForgotten
<1>3. ASSUME NEW m \in MediaIds, SweepStale(m) PROVE StorageInv'
  <2>1. KeysOfAll({m}) = KeysOf(m)
    BY DEF KeysOfAll
  <2>2. swept' = swept \cup KeysOf(m) /\ Retire({m})
        /\ UNCHANGED <<nextRes, requests, urls, objects, cleaning>>
    BY <1>3 DEF SweepStale
  <2>3. /\ \A url \in urls, a \in Assets : url.key[a] \notin swept' \ swept
        /\ \A q \in requests : q.op = "presign" => \A a \in Assets : q.key[a] \notin swept' \ swept
    BY <1>3, <2>2 DEF SweepStale, Stale
  <2> QED
    BY <2>1, <2>2, <2>3, RetireStorage
<1>4. ASSUME NEW k \in Key, DeleteObject(k) PROVE StorageInv'
  <2>1. /\ UNCHANGED <<media, nextRes, requests, urls, queue, swept>>
        /\ objects' = [objects EXCEPT ![k] = NoData] /\ cleaning' = cleaning \cup {k}
        /\ k \in queue
    BY <1>4 DEF DeleteObject
  <2>2. objects \in [Key -> Data \cup {NoData}] /\ swept \subseteq Key
    BY DEF Core, StoreOK
  <2>3. \A m \in Rows, a \in Assets : objects'[media[m].key[a]] = objects[media[m].key[a]]
    BY <2>1, <2>2, StoredRow DEF KeysOwned
  <2>4. \A j \in swept : j \in queue \ cleaning' \/ objects'[j] = NoData
    BY <2>1, <2>2 DEF SweptForgotten
  <2> QED
    BY <1>s, <2>1, <2>3, <2>4
<1>5. ASSUME NEW k \in Key, AckCleanup(k) PROVE StorageInv'
  BY <1>s, <1>5 DEF AckCleanup, SweptForgotten
<1>6. ASSUME NEW k \in Key, CleanupFails(k) PROVE StorageInv'
  BY <1>s, <1>6 DEF CleanupFails, SweptForgotten
<1> QED
  BY <1>1, <1>2, <1>3, <1>4, <1>5, <1>6 DEF StorageStep

\* Every step of the composition keeps the storage invariant.
LEMMA StorageInvStep == StorageInv /\ [MediaNext]_vars => StorageInv'
<1> SUFFICES ASSUME StorageInv, [MediaNext]_vars PROVE StorageInv'
  OBVIOUS
<1>c. Core'
  BY CoreStep DEF StorageInv
<1>1. CASE UNCHANGED mediaVars
  BY <1>c, <1>1, RequestsStorage DEF mediaVars
<1>2. CASE /\ RemovingAlbumStep
           /\ UNCHANGED <<nextRes, gen, requests, urls, objects, cleaning, swept>>
  BY <1>c, <1>2, RetireStorage DEF RemovingAlbumStep
<1>3. CASE RequestStep
  BY <1>c, <1>3, RequestStepStorage
<1>4. CASE StorageStep
  BY <1>c, <1>4, StorageStepStorage
<1> QED
  BY <1>1, <1>2, <1>3, <1>4 DEF MediaNext, vars, mediaVars

\* The invariant of the store: each key has one content and one owner, and a
\* request means the reservation it read.
THEOREM MediaStorage == MediaSpec => []StorageInv
BY StorageInit, StorageInvStep, PTL DEF MediaSpec

\* No cleanup, replaced reservation, retry or late PUT takes or changes the
\* objects of a published photo, although ConfirmUpload checks them unlocked.
THEOREM MediaConfirmedStored == MediaSpec => []ConfirmedStored
<1>1. StorageInv => ConfirmedStored
  BY DEF StorageInv
<1> QED
  BY <1>1, MediaStorage, PTL

\* What QueueStalePendingCleanup has retired and the cleaner acknowledged is
\* gone for good.
THEOREM MediaSweptStaysClean == MediaSpec => []SweptStaysClean
<1>1. StorageInv => SweptStaysClean
  BY DEF StorageInv, SweptForgotten, SweptStaysClean
<1> QED
  BY <1>1, MediaStorage, PTL
=================================================================================
