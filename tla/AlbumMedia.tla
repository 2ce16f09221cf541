----------------------------- MODULE AlbumMedia ------------------------------
(***************************************************************************)
(* Publishing into the album of AlbumKeys: media rows, their reservations, *)
(* the presigned uploads, the object store and the durable cleanup queue.  *)
(*                                                                         *)
(* A request first passes the session and membership middleware and reads  *)
(* the row without a lock; what it remembers is a record in `requests`.    *)
(* Its transaction then runs as one step.  Every other step of the album   *)
(* is a step of AlbumKeys, with what it does to the media rows added.      *)
(***************************************************************************)
EXTENDS AlbumKeys

CONSTANTS MediaIds,     \* client-chosen media ids
          Assets,       \* objects of one upload: {"blob"} or {"blob", "thumb"}
          Data,         \* distinguishable contents (size and SHA-256)
          NoData,       \* what the store answers for a missing object
          MaxRes,       \* bound: reservations ever made
          MaxRequests   \* bound: media requests in flight

ASSUME BlobIsAsset == "blob" \in Assets
ASSUME NoDataNew == NoData \notin Data
ASSUME MediaBoundsNat == MaxRes \in Nat /\ MaxRequests \in Nat

NoRow == [st |-> "none"]

VARIABLES
    media,     \* media rows by id
    nextRes,   \* reservations made so far
    gen,       \* albums.media_generation
    requests,  \* handlers between two of their steps
    urls,      \* presigned PUTs not expired: [key, data], signed together
    objects,   \* the object store: content per key
    queue,     \* media_object_cleanup
    cleaning,  \* keys whose object is deleted and not yet acknowledged
    swept,     \* history: keys retired by the stale sweep
    audience   \* history: who was a member at or after a media's publication

mediaVars == <<media, nextRes, gen, requests, urls, objects, queue,
               cleaning, swept>>
vars == <<keyVars, mediaVars, audience>>

\* newStorageKey: a key is named by the reservation and asset it was minted for.
Key == (1 .. MaxRes) \X Assets
Rows == {m \in MediaIds : media[m].st # "none"}
Pending(m) == media[m].st = "pending"
Confirmed(m) == media[m].st = "confirmed"
KeysOf(m) == IF media[m].st = "none" THEN {}
             ELSE {media[m].key[a] : a \in Assets}
KeysOfAll(S) == UNION {KeysOf(m) : m \in S}

-----------------------------------------------------------------------------
(***************************************************************************)
(* Conditions, each preceded by the slips the runs are shown to notice.    *)
(***************************************************************************)

AnyPendingRow(m, res) == Pending(m)

\* A pending row is touched only through the reservation that was read.
SameReservation(m, res) == Pending(m) /\ media[m].res = res

IgnoresDebt(e) == e = cur

\* ReserveUploadRow and MarkConfirmed, under the album lock.
MayPublish(e) == ~RotationRequired /\ e = cur

AlwaysKeepsKey(m, a, data) == Pending(m)

\* A retry keeps the key of an object whose bytes are unchanged.
KeepsKey(m, a, data) == Pending(m) /\ media[m].data[a] = data[a]

\* Keys the replaced row had and the new one does not take over.
DroppedKeys(m, key) == KeysOf(m) \ {key[a] : a \in Assets}

SeqNotBumped == gen

\* media_generation + 1, stamped on the row as album_seq.
NextSeq == gen + 1

AnyPendingIsStale(m) == Pending(m)

\* PendingUploadStaleAfter (2 h) exceeds PresignTTL (30 min) by more than the
\* hour that created_at is rounded down by: a stale row's URLs have expired
\* and no handler is still about to sign one.
Stale(m) ==
    /\ Pending(m)
    /\ \A url \in urls, a \in Assets : url.key[a] \notin KeysOf(m)
    /\ \A q \in requests :
          q.op = "presign" => \A a \in Assets : q.key[a] \notin KeysOf(m)

HeadSkipped(q) == TRUE

HeadBlobOnly(q) == objects[q.key["blob"]] = q.data["blob"]

\* HeadObject on every asset: present with the claimed size and hash.
HeadMatches(q) == \A a \in Assets : objects[q.key[a]] = q.data[a]

-----------------------------------------------------------------------------
MediaInit ==
    /\ media = [m \in MediaIds |-> NoRow]
    /\ nextRes = 0 /\ gen = 0
    /\ requests = {} /\ urls = {}
    /\ objects = [k \in Key |-> NoData]
    /\ queue = {}
    /\ cleaning = {}
    /\ swept = {}
    /\ audience = [m \in MediaIds |-> {}]

\* Authenticate and RequireMember: a live session of an active member.
Gate(u) == album = "live" /\ u \in Active /\ AccountLive(u)

Begin(q) == /\ Cardinality(requests) < MaxRequests
            /\ requests' = requests \cup {q}

\* Rows leave the table and their keys enter the cleanup queue in one tx.
Retire(S) ==
    /\ media' = [m \in MediaIds |-> IF m \in S THEN NoRow ELSE media[m]]
    /\ queue' = queue \cup KeysOfAll(S)

\* POST upload-url past the middleware.  The client tags the upload with an
\* epoch whose key it holds; the unlocked epoch and debt checks that follow
\* are the ones ReserveUploadRow repeats.
RequestUploadURL(u, m, e, data) ==
    /\ Gate(u)
    /\ u \in holders[e]
    /\ Begin([op |-> "reserve", by |-> u, m |-> m, e |-> e, data |-> data])
    /\ UNCHANGED <<media, nextRes, gen, urls, objects, queue, cleaning, swept>>

\* The keys of reservation res: kept where KeepsKey, fresh elsewhere.
KeysFor(res, m, data) ==
    [a \in Assets |-> IF KeepsKey(m, a, data) THEN media[m].key[a] ELSE <<res, a>>]

\* ReserveUploadRow: replaces only the uploader's own pending row, queues the
\* keys the replacement drops and always mints a new reservation id.
ReserveUploadRow(q) ==
    /\ q \in requests /\ q.op = "reserve"
    /\ IF /\ album = "live"
          /\ MayPublish(q.e)
          /\ ~Confirmed(q.m)
          /\ Pending(q.m) => media[q.m].by = q.by
       THEN LET res == nextRes + 1
                key == KeysFor(res, q.m, q.data)
            IN /\ res <= MaxRes
               /\ media' = [media EXCEPT ![q.m] =
                     [st |-> "pending", by |-> q.by, epoch |-> q.e,
                      data |-> q.data, key |-> key, res |-> res, seq |-> 0]]
               /\ queue' = queue \cup DroppedKeys(q.m, key)
               /\ requests' = (requests \ {q}) \cup
                     {[op |-> "presign", by |-> q.by, m |-> q.m,
                       data |-> q.data, key |-> key, res |-> res]}
               /\ nextRes' = res
       ELSE /\ requests' = requests \ {q}
            /\ UNCHANGED <<media, queue, nextRes>>
    /\ UNCHANGED <<gen, urls, objects, cleaning, swept>>

\* The presigned URLs reach the client, or presigning fails and the handler
\* retires the reservation it made (retirePending).
Presign(q) ==
    /\ q \in requests /\ q.op = "presign"
    /\ requests' = requests \ {q}
    /\ \/ /\ urls' = urls \cup {[key |-> q.key, data |-> q.data]}
          /\ UNCHANGED <<media, queue>>
       \/ /\ Retire({m \in {q.m} : SameReservation(m, q.res)})
          /\ UNCHANGED urls
    /\ UNCHANGED <<nextRes, gen, objects, cleaning, swept>>

\* ConfirmUpload, AbortPendingUpload: GetByID without a lock.  A confirmed row
\* answers a repeated confirm; an abort of it deletes nothing.
ReadRow(u, m, op) ==
    /\ op \in {"confirm", "abort"}
    /\ Gate(u)
    /\ Pending(m)
    /\ op = "confirm" => media[m].by = u
    /\ Begin([op |-> op, by |-> u, m |-> m, key |-> media[m].key,
              data |-> media[m].data, res |-> media[m].res])
    /\ UNCHANGED <<media, nextRes, gen, urls, objects, queue, cleaning, swept>>

\* HEAD on the keys read before.  A blob that is not there yet only fails the
\* request; any other mismatch drops the reservation that was read.
HeadObject(q) ==
    /\ q \in requests /\ q.op = "confirm"
    /\ \/ /\ objects[q.key["blob"]] = NoData
          /\ requests' = requests \ {q}
          /\ UNCHANGED <<media, queue>>
       \/ /\ objects[q.key["blob"]] # NoData
          /\ ~HeadMatches(q)
          /\ requests' = requests \ {q}
          /\ Retire({m \in {q.m} : SameReservation(m, q.res)})
       \/ /\ HeadMatches(q)
          /\ requests' = (requests \ {q}) \cup {[q EXCEPT !.op = "checked"]}
          /\ UNCHANGED <<media, queue>>
    /\ UNCHANGED <<nextRes, gen, urls, objects, cleaning, swept>>

\* MarkConfirmed, under the album lock.
MarkConfirmed(q) ==
    /\ q \in requests /\ q.op = "checked"
    /\ requests' = requests \ {q}
    /\ IF /\ album = "live"
          /\ SameReservation(q.m, q.res)
          /\ MayPublish(media[q.m].epoch)
       THEN /\ media' = [media EXCEPT ![q.m].st = "confirmed", ![q.m].seq = NextSeq]
            /\ gen' = gen + 1
       ELSE UNCHANGED <<media, gen>>
    /\ UNCHANGED <<nextRes, urls, objects, queue, cleaning, swept>>

\* QueuePendingCleanup for an abort: only the caller's own reservation.
AbortPendingUpload(q) ==
    /\ q \in requests /\ q.op = "abort"
    /\ requests' = requests \ {q}
    /\ Retire({m \in {q.m} : SameReservation(m, q.res) /\ media[m].by = q.by})
    /\ UNCHANGED <<nextRes, gen, urls, objects, cleaning, swept>>

\* DELETE media past the middleware.
RequestDelete(u, m) ==
    /\ Gate(u)
    /\ Begin([op |-> "delete", by |-> u, m |-> m])
    /\ UNCHANGED <<media, nextRes, gen, urls, objects, queue, cleaning, swept>>

\* DeleteOwnedMedia, under the album lock: a published row, by its uploader.
DeleteOwnedMedia(q) ==
    /\ q \in requests /\ q.op = "delete"
    /\ requests' = requests \ {q}
    /\ Retire({m \in {q.m} : Confirmed(m) /\ media[m].by = q.by})
    /\ UNCHANGED <<nextRes, gen, urls, objects, cleaning, swept>>

\* QueueStalePendingCleanup, one row at a time (its batch is row by row).
SweepStale(m) ==
    /\ Stale(m)
    /\ Retire({m})
    /\ swept' = swept \cup KeysOf(m)
    /\ UNCHANGED <<nextRes, gen, requests, urls, objects, cleaning>>

\* A client's PUT: the store enforces the signed length and checksum.
PutObject(url, a) ==
    /\ url \in urls
    /\ objects[url.key[a]] # url.data[a]
    /\ objects' = [objects EXCEPT ![url.key[a]] = url.data[a]]
    /\ UNCHANGED <<media, nextRes, gen, requests, urls, queue, cleaning, swept>>

\* PresignTTL passes.
ExpireURL(url) ==
    /\ url \in urls
    /\ urls' = urls \ {url}
    /\ UNCHANGED <<media, nextRes, gen, requests, objects, queue, cleaning, swept>>

\* cleanupObjectKeys, inline after the transaction that queued the key or from
\* the periodic listing: the object is deleted, the queue row is still there.
DeleteObject(k) ==
    /\ k \in queue \ cleaning
    /\ objects' = [objects EXCEPT ![k] = NoData]
    /\ cleaning' = cleaning \cup {k}
    /\ UNCHANGED <<media, nextRes, gen, requests, urls, queue, swept>>

AckForgotten(k) ==
    /\ k \in cleaning
    /\ cleaning' = cleaning \ {k}
    /\ UNCHANGED <<media, nextRes, gen, requests, urls, objects, queue, swept>>

\* DeleteObjectCleanupKey acknowledges the deletion.
AckCleanup(k) ==
    /\ k \in cleaning
    /\ cleaning' = cleaning \ {k}
    /\ queue' = queue \ {k}
    /\ UNCHANGED <<media, nextRes, gen, requests, urls, objects, swept>>

\* The acknowledgement fails or the server stops before it: the key stays
\* queued and its object is deleted again later.  (A DeleteObject that fails
\* changes only next_attempt_at.)
CleanupFails(k) ==
    /\ k \in cleaning
    /\ cleaning' = cleaning \ {k}
    /\ UNCHANGED <<media, nextRes, gen, requests, urls, objects, queue, swept>>

\* A server stop also forgets a request between its steps.
DropRequest(q) ==
    /\ q \in requests
    /\ requests' = requests \ {q}
    /\ UNCHANGED <<media, nextRes, gen, urls, objects, queue, cleaning, swept>>

RequestStep ==
    \/ \E u \in Users, m \in MediaIds, e \in Epoch, data \in [Assets -> Data] :
          RequestUploadURL(u, m, e, data)
    \/ \E u \in Users, m \in MediaIds, op \in {"confirm", "abort"} : ReadRow(u, m, op)
    \/ \E q \in requests : ReserveUploadRow(q)
    \/ \E q \in requests : Presign(q)
    \/ \E q \in requests : HeadObject(q)
    \/ \E q \in requests : MarkConfirmed(q)
    \/ \E q \in requests : AbortPendingUpload(q)
    \/ \E q \in requests : DropRequest(q)
    \/ \E u \in Users, m \in MediaIds : RequestDelete(u, m)
    \/ \E q \in requests : DeleteOwnedMedia(q)

StorageStep ==
    \/ \E url \in urls, a \in Assets : PutObject(url, a)
    \/ \E url \in urls : ExpireURL(url)
    \/ \E m \in MediaIds : SweepStale(m)
    \/ \E k \in Key : DeleteObject(k)
    \/ \E k \in Key : AckCleanup(k)
    \/ \E k \in Key : CleanupFails(k)

\* Steps of the album that leave the media rows alone.
QuietAlbumStep ==
    \/ \E u \in Users : CreateWithAdmin(u)
    \/ \E u \in Users, e \in Epoch, R \in SUBSET Users : InsertEpoch(u, e, R)
    \/ \E s, t \in Users, last \in Epoch : DeliverMember(s, t, last)
    \/ \E c, t \in Users : RemoveMember(c, t)
    \/ \E r \in revoking : RevokeMemberTx(r)
    \/ \E u \in Users, confirmed \in BOOLEAN : AcceptDeletion(u, confirmed)
    \/ \E u \in Users : FinishAccount(u)

\* Steps of the album that take media rows with them: removeAlbum takes all,
\* leaving or erasing an account takes its own.
RemovingAlbumStep ==
    \/ \E c \in Users : DeleteAlbum(c) /\ Retire(MediaIds)
    \/ \E u \in Users :
          /\ RemoveMembership(u)
          /\ Retire({m \in MediaIds : album' = "gone" \/ (m \in Rows /\ media[m].by = u)})

MediaNext ==
    /\ \/ QuietAlbumStep /\ UNCHANGED mediaVars
       \/ RemovingAlbumStep /\ UNCHANGED <<nextRes, gen, requests, urls,
                                           objects, cleaning, swept>>
       \/ (RequestStep \/ StorageStep) /\ UNCHANGED keyVars
    /\ audience' = [m \in MediaIds |->
                      IF media'[m].st = "confirmed" THEN audience[m] \cup Active' ELSE {}]

MediaSpec == Init /\ MediaInit /\ [][MediaNext]_vars

-----------------------------------------------------------------------------
Row == [st : {"pending", "confirmed"}, by : Users, epoch : Epoch,
        data : [Assets -> Data], key : [Assets -> Key], res : 1 .. MaxRes,
        seq : Nat]
ReserveRequest == [op : {"reserve"}, by : Users, m : MediaIds, e : Epoch,
                   data : [Assets -> Data]]
DeleteRequest == [op : {"delete"}, by : Users, m : MediaIds]
RowRequest == [op : {"presign", "confirm", "checked", "abort"}, by : Users,
               m : MediaIds, data : [Assets -> Data], key : [Assets -> Key],
               res : 1 .. MaxRes]

RowsOK == media \in [MediaIds -> Row \cup {NoRow}]

RequestsOK == requests \subseteq ReserveRequest \cup DeleteRequest \cup RowRequest

StoreOK ==
    /\ nextRes \in 0 .. MaxRes /\ gen \in Nat
    /\ urls \subseteq [key : [Assets -> Key], data : [Assets -> Data]]
    /\ objects \in [Key -> Data \cup {NoData}]
    /\ queue \subseteq Key /\ swept \subseteq Key
    /\ cleaning \subseteq queue

SeqsDistinct ==
    /\ \A m \in MediaIds : Confirmed(m) => media[m].seq \in 1 .. gen
    /\ \A m, n \in MediaIds :
          (m # n /\ Confirmed(m) /\ Confirmed(n)) => media[m].seq # media[n].seq

\* Type invariant, with the uniqueness the listing order relies on: two
\* published media never share an album_seq, and none is ahead of the album's
\* generation.
MediaTypeOK ==
    /\ RowsOK /\ RequestsOK /\ StoreOK /\ SeqsDistinct
    /\ audience \in [MediaIds -> SUBSET Users]

\* The key a published photo is sealed under was never in the hands of anyone
\* but people who were members when it was published or who joined later,
\* however revocations, account deletions and rotations interleave with its
\* reservation, its upload and its confirmation.
PublishedToMembersOnly ==
    \A m \in MediaIds : Confirmed(m) => holders[media[m].epoch] \subseteq audience[m]

\* Only an active member publishes, although neither the reservation nor the
\* confirmation looks the membership up again under the lock.
PublishedByMember ==
    [][\A m \in MediaIds : (~Confirmed(m) /\ Confirmed(m)')
          => media[m].by \in Active]_vars

\* A published photo's objects are in the store with the bytes its row claims:
\* no cleanup, replaced reservation or late PUT takes or changes them.
ConfirmedStored ==
    \A m \in MediaIds : Confirmed(m) =>
        \A a \in Assets : objects[media[m].key[a]] = media[m].data[a]

\* Once the stale sweep has retired an upload and its cleanup is acknowledged,
\* nothing can bring the object back.
SweptStaysClean == \A k \in swept \ queue : objects[k] = NoData

\* What the schema says of an account whose deletion was accepted: it
\* publishes nothing while the job removes it.
DeletingPublishesNothing ==
    [][\A m \in MediaIds : (~Confirmed(m) /\ Confirmed(m)')
          => account[media[m].by] = "live"]_vars

\* The store does not fail for ever on one key, and the sweep keeps listing.
CleanerFairness ==
    \A k \in Key : WF_vars(DeleteObject(k) /\ UNCHANGED <<keyVars, audience>>)
                /\ SF_vars(AckCleanup(k) /\ UNCHANGED <<keyVars, audience>>)

FairMediaSpec == MediaSpec /\ CleanerFairness

\* Every key queued for deletion is eventually deleted and acknowledged, over
\* failures of the store and restarts of the server.
QueueDrains == \A k \in Key : k \in queue ~> k \notin queue

=============================================================================
