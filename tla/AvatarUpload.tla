----------------------------- MODULE AvatarUpload ------------------------------
(***************************************************************************)
(* Encrypted member avatars of one album: a replacement uploads as a       *)
(* pending row and takes the place of the current one on confirm.          *)
(*                                                                         *)
(* Reserve and Confirm run under the album lock; DropPending, Remove and   *)
(* the stale sweep are single DELETEs.  Each is one step.  Unlike a media  *)
(* row, an avatar row carries no reservation id: what a confirm read of it *)
(* is matched to the row only by the avatar id.                            *)
(***************************************************************************)
EXTENDS Integers, FiniteSets

CONSTANTS Members,      \* member tokens of the album
          AvatarIds,    \* client-chosen avatar ids
          Data,         \* distinguishable sealed contents
          NoData,       \* what the store answers for a missing object
          ReusedIds,    \* ids a client may reserve again; the app seals under fresh ones
          MaxKeys,      \* bound: reservations, each minting one storage key
          MaxRequests   \* bound: requests in flight

ASSUME AvatarNoDataNew == NoData \notin Data
ASSUME ReusedAreIds == ReusedIds \subseteq AvatarIds
ASSUME AvatarBoundsNat == MaxKeys \in Nat /\ MaxRequests \in Nat

NoRow == [st |-> "none"]

VARIABLES
    active,    \* members whose roster row is not revoked
    avatars,   \* member_avatars by avatar_id
    minted,    \* storage keys minted so far
    reserved,  \* avatar ids the client has reserved before
    requests,  \* handlers between two of their steps
    urls,      \* presigned PUT URLs not expired: [key, data]
    objects,   \* the object store: content per key
    queue,     \* media_object_cleanup
    cleaning,  \* keys whose object is deleted and not yet acknowledged
    cleaned    \* history: keys whose deletion was acknowledged

vars == <<active, avatars, minted, reserved, requests, urls, objects, queue,
          cleaning, cleaned>>

Key == 1 .. MaxKeys
Rows == {id \in AvatarIds : avatars[id].st # "none"}
Pending(id) == avatars[id].st = "pending"
Confirmed(id) == avatars[id].st = "confirmed"
OwnRows(u) == {id \in Rows : avatars[id].by = u}
KeysOf(S) == {avatars[id].key : id \in S \cap Rows}

-----------------------------------------------------------------------------
ReusedKeyStaysQueued(S, kept) == KeysOf(S)

\* removeAvatars queues every key it takes; unqueueObjectCleanup takes the one
\* that the new reservation reuses out again.
Queued(S, kept) == KeysOf(S) \ kept

OthersStay(u, id) == {}

\* Confirm replaces every other row of the member, shown or pending.
Replaced(u, id) == OwnRows(u) \ {id}

\* RevokeMemberTx and RemoveMembership take the member's avatars explicitly;
\* the foreign-key cascade alone would drop the keys with the rows.
TakenWith(u) == OwnRows(u)

HeadSkipped(q) == TRUE

HeadMatches(q) == objects[q.key] = q.data

-----------------------------------------------------------------------------
Init ==
    /\ active = Members
    /\ avatars = [id \in AvatarIds |-> NoRow]
    /\ minted = 0
    /\ reserved = {}
    /\ requests = {}
    /\ urls = {}
    /\ objects = [k \in Key |-> NoData]
    /\ queue = {} /\ cleaning = {} /\ cleaned = {}

Retire(S) ==
    /\ avatars' = [id \in AvatarIds |-> IF id \in S THEN NoRow ELSE avatars[id]]
    /\ queue' = queue \cup Queued(S, {})

\* RequestUploadURL up to Reserve's commit: the member's pending rows make way
\* for the new one, which keeps the key of its own id's unchanged bytes.
Reserve(u, id, data) ==
    LET key == IF Pending(id) /\ avatars[id].data = data
               THEN avatars[id].key ELSE minted + 1
        stale == {i \in OwnRows(u) : Pending(i)}
    IN /\ u \in active
       /\ id \in ReusedIds \/ id \notin reserved
       /\ Cardinality(requests) < MaxRequests
       /\ avatars[id].st = "none" \/ (Pending(id) /\ avatars[id].by = u)
       /\ key <= MaxKeys
       /\ avatars' = [i \in AvatarIds |->
             IF i = id THEN [st |-> "pending", by |-> u, data |-> data, key |-> key]
             ELSE IF i \in stale THEN NoRow ELSE avatars[i]]
       /\ queue' = queue \cup Queued(stale, {key})
       /\ minted' = IF key > minted THEN key ELSE minted
       /\ reserved' = reserved \cup {id}
       /\ requests' = requests \cup
             {[op |-> "presign", by |-> u, id |-> id, data |-> data, key |-> key]}
       /\ UNCHANGED <<active, urls, objects, cleaning, cleaned>>

\* The URL is signed and returned.
Presign(q) ==
    /\ q \in requests /\ q.op = "presign"
    /\ requests' = requests \ {q}
    /\ urls' = urls \cup {[key |-> q.key, data |-> q.data]}
    /\ UNCHANGED <<active, avatars, minted, reserved, objects, queue, cleaning, cleaned>>

\* Confirm, its unlocked Get: the caller's own row.  A row already shown needs
\* no HEAD.
ReadAvatar(u, id) ==
    /\ u \in active
    /\ id \in OwnRows(u)
    /\ Cardinality(requests) < MaxRequests
    /\ requests' = requests \cup
          {[op |-> IF Confirmed(id) THEN "checked" ELSE "confirm", by |-> u, id |-> id,
            data |-> avatars[id].data, key |-> avatars[id].key]}
    /\ UNCHANGED <<active, avatars, minted, reserved, urls, objects, queue, cleaning, cleaned>>

\* HEAD on the key that was read.  A missing object ends the request, another
\* object drops whatever pending row now has the id (DropPending).
HeadObject(q) ==
    /\ q \in requests /\ q.op = "confirm"
    /\ \/ /\ HeadMatches(q)
          /\ requests' = (requests \ {q}) \cup {[q EXCEPT !.op = "checked"]}
          /\ UNCHANGED <<avatars, queue>>
       \/ /\ ~HeadMatches(q) /\ objects[q.key] = NoData
          /\ requests' = requests \ {q}
          /\ UNCHANGED <<avatars, queue>>
       \/ /\ ~HeadMatches(q) /\ objects[q.key] # NoData
          /\ requests' = requests \ {q}
          /\ Retire({id \in {q.id} \cap OwnRows(q.by) : Pending(id)})
    /\ UNCHANGED <<active, minted, reserved, urls, objects, cleaning, cleaned>>

\* AvatarRepository.Confirm, under the album lock.
Confirm(q) ==
    /\ q \in requests /\ q.op = "checked"
    /\ requests' = requests \ {q}
    /\ IF q.by \in active /\ q.id \in OwnRows(q.by) /\ Pending(q.id)
       THEN /\ avatars' = [id \in AvatarIds |->
                  IF id = q.id THEN [avatars[id] EXCEPT !.st = "confirmed"]
                  ELSE IF id \in Replaced(q.by, q.id) THEN NoRow ELSE avatars[id]]
            /\ queue' = queue \cup Queued(Replaced(q.by, q.id), {})
       ELSE UNCHANGED <<avatars, queue>>
    /\ UNCHANGED <<active, minted, reserved, urls, objects, cleaning, cleaned>>

\* The server stops, or a step fails before it changes anything.
DropRequest(q) ==
    /\ q \in requests
    /\ requests' = requests \ {q}
    /\ UNCHANGED <<active, avatars, minted, reserved, urls, objects, queue, cleaning, cleaned>>

\* DELETE avatar: every row of the member.
Remove(u) ==
    /\ u \in active
    /\ OwnRows(u) # {}
    /\ Retire(OwnRows(u))
    /\ UNCHANGED <<active, minted, reserved, requests, urls, objects, cleaning, cleaned>>

\* The member is revoked, leaves, or its account is deleted.
Depart(u) ==
    /\ u \in active
    /\ active' = active \ {u}
    /\ avatars' = [id \in AvatarIds |-> IF id \in OwnRows(u) THEN NoRow ELSE avatars[id]]
    /\ queue' = queue \cup Queued(TakenWith(u), {})
    /\ UNCHANGED <<minted, reserved, requests, urls, objects, cleaning, cleaned>>

\* DeliverMember reactivates the same member token.
Return(u) ==
    /\ u \notin active
    /\ active' = active \cup {u}
    /\ UNCHANGED <<avatars, minted, reserved, requests, urls, objects, queue, cleaning, cleaned>>

\* QueueStalePending, row by row: two hours exceed the URL's thirty minutes and
\* the hour created_at is truncated by.
SweepStale(id) ==
    /\ Pending(id)
    /\ \A url \in urls : url.key # avatars[id].key
    /\ \A q \in requests : q.op = "presign" => q.key # avatars[id].key
    /\ Retire({id})
    /\ UNCHANGED <<active, minted, reserved, requests, urls, objects, cleaning, cleaned>>

\* A client's PUT: the store enforces the signed length and checksum.
PutObject(url) ==
    /\ url \in urls
    /\ objects[url.key] # url.data
    /\ objects' = [objects EXCEPT ![url.key] = url.data]
    /\ UNCHANGED <<active, avatars, minted, reserved, requests, urls, queue, cleaning, cleaned>>

ExpireURL(url) ==
    /\ url \in urls
    /\ urls' = urls \ {url}
    /\ UNCHANGED <<active, avatars, minted, reserved, requests, objects, queue, cleaning, cleaned>>

\* MediaService.cleanupObjectKeys, shared with media: delete, then acknowledge.
DeleteObject(k) ==
    /\ k \in queue \ cleaning
    /\ objects' = [objects EXCEPT ![k] = NoData]
    /\ cleaning' = cleaning \cup {k}
    /\ UNCHANGED <<active, avatars, minted, reserved, requests, urls, queue, cleaned>>

AckCleanup(k) ==
    /\ k \in cleaning
    /\ cleaning' = cleaning \ {k}
    /\ queue' = queue \ {k}
    /\ cleaned' = cleaned \cup {k}
    /\ UNCHANGED <<active, avatars, minted, reserved, requests, urls, objects>>

CleanupFails(k) ==
    /\ k \in cleaning
    /\ cleaning' = cleaning \ {k}
    /\ UNCHANGED <<active, avatars, minted, reserved, requests, urls, objects, queue, cleaned>>

Next ==
    \/ \E u \in Members, id \in AvatarIds, data \in Data : Reserve(u, id, data)
    \/ \E q \in requests : Presign(q)
    \/ \E u \in Members, id \in AvatarIds : ReadAvatar(u, id)
    \/ \E q \in requests : HeadObject(q)
    \/ \E q \in requests : Confirm(q)
    \/ \E q \in requests : DropRequest(q)
    \/ \E u \in Members : Remove(u)
    \/ \E u \in Members : Depart(u)
    \/ \E u \in Members : Return(u)
    \/ \E id \in AvatarIds : SweepStale(id)
    \/ \E url \in urls : PutObject(url)
    \/ \E url \in urls : ExpireURL(url)
    \/ \E k \in Key : DeleteObject(k)
    \/ \E k \in Key : AckCleanup(k)
    \/ \E k \in Key : CleanupFails(k)

Spec == Init /\ [][Next]_vars

-----------------------------------------------------------------------------
Row == [st : {"pending", "confirmed"}, by : Members, data : Data, key : Key]
Request == [op : {"presign", "confirm", "checked"}, by : Members, id : AvatarIds,
            data : Data, key : Key]

\* Type invariant, with what the partial unique index and the comments of
\* Reserve promise: a member has at most one shown and one pending avatar, no
\* key serves two rows, and no row outlives its member.
TypeOK ==
    /\ active \subseteq Members
    /\ avatars \in [AvatarIds -> Row \cup {NoRow}]
    /\ minted \in 0 .. MaxKeys
    /\ reserved \subseteq AvatarIds
    /\ requests \subseteq Request
    /\ urls \subseteq [key : Key, data : Data]
    /\ objects \in [Key -> Data \cup {NoData}]
    /\ queue \subseteq Key /\ cleaning \subseteq queue /\ cleaned \subseteq Key
    /\ \A i, j \in Rows :
          /\ avatars[i].by \in active
          /\ i # j => /\ avatars[i].key # avatars[j].key
                      /\ avatars[i].by = avatars[j].by => avatars[i].st # avatars[j].st

\* A minted key either belongs to a row or is in the cleanup queue or deleted,
\* never neither and never both: none is lost whichever way its row went
\* (replaced, dropped, swept, removed by its owner, taken with a revoked
\* member), and the cleaner spares the key that a retry of Reserve revives.
KeysAccounted ==
    \A k \in 1 .. minted : (k \in KeysOf(Rows)) # (k \in queue \cup cleaned)

\* An avatar that is shown is in the store as its row claims: the app's use of
\* a fresh id for every upload keeps the unlocked check of Confirm good.
ShownStored ==
    \A id \in AvatarIds : Confirmed(id) /\ id \notin ReusedIds
        => objects[avatars[id].key] = avatars[id].data

\* The comment on Confirm: the uploaded object was checked before it replaces
\* the current avatar, so what gets shown matches its row at that moment.
CheckedBeforeShown ==
    [][\A id \in AvatarIds : (~Confirmed(id) /\ Confirmed(id)')
          => objects[avatars[id].key] = avatars[id].data]_vars

=============================================================================
