--------------------------- MODULE AvatarUploadProofs ---------------------------
(***************************************************************************)
(* What is proved about AvatarUpload for every album, set of ids and       *)
(* number of reservations and requests: keys, and what is shown.           *)
(***************************************************************************)
EXTENDS MCUploads, TLAPS

\* Every key in use was minted, so that the next one is fresh.
MintedBefore ==
    /\ \A id \in Rows : avatars[id].key <= minted
    /\ queue \cup cleaned \subseteq 1 .. minted
    /\ \A q \in requests : q.key <= minted
    /\ \A url \in urls : url.key <= minted

\* A key stands for one content: a reservation keeps a key only for the bytes
\* it was minted for, so a request or a URL on a row's key carries that row's.
OneContent ==
    /\ \A q \in requests, id \in Rows :
          q.key = avatars[id].key => q.data = avatars[id].data
    /\ \A url \in urls, id \in Rows :
          url.key = avatars[id].key => url.data = avatars[id].data

\* What was reserved is remembered.
Remembered ==
    /\ Rows \subseteq reserved
    /\ \A q \in requests : q.id \in reserved

\* A request on an id used once still means the row of that id, if there is
\* one, and once checked the object is there for as long as the row is.
MeansItsRow ==
    \A q \in requests :
        q.id \notin ReusedIds /\ q.id \in Rows
            => /\ q.key = avatars[q.id].key /\ q.data = avatars[q.id].data
               /\ q.op = "checked" => objects[q.key] = q.data

AInv == TypeOK /\ MintedBefore /\ KeysAccounted /\ OneContent /\ Remembered
        /\ MeansItsRow /\ ShownStored
-----------------------------------------------------------------------------
(***************************************************************************)
(* Steps, by what they do to the rows.                                     *)
(***************************************************************************)

\* The rows of S go, their keys are queued; requests may end, members leave.
Taken(S) ==
    /\ S \subseteq Rows
    /\ avatars' = [id \in AvatarIds |-> IF id \in S THEN NoRow ELSE avatars[id]]
    /\ queue' = queue \cup KeysOf(S)
    /\ requests' \subseteq requests
    /\ active' \subseteq Members
    /\ \A id \in Rows \ S : avatars[id].by \in active'
    /\ UNCHANGED <<minted, reserved, urls, objects, cleaning, cleaned>>

\* A row has the fields of a row.
LEMMA RowFields ==
    ASSUME TypeOK, NEW id \in Rows
    PROVE  /\ id \in AvatarIds /\ avatars[id] \in Row
           /\ avatars[id].key \in Key /\ avatars[id].data \in Data
           /\ avatars[id].by \in active
<1>1. avatars[id] \in Row
  BY DEF TypeOK, Rows, NoRow
<1> QED
  BY <1>1 DEF TypeOK, Rows, Row

\* The rows after rows were taken.
LEMMA RowsAfterTaken ==
    ASSUME NEW S, Taken(S)
    PROVE  /\ Rows' = Rows \ S
           /\ \A id \in Rows' : avatars'[id] = avatars[id]
BY DEF Taken, Rows, NoRow

\* Confirm's failed check, an owner's removal, a departure, a return, the sweep
\* and a dropped request take rows and change nothing else of them.
LEMMA Takings ==
    ASSUME TypeOK,
           \/ \E q \in requests : HeadObject(q) /\ ~HeadMatches(q)
           \/ \E q \in requests : DropRequest(q)
           \/ \E u \in Members : Remove(u) \/ Depart(u) \/ Return(u)
           \/ \E id \in AvatarIds : SweepStale(id)
    PROVE  \E S : Taken(S)
<1> DEFINE Goal == \E S : Taken(S)
<1>0. \A id \in Rows : avatars[id].by \in active
  BY DEF TypeOK
<1>n. active \subseteq Members
  BY DEF TypeOK
<1>k. avatars = [id \in AvatarIds |-> avatars[id]]
  BY DEF TypeOK
<1>e. /\ Taken({}) <=> /\ avatars' = avatars /\ queue' = queue
                       /\ requests' \subseteq requests /\ active' \subseteq Members
                       /\ \A id \in Rows : avatars[id].by \in active'
                       /\ UNCHANGED <<minted, reserved, urls, objects, cleaning, cleaned>>
  <2>1. [id \in AvatarIds |-> IF id \in {} THEN NoRow ELSE avatars[id]] = avatars
    BY <1>k
  <2>2. KeysOf({}) = {}
    BY DEF KeysOf
  <2> QED
    BY <2>1, <2>2 DEF Taken
<1>1. ASSUME NEW q \in requests, HeadObject(q), ~HeadMatches(q) PROVE Goal
  <2> DEFINE S == {id \in {q.id} \cap OwnRows(q.by) : Pending(id)}
  <2>1. CASE objects[q.key] = NoData
    BY <1>0, <1>n, <1>1, <1>e, <2>1 DEF HeadObject
  <2>2. CASE objects[q.key] # NoData
    <3>1. S \subseteq Rows
      BY DEF OwnRows
    <3>2. queue' = queue \cup KeysOf(S) /\ active' = active /\ requests' \subseteq requests
      BY <1>1, <2>2 DEF HeadObject, Retire, Queued
    <3> QED
      BY <1>0, <1>n, <1>1, <2>2, <3>1, <3>2 DEF HeadObject, Retire, Taken
  <2> QED
    BY <2>1, <2>2
<1>2. ASSUME NEW q \in requests, DropRequest(q) PROVE Goal
  BY <1>0, <1>n, <1>2, <1>e DEF DropRequest
<1>3. ASSUME NEW u \in Members, Remove(u) PROVE Goal
  <2>1. OwnRows(u) \subseteq Rows
    BY DEF OwnRows
  <2>2. queue' = queue \cup KeysOf(OwnRows(u)) /\ active' = active /\ requests' = requests
    BY <1>3 DEF Remove, Retire, Queued
  <2>3. Taken(OwnRows(u))
    BY <1>0, <1>n, <1>3, <2>1, <2>2 DEF Remove, Retire, Taken
  <2> QED
    BY <2>3
<1>4. ASSUME NEW u \in Members, Depart(u) PROVE Goal
  <2>1. OwnRows(u) \subseteq Rows
    BY DEF OwnRows
  <2>2. queue' = queue \cup KeysOf(OwnRows(u)) /\ active' \subseteq Members
    BY <1>n, <1>4 DEF Depart, TakenWith, Queued
  <2>3. \A id \in Rows \ OwnRows(u) : avatars[id].by \in active'
    BY <1>0, <1>4 DEF Depart, OwnRows
  <2>4. Taken(OwnRows(u))
    BY <1>4, <2>1, <2>2, <2>3 DEF Depart, Taken
  <2> QED
    BY <2>4
<1>5. ASSUME NEW u \in Members, Return(u) PROVE Goal
  BY <1>0, <1>n, <1>5, <1>e DEF Return
<1>6. ASSUME NEW id \in AvatarIds, SweepStale(id) PROVE Goal
  <2>1. {id} \subseteq Rows
    BY <1>6 DEF SweepStale, Rows, Pending
  <2>2. queue' = queue \cup KeysOf({id}) /\ active' = active /\ requests' = requests
    BY <1>6 DEF SweepStale, Retire, Queued
  <2>3. Taken({id})
    BY <1>0, <1>n, <1>6, <2>1, <2>2 DEF SweepStale, Retire, Taken
  <2> QED
    BY <2>3
<1> HIDE DEF Goal
<1>7. Goal
  BY <1>1, <1>2, <1>3, <1>4, <1>5, <1>6
<1> QED
  BY <1>7 DEF Goal

\* Taking rows keeps the invariant: their keys go to the queue, the keys of the
\* rows that stay were never there.
LEMMA TakenKeeps ==
    ASSUME AInv, NEW S, Taken(S)
    PROVE  AInv'
<1> USE RowsAfterTaken DEF AInv
<1>k. KeysOf(Rows)' = {avatars[id].key : id \in Rows \ S}
  BY DEF KeysOf
<1>o. KeysOf(Rows) = {avatars[id].key : id \in Rows}
  BY DEF KeysOf
<1>s. S \subseteq Rows /\ KeysOf(S) = {avatars[id].key : id \in S}
  BY DEF KeysOf, Taken
<1>1. TypeOK'
  <2>1. avatars' \in [AvatarIds -> Row \cup {NoRow}]
    BY DEF TypeOK, Taken
  <2>2. queue' \subseteq Key
    BY <1>s, RowFields DEF TypeOK, Taken
  <2>3. \A i, j \in Rows' :
          /\ avatars'[i].by \in active'
          /\ i # j => /\ avatars'[i].key # avatars'[j].key
                      /\ avatars'[i].by = avatars'[j].by => avatars'[i].st # avatars'[j].st
    BY DEF TypeOK, Taken
  <2> QED
    BY <2>1, <2>2, <2>3 DEF TypeOK, Taken
<1>2. MintedBefore'
  <2>1. KeysOf(S) \subseteq 1 .. minted
    BY <1>s, RowFields DEF MintedBefore, Key, TypeOK
  <2> QED
    BY <2>1 DEF MintedBefore, Taken
<1>3. KeysAccounted'
  <2> SUFFICES ASSUME NEW k \in 1 .. minted
               PROVE  (k \in KeysOf(Rows)') # (k \in queue' \cup cleaned')
    BY DEF KeysAccounted, Taken
  <2>1. (k \in KeysOf(Rows)) # (k \in queue \cup cleaned)
    BY DEF KeysAccounted
  <2>2. queue' \cup cleaned' = (queue \cup cleaned) \cup KeysOf(S)
    BY DEF Taken
  <2>3. KeysOf(Rows) = KeysOf(Rows)' \cup KeysOf(S)
    BY <1>k, <1>o, <1>s
  <2>4. KeysOf(Rows)' \cap KeysOf(S) = {}
    BY <1>k, <1>s DEF TypeOK
  <2> QED
    BY <2>1, <2>2, <2>3, <2>4
<1>4. OneContent'
  BY DEF OneContent, Taken
<1>5. Remembered'
  BY DEF Remembered, Taken
<1>6. MeansItsRow'
  BY DEF MeansItsRow, Taken
<1>7. ShownStored'
  <2> SUFFICES ASSUME NEW id \in AvatarIds, Confirmed(id)', id \notin ReusedIds
               PROVE  objects'[avatars'[id].key] = avatars'[id].data
    BY DEF ShownStored
  <2>1. id \in Rows'
    BY DEF Confirmed, Rows
  <2>2. Confirmed(id) /\ avatars'[id] = avatars[id]
    BY <2>1 DEF Confirmed
  <2> QED
    BY <2>2 DEF ShownStored, Taken
<1> QED
  BY <1>1, <1>2, <1>3, <1>4, <1>5, <1>6, <1>7

\* The invariant holds at the start.
LEMMA AInvInit == Init => AInv
<1> SUFFICES ASSUME Init PROVE AInv
  OBVIOUS
<1>1. Rows = {}
  BY DEF Init, Rows, NoRow
<1>2. MaxKeys \in Nat
  BY AvatarBoundsNat
<1>3. TypeOK
  BY <1>1, <1>2 DEF Init, TypeOK
<1>4. MintedBefore /\ OneContent /\ Remembered /\ MeansItsRow
  BY <1>1 DEF Init, MintedBefore, OneContent, Remembered, MeansItsRow
<1>5. KeysAccounted
  BY DEF Init, KeysAccounted
<1>6. ShownStored
  BY DEF Init, ShownStored, Confirmed, NoRow
<1> QED
  BY <1>3, <1>4, <1>5, <1>6 DEF AInv

\* A row's key is neither queued nor deleted.
LEMMA RowKeyApart ==
    ASSUME AInv, NEW id \in Rows
    PROVE  avatars[id].key \in 1 .. minted /\ avatars[id].key \notin queue \cup cleaned
<1>1. avatars[id].key \in 1 .. minted
  BY RowFields DEF AInv, MintedBefore, Key, TypeOK
<1>2. avatars[id].key \in KeysOf(Rows)
  BY DEF KeysOf
<1> QED
  BY <1>1, <1>2 DEF AInv, KeysAccounted

\* Steps of the handlers and the store that leave the rows alone.
LEMMA QuietKeeps ==
    ASSUME AInv,
           \/ \E q \in requests : Presign(q)
           \/ \E u \in Members, id \in AvatarIds : ReadAvatar(u, id)
           \/ \E q \in requests : HeadObject(q) /\ HeadMatches(q)
           \/ \E url \in urls : PutObject(url) \/ ExpireURL(url)
           \/ \E k \in Key : DeleteObject(k) \/ AckCleanup(k) \/ CleanupFails(k)
    PROVE  AInv'
<1> DEFINE Goal == AInv'
           Still == UNCHANGED <<active, avatars, minted, reserved>>
<1>m. Still
  BY DEF Presign, ReadAvatar, HeadObject, PutObject, ExpireURL, DeleteObject, AckCleanup,
         CleanupFails
<1>r. Rows' = Rows /\ KeysOf(Rows)' = KeysOf(Rows)
  BY <1>m DEF Rows, KeysOf
<1> USE DEF AInv
\* Keys are accounted for as long as queued ones stay queued or deleted.
<1>k. ASSUME queue' \cup cleaned' = queue \cup cleaned PROVE KeysAccounted'
  BY <1>k, <1>m, <1>r DEF KeysAccounted
\* Types, when the store and the queue are well typed.
<1>t. ASSUME requests' \subseteq Request, urls' \subseteq [key : Key, data : Data],
             objects' \in [Key -> Data \cup {NoData}],
             queue' \subseteq Key, cleaning' \subseteq queue', cleaned' \subseteq Key
      PROVE  TypeOK'
  BY <1>t, <1>m, <1>r DEF TypeOK
\* What is shown stays stored while the object of every row does.
<1>s. ASSUME \A id \in Rows : objects'[avatars[id].key] = objects[avatars[id].key]
      PROVE  ShownStored'
  BY <1>s, <1>m DEF ShownStored, Confirmed, Rows
<1>e. Remembered' <=> \A q \in requests' : q.id \in reserved
  BY <1>m, <1>r DEF Remembered
<1>1. ASSUME NEW q \in requests, Presign(q) PROVE Goal
  <2> DEFINE url == [key |-> q.key, data |-> q.data]
  <2>1. q \in Request /\ url \in [key : Key, data : Data]
    BY DEF TypeOK, Request
  <2>2. requests' \subseteq requests /\ urls' = urls \cup {url}
        /\ UNCHANGED <<objects, queue, cleaning, cleaned>>
    BY <1>1 DEF Presign
  <2>3. TypeOK'
    BY <2>1, <2>2, <1>t DEF TypeOK
  <2>4. MintedBefore' /\ OneContent'
    BY <2>2, <1>m, <1>r DEF MintedBefore, OneContent
  <2>5. Remembered' /\ MeansItsRow' /\ ShownStored' /\ KeysAccounted'
    BY <2>2, <1>m, <1>r, <1>k, <1>s, <1>e DEF Remembered, MeansItsRow
  <2> QED
    BY <2>3, <2>4, <2>5
<1>2. ASSUME NEW u \in Members, NEW id \in AvatarIds, ReadAvatar(u, id) PROVE Goal
  <2> DEFINE q == [op |-> IF Confirmed(id) THEN "checked" ELSE "confirm", by |-> u,
                   id |-> id, data |-> avatars[id].data, key |-> avatars[id].key]
  <2>1. id \in Rows
    BY <1>2 DEF ReadAvatar, OwnRows
  <2>2. requests' = requests \cup {q} /\ UNCHANGED <<urls, objects, queue, cleaning, cleaned>>
    BY <1>2 DEF ReadAvatar
  <2>3. q \in Request
    BY <2>1, RowFields DEF Request
  <2>4. TypeOK'
    BY <2>2, <2>3, <1>t DEF TypeOK
  <2>5. MintedBefore'
    BY <2>1, <2>2, <1>m, <1>r DEF MintedBefore
  <2>6. OneContent'
    BY <2>1, <2>2, <1>m, <1>r DEF OneContent, TypeOK
  <2>7. Remembered'
    BY <2>1, <2>2, <1>e DEF Remembered
  <2>8. MeansItsRow'
    BY <2>1, <2>2, <1>m, <1>r DEF MeansItsRow, ShownStored
  <2> QED
    BY <2>2, <2>4, <2>5, <2>6, <2>7, <2>8, <1>k, <1>s
<1>3. ASSUME NEW q \in requests, HeadObject(q), HeadMatches(q) PROVE Goal
  <2> DEFINE r == [q EXCEPT !.op = "checked"]
  <2>1. requests' \subseteq requests \cup {r}
        /\ UNCHANGED <<urls, objects, queue, cleaning, cleaned>>
    BY <1>3 DEF HeadObject
  <2>2. q \in Request
    BY DEF TypeOK
  <2>3. r \in Request /\ r.id = q.id /\ r.key = q.key /\ r.data = q.data
    BY <2>2 DEF Request
  <2> HIDE DEF r
  <2>4. objects[r.key] = r.data
    BY <1>3, <2>3 DEF HeadMatches
  <2>5. TypeOK'
    BY <2>1, <2>3, <1>t DEF TypeOK
  <2>6. MintedBefore' /\ OneContent'
    BY <2>1, <2>3, <1>m, <1>r DEF MintedBefore, OneContent
  <2>7. Remembered' /\ MeansItsRow'
    BY <2>1, <2>3, <2>4, <1>m, <1>r, <1>e DEF Remembered, MeansItsRow
  <2> QED
    BY <2>1, <2>5, <2>6, <2>7, <1>k, <1>s
<1>4. ASSUME NEW url \in urls, PutObject(url) PROVE Goal
  <2>1. objects' = [objects EXCEPT ![url.key] = url.data]
        /\ UNCHANGED <<requests, urls, queue, cleaning, cleaned>>
    BY <1>4 DEF PutObject
  <2>2. url.key \in Key /\ url.data \in Data
    BY DEF TypeOK
  <2>3. \A id \in Rows : avatars[id].key = url.key => objects'[url.key] = avatars[id].data
    BY <2>1, <2>2 DEF TypeOK, OneContent
  <2>4. \A k \in Key : k # url.key => objects'[k] = objects[k]
    BY <2>1, <2>2 DEF TypeOK
  <2>5. TypeOK' /\ MintedBefore' /\ OneContent' /\ Remembered' /\ KeysAccounted'
    BY <2>1, <2>2, <1>m, <1>r, <1>t, <1>k, <1>e DEF TypeOK, MintedBefore, OneContent, Remembered
  <2>6. ShownStored'
    <3> SUFFICES ASSUME NEW id \in AvatarIds, Confirmed(id), id \notin ReusedIds
                 PROVE  objects'[avatars[id].key] = avatars[id].data
      BY <1>m DEF ShownStored, Confirmed
    <3>1. id \in Rows
      BY DEF Confirmed, Rows
    <3> QED
      BY <2>3, <2>4, <3>1, RowFields DEF ShownStored
  <2>7. MeansItsRow'
    <3> SUFFICES ASSUME NEW q \in requests, q.id \notin ReusedIds, q.id \in Rows,
                        q.op = "checked", q.key = avatars[q.id].key,
                        q.data = avatars[q.id].data, objects[q.key] = q.data
                 PROVE  objects'[q.key] = q.data
      BY <2>1, <1>m, <1>r DEF MeansItsRow
    <3> QED
      BY <2>3, <2>4, RowFields
  <2> QED
    BY <2>5, <2>6, <2>7
<1>5. ASSUME NEW url \in urls, ExpireURL(url) PROVE Goal
  <2>1. urls' \subseteq urls /\ UNCHANGED <<requests, objects, queue, cleaning, cleaned>>
    BY <1>5 DEF ExpireURL
  <2> QED
    BY <2>1, <1>m, <1>r, <1>t, <1>k, <1>e, <1>s
       DEF TypeOK, MintedBefore, OneContent, Remembered, MeansItsRow
<1>6. ASSUME NEW k \in Key, DeleteObject(k) PROVE Goal
  <2>1. k \in queue /\ objects' = [objects EXCEPT ![k] = NoData]
        /\ cleaning' = cleaning \cup {k} /\ UNCHANGED <<requests, urls, queue, cleaned>>
    BY <1>6 DEF DeleteObject
  <2>2. \A id \in Rows : objects'[avatars[id].key] = objects[avatars[id].key]
    BY <2>1, RowKeyApart, RowFields DEF TypeOK
  <2>3. TypeOK'
    BY <2>1, <1>t DEF TypeOK
  <2> QED
    BY <2>1, <2>2, <2>3, <1>m, <1>r, <1>k, <1>e, <1>s
       DEF MintedBefore, OneContent, Remembered, MeansItsRow
<1>7. ASSUME NEW k \in Key, AckCleanup(k) \/ CleanupFails(k) PROVE Goal
  <2>1. queue' \cup cleaned' = queue \cup cleaned /\ queue' \subseteq queue
        /\ cleaned' \subseteq cleaned \cup {k} /\ cleaning' \subseteq queue'
        /\ UNCHANGED <<requests, urls, objects>>
    BY <1>7 DEF AckCleanup, CleanupFails, TypeOK
  <2>2. TypeOK'
    BY <2>1, <1>t DEF TypeOK
  <2> QED
    BY <2>1, <2>2, <1>m, <1>r, <1>k, <1>e, <1>s
       DEF MintedBefore, OneContent, Remembered, MeansItsRow
<1> HIDE DEF Goal
<1>8. Goal
  BY <1>1, <1>2, <1>3, <1>4, <1>5, <1>6, <1>7
<1> QED
  BY <1>8 DEF Goal

\* A reservation takes the member's pending rows and writes the new one, under
\* a fresh key or the key its own bytes already had.
LEMMA ReserveKeeps ==
    ASSUME AInv, NEW u \in Members, NEW id \in AvatarIds, NEW data \in Data,
           Reserve(u, id, data)
    PROVE  AInv'
<1> DEFINE kept == Pending(id) /\ avatars[id].data = data
           key == IF kept THEN avatars[id].key ELSE minted + 1
           stale == {i \in OwnRows(u) : Pending(i)}
           row == [st |-> "pending", by |-> u, data |-> data, key |-> key]
           q == [op |-> "presign", by |-> u, id |-> id, data |-> data, key |-> key]
<1> USE DEF AInv
<1>1. /\ u \in active /\ key <= MaxKeys
      /\ id \in ReusedIds \/ id \notin reserved
      /\ avatars[id].st = "none" \/ (Pending(id) /\ avatars[id].by = u)
      /\ avatars' = [i \in AvatarIds |->
            IF i = id THEN row ELSE IF i \in stale THEN NoRow ELSE avatars[i]]
      /\ queue' = queue \cup (KeysOf(stale) \ {key})
      /\ minted' = IF key > minted THEN key ELSE minted
      /\ reserved' = reserved \cup {id} /\ requests' = requests \cup {q}
      /\ UNCHANGED <<active, urls, objects, cleaning, cleaned>>
  BY DEF Reserve, Queued
<1>2. minted \in Nat /\ MaxKeys \in Nat /\ minted <= MaxKeys
  BY AvatarBoundsNat DEF TypeOK
\* The key is the kept row's or the next one.
<1>3. kept => id \in Rows /\ id \in stale
  BY <1>1 DEF Pending, Rows, OwnRows
<1>4. \/ kept /\ key = avatars[id].key /\ key \in 1 .. minted /\ minted' = minted
      \/ ~kept /\ key = minted + 1 /\ minted' = minted + 1
  <2>1. CASE kept
    BY <1>1, <1>2, <1>3, <2>1, RowKeyApart
  <2>2. CASE ~kept
    BY <1>1, <1>2, <2>2
  <2> QED
    BY <2>1, <2>2
<1>5. key \in Key /\ minted' \in 0 .. MaxKeys /\ minted <= minted' /\ key <= minted'
  BY <1>1, <1>2, <1>4 DEF Key
<1>6. row \in Row /\ q \in Request
  BY <1>5 DEF Row, Request
<1>7. row # NoRow /\ row.st # "none"
  BY DEF NoRow
\* The row of the id makes way with the other pending ones.
<1>8. id \in Rows => id \in stale
  BY <1>1 DEF Rows, OwnRows
<1>9. Rows' = (Rows \ stale) \cup {id} /\ stale \subseteq Rows
  BY <1>1, <1>7 DEF Rows, OwnRows, NoRow
<1>10. avatars'[id] = row /\ \A i \in Rows \ stale : i # id /\ avatars'[i] = avatars[i]
  BY <1>1, <1>8 DEF Rows
<1> HIDE DEF row, stale
<1>11. row.key = key /\ row.data = data /\ row.by = u /\ row.st = "pending"
  BY DEF row
\* No other row that stays has the key.
<1>12. \A i \in Rows \ stale : avatars[i].key \in 1 .. minted /\ avatars[i].key # key
  <2> SUFFICES ASSUME NEW i \in Rows \ stale
               PROVE  avatars[i].key \in 1 .. minted /\ avatars[i].key # key
    OBVIOUS
  <2>1. avatars[i].key \in 1 .. minted
    BY RowKeyApart
  <2>2. kept => avatars[i].key # avatars[id].key
    BY <1>3, <1>10 DEF TypeOK
  <2> QED
    BY <1>2, <1>4, <2>1, <2>2
\* What carries the key already carries the content.
<1>13. /\ \A p \in requests : p.key = key => p.data = data
       /\ \A url \in urls : url.key = key => url.data = data
  <2>1. CASE kept
    BY <1>3, <1>4, <2>1 DEF OneContent
  <2>2. CASE ~kept
    <3>1. \A p \in requests : p.key <= minted /\ p.key \in Int
      BY DEF MintedBefore, TypeOK, Request, Key
    <3>2. \A url \in urls : url.key <= minted /\ url.key \in Int
      BY DEF MintedBefore, TypeOK, Key
    <3> QED
      BY <1>2, <1>4, <2>2, <3>1, <3>2
  <2> QED
    BY <2>1, <2>2
<1> HIDE DEF key, kept
<1>t. TypeOK'
  <2>1. avatars' \in [AvatarIds -> Row \cup {NoRow}]
    BY <1>1, <1>6 DEF TypeOK
  <2>2. queue' \subseteq Key /\ cleaning' \subseteq queue'
    <3>1. KeysOf(stale) \subseteq Key
      BY RowFields DEF KeysOf
    <3> QED
      BY <1>1, <3>1 DEF TypeOK
  <2>3. \A i \in Rows' : avatars'[i].by \in active'
    BY <1>1, <1>9, <1>10, <1>11 DEF TypeOK
  <2>4. \A i \in Rows \ stale :
           avatars[i].key # key /\ (avatars[i].by = u => avatars[i].st # "pending")
    BY <1>12 DEF stale, OwnRows, Pending
  <2>5. \A i, j \in Rows' : i # j =>
           /\ avatars'[i].key # avatars'[j].key
           /\ avatars'[i].by = avatars'[j].by => avatars'[i].st # avatars'[j].st
    BY <1>9, <1>10, <1>11, <2>4 DEF TypeOK
  <2>6. requests' \subseteq Request /\ reserved' \subseteq AvatarIds
    BY <1>1, <1>6 DEF TypeOK
  <2> QED
    BY <1>1, <1>5, <2>1, <2>2, <2>3, <2>5, <2>6 DEF TypeOK
<1>m. MintedBefore'
  <2>1. \A i \in Rows' : avatars'[i].key <= minted'
    BY <1>2, <1>4, <1>5, <1>9, <1>10, <1>11, <1>12
  <2>2. KeysOf(stale) \subseteq 1 .. minted
    BY <1>9, RowKeyApart DEF KeysOf
  <2>3. queue' \cup cleaned' \subseteq 1 .. minted'
    BY <1>1, <1>2, <1>4, <2>2 DEF MintedBefore
  <2>4. \A p \in requests : p.key <= minted'
    <3>1. \A p \in requests : p.key \in Int
      BY DEF TypeOK, Request, Key
    <3> QED
      BY <1>2, <1>4, <3>1 DEF MintedBefore
  <2>5. \A url \in urls : url.key <= minted'
    <3>1. \A url \in urls : url.key \in Int
      BY DEF TypeOK, Key
    <3> QED
      BY <1>2, <1>4, <3>1 DEF MintedBefore
  <2>6. q.key = key
    OBVIOUS
  <2> QED
    BY <1>1, <1>5, <2>1, <2>3, <2>4, <2>5, <2>6 DEF MintedBefore
<1>k. KeysAccounted'
  <2>1. KeysOf(Rows)' = {avatars[i].key : i \in Rows \ stale} \cup {key}
    BY <1>9, <1>10, <1>11 DEF KeysOf
  <2>2. KeysOf(Rows) = {avatars[i].key : i \in Rows \ stale} \cup KeysOf(stale)
    BY <1>9 DEF KeysOf
  <2>3. {avatars[i].key : i \in Rows \ stale} \cap KeysOf(stale) = {}
    BY <1>9 DEF KeysOf, TypeOK
  <2>4. \A k \in 1 .. minted : (k \in KeysOf(Rows)) # (k \in queue \cup cleaned)
    BY DEF KeysAccounted
  <2>5. queue' \cup cleaned' = (queue \cup cleaned) \cup (KeysOf(stale) \ {key})
    BY <1>1
  <2>6. CASE kept
    <3>1. key \in KeysOf(stale) /\ key \notin queue \cup cleaned /\ minted' = minted
      BY <1>3, <1>4, <1>9, <2>6, RowKeyApart DEF KeysOf
    <3> QED
      BY <2>1, <2>2, <2>3, <2>4, <2>5, <3>1 DEF KeysAccounted
  <2>7. CASE ~kept
    <3>1. key = minted + 1 /\ minted' = minted + 1
      BY <1>4, <2>7
    <3>2. queue \cup cleaned \subseteq 1 .. minted
      BY DEF MintedBefore
    <3>3. KeysOf(stale) \subseteq 1 .. minted
      BY <1>9, RowKeyApart DEF KeysOf
    <3> SUFFICES ASSUME NEW k \in 1 .. minted + 1
                 PROVE  (k \in KeysOf(Rows)') # (k \in queue' \cup cleaned')
      BY <3>1 DEF KeysAccounted
    <3>4. CASE k = minted + 1
      <4>1. k \notin 1 .. minted
        BY <1>2, <3>4
      <4> QED
        BY <2>1, <2>5, <3>1, <3>2, <3>3, <3>4, <4>1
    <3>5. CASE k # minted + 1
      <4>1. k \in 1 .. minted
        BY <1>2, <3>5
      <4>2. (k \in KeysOf(Rows)) # (k \in queue \cup cleaned)
        BY <2>4, <4>1
      <4> QED
        BY <2>1, <2>2, <2>3, <2>5, <3>1, <3>5, <4>2
    <3> QED
      BY <3>4, <3>5
  <2> QED
    BY <2>6, <2>7
<1>o. OneContent'
  <2>1. q.key = key /\ q.data = data
    OBVIOUS
  <2>2. \A i \in Rows' : \/ i = id /\ avatars'[i].key = key /\ avatars'[i].data = data
                         \/ i \in Rows \ stale /\ avatars'[i] = avatars[i]
    BY <1>9, <1>10, <1>11
  <2> QED
    BY <1>1, <1>12, <1>13, <2>1, <2>2 DEF OneContent
<1>r. Remembered'
  BY <1>1, <1>9 DEF Remembered
\* An id used once has no earlier request.
<1>i. MeansItsRow'
  <2> SUFFICES ASSUME NEW p \in requests', p.id \notin ReusedIds, p.id \in Rows'
               PROVE  /\ p.key = avatars'[p.id].key /\ p.data = avatars'[p.id].data
                      /\ p.op = "checked" => objects'[p.key] = p.data
    BY DEF MeansItsRow
  <2>1. CASE p = q
    BY <1>10, <1>11, <2>1
  <2>2. CASE p # q
    <3>1. p \in requests /\ p.id \in reserved
      BY <1>1, <2>2 DEF Remembered
    <3>2. p.id # id /\ p.id \in Rows \ stale
      BY <1>1, <1>9, <3>1
    <3> QED
      BY <1>1, <1>10, <3>1, <3>2 DEF MeansItsRow
  <2> QED
    BY <2>1, <2>2
<1>s. ShownStored'
  <2> SUFFICES ASSUME NEW i \in AvatarIds, avatars'[i].st = "confirmed", i \notin ReusedIds
               PROVE  objects'[avatars'[i].key] = avatars'[i].data
    BY DEF ShownStored, Confirmed
  <2>1. i \in Rows'
    BY DEF Rows
  <2>2. i \in Rows \ stale /\ avatars'[i] = avatars[i]
    BY <1>9, <1>10, <1>11, <2>1
  <2> QED
    BY <1>1, <2>2 DEF ShownStored, Confirmed
<1> QED
  BY <1>t, <1>m, <1>k, <1>o, <1>r, <1>i, <1>s

\* A confirm shows its row and takes the member's other rows.
LEMMA ConfirmKeeps ==
    ASSUME AInv, NEW q \in requests, Confirm(q)
    PROVE  AInv'
<1> USE DEF AInv
<1>1. CASE ~(q.by \in active /\ q.id \in OwnRows(q.by) /\ Pending(q.id))
  <2>1. /\ requests' \subseteq requests
        /\ UNCHANGED <<avatars, queue, active, minted, reserved, urls, objects, cleaning, cleaned>>
    BY <1>1 DEF Confirm
  <2>2. /\ [id \in AvatarIds |-> IF id \in {} THEN NoRow ELSE avatars[id]] = avatars
        /\ KeysOf({}) = {}
    BY DEF TypeOK, KeysOf
  <2>3. Taken({})
    BY <2>1, <2>2 DEF Taken, TypeOK
  <2> QED
    BY <2>3, TakenKeeps
<1>2. CASE q.by \in active /\ q.id \in OwnRows(q.by) /\ Pending(q.id)
  <2> DEFINE S == OwnRows(q.by) \ {q.id}
             shown == [avatars[q.id] EXCEPT !.st = "confirmed"]
  <2>1. /\ avatars' = [id \in AvatarIds |-> IF id = q.id THEN shown
                        ELSE IF id \in S THEN NoRow ELSE avatars[id]]
        /\ queue' = queue \cup KeysOf(S) /\ requests' \subseteq requests
        /\ UNCHANGED <<active, minted, reserved, urls, objects, cleaning, cleaned>>
        /\ q.op = "checked"
    <3>1. Replaced(q.by, q.id) = S /\ Queued(S, {}) = KeysOf(S)
      BY DEF Replaced, Queued
    <3> QED
      BY <1>2, <3>1 DEF Confirm
  <2>2. q.id \in Rows /\ S \subseteq Rows \ {q.id} /\ avatars[q.id].by = q.by
    BY <1>2 DEF OwnRows
  <2>3. avatars[q.id] \in Row /\ q.id \in AvatarIds
    BY <2>2, RowFields
  <2>4. /\ shown \in Row /\ shown.st = "confirmed" /\ shown.by = q.by
        /\ shown.key = avatars[q.id].key /\ shown.data = avatars[q.id].data
    BY <2>2, <2>3 DEF Row
  <2> HIDE DEF shown
  <2>5. Rows' = Rows \ S
    BY <2>1, <2>2, <2>3, <2>4 DEF Rows, NoRow
  <2>6. avatars'[q.id] = shown /\ \A i \in Rows' \ {q.id} : avatars'[i] = avatars[i]
    BY <2>1, <2>2, <2>3, <2>5 DEF Rows
  <2>7. \A i \in Rows' : /\ avatars'[i].key = avatars[i].key /\ avatars'[i].data = avatars[i].data
                         /\ avatars'[i].by = avatars[i].by
    BY <2>2, <2>4, <2>6
  <2>o. \A i \in Rows' \ {q.id} : avatars[i].by # q.by
    BY <2>5 DEF OwnRows
  <2> HIDE DEF S
  <2>k. /\ KeysOf(Rows)' = {avatars[i].key : i \in Rows \ S}
        /\ KeysOf(S) = {avatars[i].key : i \in S}
        /\ KeysOf(Rows) = {avatars[i].key : i \in Rows}
    <3>1. KeysOf(Rows)' = {avatars'[i].key : i \in Rows'}
      BY DEF KeysOf
    <3>2. {avatars'[i].key : i \in Rows'} = {avatars[i].key : i \in Rows \ S}
      BY <2>5, <2>7
    <3> QED
      BY <2>2, <3>1, <3>2 DEF KeysOf
  <2>8. TypeOK'
    <3>1. avatars' \in [AvatarIds -> Row \cup {NoRow}]
      BY <2>1, <2>4 DEF TypeOK
    <3>2. queue' \subseteq Key /\ cleaning' \subseteq queue'
      BY <2>1, <2>2, <2>k, RowFields DEF TypeOK
    <3>3. \A i, j \in Rows' :
            /\ avatars'[i].by \in active'
            /\ i # j => avatars'[i].key # avatars'[j].key
      BY <2>1, <2>5, <2>7 DEF TypeOK
    <3>4. \A i, j \in Rows' : i # j /\ avatars'[i].by = avatars'[j].by
                                 => avatars'[i].st # avatars'[j].st
      BY <2>2, <2>4, <2>5, <2>6, <2>o DEF TypeOK
    <3> QED
      BY <2>1, <3>1, <3>2, <3>3, <3>4 DEF TypeOK
  <2>9. MintedBefore'
    <3>1. KeysOf(S) \subseteq 1 .. minted
      BY <2>2, <2>k, RowKeyApart
    <3> QED
      BY <2>1, <2>5, <2>7, <3>1 DEF MintedBefore
  <2>10. KeysAccounted'
    <3> SUFFICES ASSUME NEW k \in 1 .. minted
                 PROVE  (k \in KeysOf(Rows)') # (k \in queue' \cup cleaned')
      BY <2>1 DEF KeysAccounted
    <3>1. (k \in KeysOf(Rows)) # (k \in queue \cup cleaned)
      BY DEF KeysAccounted
    <3>2. queue' \cup cleaned' = (queue \cup cleaned) \cup KeysOf(S)
      BY <2>1
    <3>3. KeysOf(Rows) = KeysOf(Rows)' \cup KeysOf(S)
      BY <2>2, <2>k
    <3>4. KeysOf(Rows)' \cap KeysOf(S) = {}
      BY <2>2, <2>k DEF TypeOK
    <3> QED
      BY <3>1, <3>2, <3>3, <3>4
  <2>11. OneContent'
    BY <2>1, <2>5, <2>7 DEF OneContent
  <2>12. Remembered'
    BY <2>1, <2>5 DEF Remembered
  <2>13. MeansItsRow'
    BY <2>1, <2>5, <2>7 DEF MeansItsRow
  <2>14. ShownStored'
    <3> SUFFICES ASSUME NEW i \in AvatarIds, avatars'[i].st = "confirmed", i \notin ReusedIds
                 PROVE  objects'[avatars'[i].key] = avatars'[i].data
      BY DEF ShownStored, Confirmed
    <3>1. i \in Rows'
      BY DEF Rows
    <3>2. CASE i = q.id
      BY <2>1, <2>2, <2>7, <3>1, <3>2 DEF MeansItsRow
    <3>3. CASE i # q.id
      BY <2>1, <2>6, <3>1, <3>3 DEF ShownStored, Confirmed
    <3> QED
      BY <3>2, <3>3
  <2> QED
    BY <2>8, <2>9, <2>10, <2>11, <2>12, <2>13, <2>14
<1> QED
  BY <1>1, <1>2

\* Every step keeps the invariant.
LEMMA AInvStep == AInv /\ [Next]_vars => AInv'
<1> SUFFICES ASSUME AInv, [Next]_vars PROVE AInv'
  OBVIOUS
<1>t. TypeOK
  BY DEF AInv
<1>1. ASSUME NEW u \in Members, NEW id \in AvatarIds, NEW data \in Data, Reserve(u, id, data)
      PROVE  AInv'
  BY <1>1, ReserveKeeps
<1>2. ASSUME NEW q \in requests, Confirm(q) PROVE AInv'
  BY <1>2, ConfirmKeeps
<1>3. ASSUME \/ \E q \in requests : Presign(q)
             \/ \E u \in Members, id \in AvatarIds : ReadAvatar(u, id)
             \/ \E q \in requests : HeadObject(q) /\ HeadMatches(q)
             \/ \E url \in urls : PutObject(url) \/ ExpireURL(url)
             \/ \E k \in Key : DeleteObject(k) \/ AckCleanup(k) \/ CleanupFails(k)
      PROVE  AInv'
  BY <1>3, QuietKeeps
<1>4. ASSUME \/ \E q \in requests : HeadObject(q) /\ ~HeadMatches(q)
             \/ \E q \in requests : DropRequest(q)
             \/ \E u \in Members : Remove(u) \/ Depart(u) \/ Return(u)
             \/ \E id \in AvatarIds : SweepStale(id)
      PROVE  AInv'
  <2>1. PICK S : Taken(S)
    BY <1>t, <1>4, Takings
  <2> QED
    BY <2>1, TakenKeeps
<1>5. CASE UNCHANGED vars
  <2>1. /\ UNCHANGED <<active, avatars, minted, reserved, requests, urls, objects>>
        /\ UNCHANGED <<queue, cleaning, cleaned>>
    BY <1>5 DEF vars
  <2>2. Rows' = Rows
    BY <2>1 DEF Rows
  <2> QED
    BY <2>1, <2>2 DEF AInv, TypeOK, MintedBefore, KeysAccounted, OneContent, Remembered,
       MeansItsRow, ShownStored, Confirmed, KeysOf
<1> QED
  BY <1>1, <1>2, <1>3, <1>4, <1>5 DEF Next

-----------------------------------------------------------------------------
(***************************************************************************)
(* Theorems.                                                               *)
(***************************************************************************)

\* The invariant the theorems rest on: each key has one content and one
\* place, and a request on an id used once means the row it read.
THEOREM AvatarInvariant == Spec => []AInv
BY AInvInit, AInvStep, PTL DEF Spec

\* The unique index and Reserve hold: a member has at most one shown and one
\* pending avatar, a key serves one row, no row outlives its member.
THEOREM AvatarsKeepTypes == Spec => []TypeOK
<1>1. AInv => TypeOK
  BY DEF AInv
<1> QED
  BY <1>1, AvatarInvariant, PTL

\* removeAvatars, unqueueObjectCleanup and the cleaner together lose no storage
\* key and clean none that a row still has.
THEOREM AvatarsAccountForKeys == Spec => []KeysAccounted
<1>1. AInv => KeysAccounted
  BY DEF AInv
<1> QED
  BY <1>1, AvatarInvariant, PTL

\* Confirm shows only what is stored, for ids that are reserved once, although
\* it checks the object before it takes the lock.
THEOREM AvatarsShownAreStored == Spec => []ShownStored
<1>1. AInv => ShownStored
  BY DEF AInv
<1> QED
  BY <1>1, AvatarInvariant, PTL

\* The comment on Confirm is true of a client that never reserves an id twice:
\* reuse is the only way in which an unchecked object gets shown.
THEOREM FreshAvatarsCheckedFirst ==
    ASSUME ReusedIds = {}
    PROVE  Spec => CheckedBeforeShown
<1> DEFINE Promise == \A id \in AvatarIds : (~Confirmed(id) /\ Confirmed(id)')
                          => objects[avatars[id].key] = avatars[id].data
<1>1. AInv /\ [Next]_vars => [Promise]_vars
  <2> SUFFICES ASSUME AInv, Next, NEW id \in AvatarIds, ~Confirmed(id), Confirmed(id)'
               PROVE  objects[avatars[id].key] = avatars[id].data
    OBVIOUS
  <2>t. TypeOK
    BY DEF AInv
  <2>n. ASSUME NEW S, Taken(S) PROVE FALSE
    <3>1. id \in Rows'
      BY DEF Confirmed, Rows
    <3> QED
      BY <2>n, <3>1, RowsAfterTaken DEF Confirmed
  <2>1. ~ \E S : Taken(S)
    BY <2>n
  <2>2. avatars' # avatars
    BY DEF Confirmed
  <2>3. PICK q \in requests : Confirm(q)
    <3>1. ASSUME NEW u \in Members, NEW i \in AvatarIds, NEW data \in Data, Reserve(u, i, data)
          PROVE  FALSE
      BY <3>1 DEF Reserve, Confirmed, NoRow
    <3>2. ~ \/ \E q \in requests : Presign(q)
            \/ \E u \in Members, i \in AvatarIds : ReadAvatar(u, i)
            \/ \E q \in requests : HeadObject(q) /\ HeadMatches(q)
            \/ \E url \in urls : PutObject(url) \/ ExpireURL(url)
            \/ \E k \in Key : DeleteObject(k) \/ AckCleanup(k) \/ CleanupFails(k)
      BY <2>2 DEF Presign, ReadAvatar, HeadObject, PutObject, ExpireURL, DeleteObject,
                  AckCleanup, CleanupFails
    <3>3. ~ \/ \E q \in requests : HeadObject(q) /\ ~HeadMatches(q)
            \/ \E q \in requests : DropRequest(q)
            \/ \E u \in Members : Remove(u) \/ Depart(u) \/ Return(u)
            \/ \E i \in AvatarIds : SweepStale(i)
      BY <2>t, <2>1, Takings
    <3> QED
      BY <3>1, <3>2, <3>3 DEF Next
  <2>4. q.op = "checked" /\ q.id = id /\ id \in Rows
    BY <2>3, <2>2 DEF Confirm, Confirmed, OwnRows, NoRow
  <2> QED
    BY <2>4 DEF AInv, MeansItsRow
<1>2. [][Promise]_vars => CheckedBeforeShown
  BY PTL DEF CheckedBeforeShown
<1> QED
  BY <1>1, AvatarInvariant, PTL DEF Spec, CheckedBeforeShown

-----------------------------------------------------------------------------
(***************************************************************************)
(* Uploads: avatars and photos in one behaviour.                           *)
(***************************************************************************)

\* A behaviour of the uploads is one of the avatars and one of the photos.
LEMMA UploadsAreSides == SidedSpec => Spec /\ Photos!MediaSpec
<1>1. SidedInit => Init /\ Photos!Init /\ Photos!MediaInit
  BY DEF SidedInit
<1>2. [AvatarStep \/ PhotoStep]_<<vars, photoVars, side>> => [Next]_vars
  BY DEF AvatarStep, PhotoStep
<1>3. [AvatarStep \/ PhotoStep]_<<vars, photoVars, side>> => [Photos!MediaNext]_(Photos!vars)
  BY DEF AvatarStep, PhotoStep, photoVars, Photos!vars, Photos!keyVars, Photos!mediaVars
<1> QED
  BY <1>1, <1>2, <1>3, PTL DEF SidedSpec, Spec, Photos!MediaSpec

\* What AlbumMedia assumes of its constants holds of those given here.
LEMMA PhotoConstants ==
    /\ Photos!IsFiniteSet(Users) /\ MaxEpoch \in Nat
    /\ MaxAlbumMembers \in Nat \ {0} /\ MaxInflight \in Nat
    /\ "blob" \in Assets /\ NoData \notin Data /\ MaxRes \in Nat /\ MaxRequests \in Nat
<1>1. Photos!IsFiniteSet(Users)
  BY PhotoKeys DEF IsFiniteSet, Photos!IsFiniteSet
<1> QED
  BY <1>1, PhotoKeys, PhotoMedia, AvatarNoDataNew, AvatarBoundsNat

\* Types of avatars and of photos in every behaviour of the uploads, with two
\* published photos never in the same place of the listing.
THEOREM UploadsKeepTypes == SidedSpec => []UploadTypeOK
<1>1. TypeOK /\ Photos!MediaTypeOK => UploadTypeOK
  BY DEF UploadTypeOK
<1>2. Photos!MediaSpec => []Photos!MediaTypeOK
  BY PhotoConstants, Photos!MediaTypes
<1> QED
  BY <1>1, <1>2, UploadsAreSides, AvatarsKeepTypes, PTL

\* A published photo keeps the objects its row claims, whatever the avatars do.
THEOREM UploadsConfirmedStored == SidedSpec => []ConfirmedStored
<1>1. Photos!MediaSpec => []Photos!ConfirmedStored
  BY PhotoConstants, Photos!MediaConfirmedStored
<1> QED
  BY <1>1, UploadsAreSides, PTL DEF ConfirmedStored

\* What the stale sweep removed never comes back.
THEOREM UploadsSweptStaysClean == SidedSpec => []SweptStaysClean
<1>1. Photos!MediaSpec => []Photos!SweptStaysClean
  BY PhotoConstants, Photos!MediaSweptStaysClean
<1> QED
  BY <1>1, UploadsAreSides, PTL DEF SweptStaysClean
=================================================================================
