------------------------------- MODULE ShelfProofs -------------------------------
(***************************************************************************)
(* What is proved about Shelf for every number of uploads, joins, answers  *)
(* and reports, and every size of the outbox.                              *)
(***************************************************************************)
EXTENDS MCDevice, SessionsProofs

-----------------------------------------------------------------------------
(***************************************************************************)
(* The inductive invariant.                                                *)
(***************************************************************************)

\* A save under way holds the shelf shown, unless a change waits for another;
\* at rest the durable shelf is it, and has no generation without a summary.
SaveAhead ==
    /\ ~dirty /\ saving # <<>> => saving[1] = shelf
    /\ disk = Durable(disk)
    /\ NewestSavedLast

Draining == drain.at # "idle"

\* A drain works on a record no newer than the one stored, and the versions
\* differ when there was a report in between; one that asks has found no
\* confirmation.
DrainBehind ==
    /\ ReportsKept
    /\ Draining =>
         /\ drain.ver <= record.ver /\ drain.seen <= hist.reports
         /\ drain.ver = record.ver => drain.seen = hist.reports
         /\ drain.seen < hist.reports => record.st = "confirmed"
    /\ drain.at \in {"probe", "ours"} /\ drain.ver = record.ver => record.st # "confirmed"

\* As long as the album was never lost nothing says it was, and only a member
\* has a trace of it.
NeverLost ==
    ~hist.lost =>
      /\ album.role # "deleted" /\ record.st # "confirmed"
      /\ drain.at \in {"idle", "probe", "ours"}
      /\ \A e \in posted : e.kind = "added"
      /\ \A i \in 1 .. Len(outbox) : outbox[i].kind = "added"
      /\ \A r \in replies : r.kind # "refused"
      /\ ~Member => /\ ~shelf.held /\ ~disk.held
                    /\ saving # <<>> => ~saving[1].held
                    /\ \A r \in replies : r.kind # "gate" => ~r.shows.held
                    /\ record = NoRecord /\ ~Draining

HInv == ShelfTypeOK /\ SaveAhead /\ DrainBehind /\ NeverLost

-----------------------------------------------------------------------------
(***************************************************************************)
(* Types.                                                                  *)
(***************************************************************************)

Records == [st : {"none", "missing", "confirmed"}, ver : {-1} \cup Nat]
Histories == [reports : Nat, done : Nat, lost : BOOLEAN, unsaved : BOOLEAN]
Saving == {<<>>} \cup {<<s>> : s \in Summary}

\* The values things rest at, and the bounds.
LEMMA ShelfResters ==
    /\ Absent \in Summary /\ NoRecord \in Records /\ NotDraining \in Drains
    /\ NotDraining.at = "idle" /\ ~Absent.held
    /\ NoRecord.st = "none" /\ NoRecord.ver = -1 /\ Len(<<>>) = 0
    /\ <<>> \in Saving /\ <<>> \in Seq(Event)
    /\ Outbox \in Nat /\ Outbox >= 1
    /\ MaxGen \in Nat /\ MaxJoins \in Nat /\ MaxReplies \in Nat /\ MaxReports \in Nat
BY OutboxSize, ShelfBounds
   DEF Absent, NoRecord, NotDraining, Summary, Records, Drains, Saving, Gen

\* The type invariant with its parts named.
LEMMA TypeParts ==
    ASSUME ShelfTypeOK
    PROVE  /\ album \in [role : {"member", "out", "deleted"}, gen : Gen, joins : 0 .. MaxJoins]
           /\ record \in Records /\ hist \in Histories /\ saving \in Saving /\ drain \in Drains
           /\ record.ver \in Int /\ record.ver >= -1 /\ drain.ver \in Int
           /\ hist.reports \in Nat /\ hist.done \in Nat /\ drain.seen \in Nat
           /\ shelf \in Summary /\ disk \in Summary
           /\ shelf.gen \in Int /\ shelf.held \in BOOLEAN /\ disk.held \in BOOLEAN
           /\ shelf.sum \in BOOLEAN
           /\ hist.lost \in BOOLEAN /\ hist.unsaved \in BOOLEAN /\ dirty \in BOOLEAN
           /\ Gen \subseteq Int
           /\ outbox \in Seq(Event)
BY ShelfResters DEF ShelfTypeOK, Records, Histories, Saving, Drains, Summary, Gen

\* A saved snapshot is a summary.
LEMMA Snapshot ==
    ASSUME saving \in Saving
    PROVE  saving # <<>> => saving[1] \in Summary /\ saving = <<saving[1]>>
BY DEF Saving

\* What is durable is a summary, and durable as it is.
LEMMA DurableTypes ==
    ASSUME NEW s \in Summary
    PROVE  /\ Durable(s) \in Summary /\ Durable(Durable(s)) = Durable(s)
           /\ Durable(s).held = s.held /\ Durable(Absent) = Absent
<1>1. s.gen \in Gen /\ 0 \in Gen
  BY ShelfResters DEF Summary, Gen
<1> QED
  BY <1>1 DEF Durable, Summary, Absent

\* A report that is recorded makes a later record, and counts when it is a
\* confirmed one.
LEMMA ReportMakes ==
    ASSUME ShelfTypeOK, NEW confirmed \in BOOLEAN, Report(confirmed)
    PROVE  /\ record' \in Records /\ hist' \in Histories
           /\ hist'.done = hist.done /\ hist'.lost = hist.lost /\ hist'.unsaved = hist.unsaved
           /\ \/ /\ record'.ver = record.ver + 1
                 /\ record'.st = IF confirmed \/ record.st = "confirmed" THEN "confirmed"
                                 ELSE "missing"
                 /\ hist'.reports = IF confirmed THEN hist.reports + 1 ELSE hist.reports
              \/ UNCHANGED <<record, hist>>
<1>1. record \in Records /\ hist \in Histories
  BY TypeParts
<1>2. CASE UNCHANGED <<record, hist>>
  BY <1>1, <1>2
<1>3. CASE /\ record' = Recorded(confirmed)
           /\ hist' = [hist EXCEPT !.reports = IF confirmed THEN @ + 1 ELSE @]
  <2>1. record.ver + 1 \in Nat
    BY TypeParts
  <2> QED
    BY <1>1, <1>3, <2>1 DEF Recorded, Records, Histories
<1> QED
  BY <1>2, <1>3 DEF Report

\* An album's state as the server's steps change it.
LEMMA AlbumTypes ==
    ASSUME ShelfTypeOK
    PROVE  /\ album.gen < MaxGen =>
                [album EXCEPT !.gen = album.gen + 1] \in
                  [role : {"member", "out", "deleted"}, gen : Gen, joins : 0 .. MaxJoins]
           /\ \A r \in {"out", "deleted"} : [album EXCEPT !.role = r] \in
                  [role : {"member", "out", "deleted"}, gen : Gen, joins : 0 .. MaxJoins]
           /\ album.joins < MaxJoins =>
                [album EXCEPT !.role = "member", !.joins = album.joins + 1] \in
                  [role : {"member", "out", "deleted"}, gen : Gen, joins : 0 .. MaxJoins]
<1>1. /\ album.gen \in Int /\ album.gen >= 0 /\ album.joins \in Int /\ album.joins >= 0
      /\ album \in [role : {"member", "out", "deleted"}, gen : Gen, joins : 0 .. MaxJoins]
  BY TypeParts, ShelfResters DEF Gen
<1>2. album.gen < MaxGen => album.gen + 1 \in Gen
  BY <1>1, ShelfResters DEF Gen
<1>3. album.joins < MaxJoins => album.joins + 1 \in 0 .. MaxJoins
  BY <1>1, ShelfResters
<1> QED
  BY <1>1, <1>2, <1>3

\* The server's steps keep the types.
LEMMA TypedServer ==
    ASSUME ShelfTypeOK,
           \/ Upload \/ RemoveMember \/ Join \/ DeleteAlbum \/ IssueTicket \/ ServeWS
           \/ Unregister \/ ListAlbums \/ GetAlbum \/ Refuse \/ \E e \in posted : Emit(e)
    PROVE  ShelfTypeOK'
<1> USE DEF ShelfTypeOK, eventVars, appVars, cleanupVars
<1>0. \A f \in BOOLEAN : [hist EXCEPT !.lost = f] \in
                           [reports : Nat, done : Nat, lost : BOOLEAN, unsaved : BOOLEAN]
  OBVIOUS
<1>1. CASE Upload
  <2>1. album.gen + 1 \in Gen
    BY <1>1, ShelfResters DEF Upload, Gen
  <2>2. [kind |-> "added", gen |-> album.gen + 1] \in Event
    BY <2>1 DEF Event
  <2> QED
    BY <1>1, <2>2, AlbumTypes DEF Upload, Post
<1>2. CASE RemoveMember
  <2>1. [kind |-> "revoked"] \in Event
    BY DEF Event
  <2> QED
    BY <1>0, <1>2, <2>1, AlbumTypes DEF RemoveMember, Post
<1>3. CASE Join
  BY <1>3, AlbumTypes DEF Join
<1>4. CASE DeleteAlbum
  <2>1. [kind |-> "gone"] \in Event
    BY DEF Event
  <2> QED
    <3>1. posted' \subseteq Event
      BY <1>4, <2>1 DEF DeleteAlbum, Post
    <3>2. hist' \in [reports : Nat, done : Nat, lost : BOOLEAN, unsaved : BOOLEAN]
      BY <1>0, <1>4 DEF DeleteAlbum
    <3>3. album' \in [role : {"member", "out", "deleted"}, gen : Gen, joins : 0 .. MaxJoins]
      BY <1>4, AlbumTypes DEF DeleteAlbum
    <3> QED
      BY <1>4, <3>1, <3>2, <3>3 DEF DeleteAlbum
<1>5. CASE IssueTicket \/ ServeWS
  BY <1>5 DEF IssueTicket, ServeWS
<1>9. CASE Unregister
  <2>1. outbox' \in Seq(Event) /\ Len(outbox') <= Outbox
    BY <1>9, ShelfResters DEF Unregister
  <2> QED
    BY <1>9, <2>1 DEF Unregister
<1>6. CASE ListAlbums
  <2>1. PICK s \in Summary : replies' = replies \cup {[kind |-> "listing", shows |-> s]}
    <3>1. [held |-> TRUE, gen |-> album.gen, sum |-> TRUE] \in Summary
      BY DEF Summary
    <3> QED
      BY <1>6, <3>1, ShelfResters DEF ListAlbums
  <2>2. [kind |-> "listing", shows |-> s] \in Reply
    BY DEF Reply
  <2> QED
    BY <1>6, <2>1, <2>2 DEF ListAlbums
<1>10. CASE GetAlbum
  <2>1. [held |-> TRUE, gen |-> 0, sum |-> FALSE] \in Summary
    BY ShelfResters DEF Summary, Gen
  <2>2. [kind |-> "album", shows |-> [held |-> TRUE, gen |-> 0, sum |-> FALSE]] \in Reply
    BY <2>1 DEF Reply
  <2> QED
    BY <1>10, <2>2 DEF GetAlbum
<1>7. CASE Refuse
  <2>1. [kind |-> "refused"] \in Reply
    BY DEF Reply
  <2> QED
    BY <1>7, <2>1 DEF Refuse
<1>8. ASSUME NEW e \in posted, Emit(e) PROVE ShelfTypeOK'
  <2>1. CASE outbox' = outbox
    BY <1>8, <2>1 DEF Emit
  <2>2. CASE HasSpace /\ outbox' = Append(outbox, e)
    <3>1. outbox' \in Seq(Event) /\ Len(outbox') = Len(outbox) + 1
      BY <2>2
    <3>2. Len(outbox') <= Outbox
      BY <2>2, <3>1, ShelfResters DEF HasSpace
    <3> QED
      BY <1>8, <3>1, <3>2 DEF Emit
  <2> QED
    BY <1>8, <2>1, <2>2 DEF Emit
<1> QED
  BY <1>1, <1>2, <1>3, <1>4, <1>5, <1>6, <1>7, <1>8, <1>9, <1>10

\* What the phone does with an event, given the event.
LEMMA Received ==
    ASSUME ShelfTypeOK, Receive
    PROVE  /\ Head(outbox) \in Event /\ outbox' = Tail(outbox)
           /\ outbox' \in Seq(Event) /\ Len(outbox') = Len(outbox) - 1
           /\ \A i \in 1 .. Len(outbox') : outbox'[i] = outbox[i + 1]
           /\ Len(outbox) >= 1 /\ Head(outbox) = outbox[1]
           /\ UNCHANGED <<album, posted, link, replies, drain>>
           /\ \/ /\ Head(outbox).kind = "added"
                 /\ \/ UNCHANGED appVars
                    \/ /\ shelf.held /\ Head(outbox).gen > shelf.gen
                       /\ Show([shelf EXCEPT !.gen = Head(outbox).gen])
                 /\ UNCHANGED <<record, hist>>
              \/ /\ Head(outbox).kind # "added"
                 /\ Report(TRUE) /\ UNCHANGED appVars
              \/ UNCHANGED <<appVars, record, hist>>
<1>1. outbox \in Seq(Event) /\ outbox # <<>>
  BY DEF Receive, ShelfTypeOK
<1>2. Head(outbox) \in Event /\ Tail(outbox) \in Seq(Event)
  BY <1>1
<1>3. /\ Len(Tail(outbox)) = Len(outbox) - 1 /\ Len(outbox) >= 1
      /\ \A i \in 1 .. Len(Tail(outbox)) : Tail(outbox)[i] = outbox[i + 1]
      /\ Head(outbox) = outbox[1]
  BY <1>1
<1> QED
  BY <1>1, <1>2, <1>3 DEF Receive

\* The phone's steps keep the types.
LEMMA ShelfTypedPhone ==
    ASSUME ShelfTypeOK,
           \/ Receive \/ StartSave \/ EndSave \/ Restart
           \/ \E r \in replies : Answer(r) \/ LoseReply(r)
    PROVE  ShelfTypeOK'
<1> USE DEF eventVars, appVars, cleanupVars
<1> DEFINE ShelfTypes == /\ shelf' \in Summary /\ disk' \in Summary /\ dirty' \in BOOLEAN
                         /\ saving' \in Saving
<1>0. ASSUME NEW s \in Summary, Show(s) PROVE ShelfTypes
  BY <1>0, TypeParts DEF Show
<1>00. /\ UNCHANGED appVars => ShelfTypes
       /\ UNCHANGED <<record, hist>> => record' \in Records /\ hist' \in Histories
  BY TypeParts
<1>1. CASE Receive
  <2>1. ShelfTypes /\ record' \in Records /\ hist' \in Histories
    <3>1. CASE /\ Head(outbox).kind = "added"
               /\ Show([shelf EXCEPT !.gen = Head(outbox).gen])
               /\ UNCHANGED <<record, hist>>
      <4>1. Head(outbox).gen \in Gen
        BY <1>1, <3>1, Received DEF Event
      <4>2. [shelf EXCEPT !.gen = Head(outbox).gen] \in Summary
        BY <4>1, TypeParts DEF Summary
      <4> QED
        BY <1>0, <1>00, <3>1, <4>2
    <3>2. CASE Report(TRUE) /\ UNCHANGED appVars
      BY <1>00, <3>2, ReportMakes
    <3>3. CASE UNCHANGED appVars /\ UNCHANGED <<record, hist>>
      BY <1>00, <3>3
    <3>4. \/ UNCHANGED appVars /\ UNCHANGED <<record, hist>>
          \/ Report(TRUE) /\ UNCHANGED appVars
          \/ /\ Head(outbox).kind = "added"
             /\ Show([shelf EXCEPT !.gen = Head(outbox).gen])
             /\ UNCHANGED <<record, hist>>
      BY <1>1, Received
    <3> QED
      BY <3>1, <3>2, <3>3, <3>4
  <2>2. Len(outbox') <= Outbox
    <3>1. Len(outbox) \in Nat /\ Len(outbox) <= Outbox /\ Len(outbox') = Len(outbox) - 1
      <4>1. Len(outbox) \in Nat
        BY TypeParts
      <4>2. Len(outbox') = Len(outbox) - 1
        BY <1>1, Received
      <4> QED
        BY <4>1, <4>2 DEF ShelfTypeOK
    <3> QED
      BY <3>1, ShelfResters
  <2> QED
    BY <1>1, <2>1, <2>2, Received DEF ShelfTypeOK, Records, Histories, Saving
<1>2. ASSUME NEW r \in replies, Answer(r) PROVE ShelfTypeOK'
  <2>0. r \in Reply
    BY DEF ShelfTypeOK
  <2>1. ShelfTypes /\ record' \in Records /\ hist' \in Histories
    <3>1. CASE /\ r.kind \in {"listing", "album", "stored"}
               /\ Show(Merged(r.shows)) \/ Show(r.shows)
               /\ UNCHANGED <<record, hist>>
      <4>1. r.shows \in Summary
        BY <2>0, <3>1 DEF Reply
      <4>2. Merged(r.shows) \in Summary
        BY <4>1, TypeParts DEF Merged, Summary
      <4> QED
        BY <1>0, <1>00, <3>1, <4>1, <4>2
    <3>2. CASE /\ Show(Absent)
               /\ Report(FALSE) \/ UNCHANGED <<record, hist>>
      BY <1>0, <1>00, <3>2, ShelfResters, ReportMakes
    <3>3. CASE /\ UNCHANGED appVars
               /\ Report(TRUE) \/ UNCHANGED <<record, hist>>
      BY <1>00, <3>3, ReportMakes
    <3> QED
      BY <1>2, <3>1, <3>2, <3>3 DEF Answer
  <2>2. replies' \subseteq Reply
    <3>1. [kind |-> "stored", shows |-> disk] \in Reply
      BY TypeParts DEF Reply
    <3> QED
      BY <1>2, <3>1 DEF Answer, ShelfTypeOK
  <2> QED
    BY <1>2, <2>1, <2>2 DEF Answer, ShelfTypeOK, Records, Histories, Saving
<1>3. ASSUME NEW r \in replies, LoseReply(r) PROVE ShelfTypeOK'
  BY <1>3 DEF LoseReply, ShelfTypeOK
<1>4. CASE StartSave
  BY <1>4 DEF StartSave, ShelfTypeOK
<1>5. CASE EndSave
  <2>1. saving[1] \in Summary
    BY <1>5, TypeParts, Snapshot DEF EndSave
  <2>2. hist' \in Histories
    BY <1>5, TypeParts DEF EndSave, Histories
  <2>3. disk' \in Summary
    BY <1>5, <2>1, TypeParts, DurableTypes DEF EndSave
  <2> QED
    BY <1>5, <2>2, <2>3 DEF EndSave, SavesAgain, ShelfTypeOK, Histories
<1>6. CASE Restart
  <2>1. hist' \in Histories
    BY <1>6, TypeParts DEF Restart, Histories
  <2> QED
    <3>1. /\ shelf' \in Summary /\ dirty' \in BOOLEAN /\ saving' \in Saving
          /\ drain' \in Drains /\ link' \in {"down", "ticket", "up"}
      BY <1>6, TypeParts, ShelfResters DEF Restart, Stop
    <3>3. replies' \subseteq Reply
      BY <1>6 DEF Restart, Reply
    <3>2. outbox' \in Seq(Event) /\ Len(outbox') <= Outbox
      BY <1>6, ShelfResters DEF Restart
    <3> QED
      BY <1>6, <2>1, <3>1, <3>2, <3>3 DEF Restart, ShelfTypeOK, Histories, Saving
<1> QED
  BY <1>1, <1>2, <1>3, <1>4, <1>5, <1>6

\* So do the drain's.
LEMMA TypedDrain ==
    ASSUME ShelfTypeOK,
           BeginDrain \/ Probe \/ Settle \/ Wipe \/ DropRow \/ Verify \/ WipeFails
    PROVE  ShelfTypeOK'
<1> USE DEF eventVars, appVars, cleanupVars, Stop
<1>0. ASSUME NEW at \in {"idle", "probe", "ours", "gone", "wipe", "drop", "verify"}
      PROVE  [drain EXCEPT !.at = at] \in Drains
  BY TypeParts DEF Drains
<1>1. CASE BeginDrain
  <2>1. drain' \in Drains
    BY <1>1, TypeParts DEF BeginDrain, Drains, Records
  <2> QED
    BY <1>1, <2>1 DEF BeginDrain, ShelfTypeOK
<1>2. CASE Probe
  <2>1. drain' \in Drains
    BY <1>0, <1>2, ShelfResters DEF Probe, ProbeFailure
  <2>2. record' \in Records /\ hist' \in Histories
    BY <1>2, TypeParts, ReportMakes DEF Probe
  <2> QED
    BY <1>2, <2>1, <2>2 DEF Probe, ShelfTypeOK, Records, Histories
<1>3. CASE Settle
  <2>1. drain' \in Drains /\ record' \in Records
    BY <1>0, <1>3, TypeParts, ShelfResters DEF Settle, RecordAfter
  <2> QED
    BY <1>3, <2>1 DEF Settle, ShelfTypeOK, Records
<1>4. CASE Wipe
  BY <1>0, <1>4, ShelfResters DEF Wipe, Show, ShelfTypeOK
<1>5. CASE DropRow
  <2>1. hist' \in Histories
    BY <1>5, TypeParts DEF DropRow, Histories
  <2> QED
    BY <1>0, <1>5, <2>1, ShelfResters DEF DropRow, ShelfTypeOK, Histories
<1>6. CASE Verify
  <2>1. hist' \in Histories
    BY <1>6, TypeParts DEF Verify, Histories
  <2>2. record' \in Records
    BY <1>6, TypeParts, ShelfResters DEF Verify, RecordAfter
  <2> QED
    BY <1>6, <2>1, <2>2, ShelfResters DEF Verify, ShelfTypeOK, Histories, Records
<1>7. CASE WipeFails
  BY <1>7, ShelfResters DEF WipeFails, ShelfTypeOK
<1> QED
  BY <1>1, <1>2, <1>3, <1>4, <1>5, <1>6, <1>7

\* Every step keeps the types.
LEMMA ShelfTypedStep == ASSUME ShelfTypeOK, [ShelfNext]_shelfVars PROVE ShelfTypeOK'
<1>1. CASE UNCHANGED shelfVars
  BY <1>1 DEF shelfVars, eventVars, appVars, cleanupVars, ShelfTypeOK
<1> QED
  BY <1>1, TypedServer, ShelfTypedPhone, TypedDrain DEF ShelfNext

\* It starts with them.
LEMMA ShelfTypedInit == ShelfInit => ShelfTypeOK
<1> SUFFICES ASSUME ShelfInit PROVE ShelfTypeOK
  OBVIOUS
<1>1. album \in [role : {"member", "out", "deleted"}, gen : Gen, joins : 0 .. MaxJoins]
  BY ShelfResters DEF ShelfInit, Gen
<1>2. outbox \in Seq(Event) /\ Len(outbox) <= Outbox
  BY ShelfResters DEF ShelfInit
<1>3. record \in Records /\ drain \in Drains /\ hist \in Histories
  BY ShelfResters DEF ShelfInit, Histories
<1> QED
  BY <1>1, <1>2, <1>3, ShelfResters DEF ShelfInit, ShelfTypeOK, Records, Histories

\* The shelf, its records and the queue of events keep their types, and the
\* queue its limit.
THEOREM ShelfKeepsTypes == ShelfSpec => []ShelfTypeOK
BY ShelfTypedInit, ShelfTypedStep, PTL DEF ShelfSpec

-----------------------------------------------------------------------------
(***************************************************************************)
(* Saving.                                                                 *)
(***************************************************************************)

\* The steps that touch the shelf, or whether the last save failed.
LEMMA SaveSteps ==
    ASSUME ShelfTypeOK, [ShelfNext]_shelfVars
    PROVE  \/ \E s : Show(s) /\ hist'.unsaved = hist.unsaved
           \/ StartSave \/ EndSave \/ DropRow \/ Restart
           \/ UNCHANGED appVars /\ hist'.unsaved = hist.unsaved
<1> DEFINE Goal == \/ \E s : Show(s) /\ hist'.unsaved = hist.unsaved
                   \/ StartSave \/ EndSave \/ DropRow \/ Restart
                   \/ UNCHANGED appVars /\ hist'.unsaved = hist.unsaved
<1>0. hist \in Histories
  BY TypeParts
<1>1. ASSUME \/ Upload \/ Join \/ IssueTicket \/ ServeWS \/ Unregister
             \/ ListAlbums \/ GetAlbum \/ Refuse
             \/ (\E e \in posted : Emit(e)) \/ (\E r \in replies : LoseReply(r))
             \/ BeginDrain \/ Settle \/ WipeFails \/ UNCHANGED shelfVars
      PROVE  Goal
  BY <1>1 DEF shelfVars, Upload, Join, IssueTicket, ServeWS, Unregister, ListAlbums, GetAlbum, Refuse,
              Emit, LoseReply, BeginDrain, Settle, WipeFails
<1>2. ASSUME RemoveMember \/ DeleteAlbum PROVE Goal
  BY <1>0, <1>2 DEF RemoveMember, DeleteAlbum, Histories
<1>3. ASSUME NEW r \in replies, Answer(r) PROVE Goal
  BY <1>3, ReportMakes DEF Answer
<1>4. ASSUME Receive PROVE Goal
  BY <1>4, Received, ReportMakes
<1>5. ASSUME Probe PROVE Goal
  BY <1>5, ReportMakes DEF Probe
<1>6. ASSUME Wipe PROVE Goal
  BY <1>6 DEF Wipe
<1>7. ASSUME Verify PROVE Goal
  BY <1>0, <1>7 DEF Verify, Histories
<1> HIDE DEF Goal
<1>8. Goal
  BY <1>1, <1>2, <1>3, <1>4, <1>5, <1>6, <1>7 DEF ShelfNext, Goal
<1> QED
  BY <1>8 DEF Goal

\* A save that ends is followed by another when the shelf changed meanwhile.
LEMMA SaveStep ==
    ASSUME ShelfTypeOK, SaveAhead, [ShelfNext]_shelfVars
    PROVE  SaveAhead'
<1> USE DEF SaveAhead, NewestSavedLast
<1>0. hist \in Histories /\ shelf \in Summary /\ disk \in Summary
  BY TypeParts
<1>1. CASE \E s : Show(s)
  BY <1>1 DEF Show, Durable
<1>2. CASE StartSave
  BY <1>2 DEF StartSave, Durable
<1>3. CASE EndSave
  <2>1. saving[1] \in Summary /\ saving # <<>>
    BY <1>3, TypeParts, Snapshot DEF EndSave
  <2>2. disk' = Durable(saving[1]) \/ hist'.unsaved
    <3>1. CASE hist' = [hist EXCEPT !.unsaved = TRUE]
      BY <1>0, <3>1 DEF Histories
    <3>2. CASE disk' = Durable(saving[1])
      BY <3>2
    <3> QED
      BY <1>3, <3>1, <3>2 DEF EndSave
  <2>3. disk' = Durable(disk')
    <3>1. CASE disk' = Durable(saving[1])
      BY <2>1, <3>1, DurableTypes
    <3>2. CASE disk' = disk
      BY <3>2
    <3> QED
      BY <1>3, <3>1, <3>2 DEF EndSave
  <2>4. ~dirty' => hist'.unsaved \/ disk' = Durable(shelf')
    BY <1>3, <2>1, <2>2 DEF EndSave, SavesAgain
  <2>5. Durable(disk)' = Durable(disk') /\ Durable(shelf)' = Durable(shelf')
    BY DEF Durable
  <2> QED
    BY <1>3, <2>3, <2>4, <2>5 DEF EndSave
<1>4. CASE DropRow
  <2>1. hist'.unsaved
    BY <1>0, <1>4 DEF DropRow, Histories
  <2>2. disk' = Absent /\ Durable(disk)' = Durable(disk')
    BY <1>4 DEF DropRow, Durable
  <2> QED
    BY <1>0, <1>4, <2>1, <2>2, DurableTypes DEF DropRow
<1>5. CASE Restart
  <2>1. hist'.unsaved \/ shelf' = disk
    BY <1>0, <1>5 DEF Restart, Histories
  <2> QED
    BY <1>5, <2>1 DEF Restart, Durable
<1>6. CASE UNCHANGED appVars /\ hist'.unsaved = hist.unsaved
  BY <1>6 DEF appVars, Durable
<1> QED
  BY <1>1, <1>2, <1>3, <1>4, <1>5, <1>6, SaveSteps

\* However changes and saves interleave, the newest shelf is the last written.
THEOREM ShelfSavesNewestLast == ShelfSpec => []NewestSavedLast
<1>1. ShelfInit => SaveAhead
  BY DEF ShelfInit, SaveAhead, NewestSavedLast, Durable, Absent
<1>2. ShelfSpec => [](ShelfTypeOK /\ SaveAhead)
  BY <1>1, ShelfTypedInit, ShelfTypedStep, SaveStep, PTL DEF ShelfSpec
<1>3. SaveAhead => NewestSavedLast
  BY DEF SaveAhead
<1> QED
  BY <1>2, <1>3, PTL

\* An album with its summary goes back only to what the phone had saved.
THEOREM ShelfGoesForward == ShelfSpec => ShelfForward
<1>1. ASSUME ShelfTypeOK, [ShelfNext]_shelfVars,
             shelf.held, shelf.sum, shelf'.held, shelf'.sum, shelf'.gen < shelf.gen
      PROVE  shelf' = disk
  <2>0. shelf.gen \in Int /\ Gen \subseteq Int /\ shelf \in Summary
    BY <1>1, TypeParts
  <2>1. CASE shelf' = shelf
    BY <1>1, <2>0, <2>1
  <2>a. CASE shelf' = Absent
    BY <1>1, <2>a, ShelfResters
  <2>2. CASE Restart
    BY <2>2, <2>a DEF Restart
  <2>3. CASE Receive
    <3>1. \/ shelf' = shelf
          \/ /\ Head(outbox).kind = "added" /\ Head(outbox).gen > shelf.gen
             /\ shelf' = [shelf EXCEPT !.gen = Head(outbox).gen]
      BY <1>1, <2>3, Received DEF appVars, Show
    <3>2. CASE /\ Head(outbox).kind = "added" /\ Head(outbox).gen > shelf.gen
               /\ shelf' = [shelf EXCEPT !.gen = Head(outbox).gen]
      <4>1. Head(outbox).gen \in Int
        BY <1>1, <2>0, <2>3, <3>2, Received DEF Event
      <4>2. shelf'.gen = Head(outbox).gen
        BY <2>0, <3>2 DEF Summary
      <4> QED
        BY <1>1, <2>0, <3>2, <4>1, <4>2
    <3> QED
      BY <2>1, <3>1, <3>2
  <2>4. ASSUME NEW r \in replies, Answer(r) PROVE shelf' = disk
    <3>1. \/ shelf' = shelf
          \/ shelf' = Absent
          \/ r.kind \in {"listing", "stored"} /\ shelf' = Merged(r.shows)
      BY <1>1, <2>4 DEF Answer, Show, appVars
    <3>2. CASE r.kind \in {"listing", "stored"} /\ shelf' = Merged(r.shows)
      <4>1. r.shows \in Summary /\ r.shows.gen \in Int
        BY <1>1, <2>0, <3>2 DEF ShelfTypeOK, Reply, Summary
      <4>2. CASE r.shows.sum /\ r.shows.gen < shelf.gen
        <5>1. shelf' = [r.shows EXCEPT !.gen = shelf.gen]
          BY <1>1, <3>2, <4>2 DEF Merged
        <5>2. shelf'.gen = shelf.gen
          BY <4>1, <5>1 DEF Summary
        <5> QED
          BY <1>1, <2>0, <5>2
      <4>3. CASE ~(r.shows.sum /\ r.shows.gen < shelf.gen)
        <5>1. shelf' = r.shows
          BY <3>2, <4>3 DEF Merged
        <5> QED
          BY <1>1, <4>3, <5>1
      <4> QED
        BY <4>2, <4>3
    <3> QED
      BY <2>1, <2>a, <3>1, <3>2
  <2>5. CASE Wipe
    BY <2>5, <2>a DEF Wipe, Show
  <2>6. \/ shelf' = shelf \/ Restart \/ Receive \/ Wipe \/ \E r \in replies : Answer(r)
    BY <1>1 DEF ShelfNext, shelfVars, appVars, Upload, RemoveMember, Join, DeleteAlbum,
         IssueTicket, ServeWS, Unregister, ListAlbums, GetAlbum, Refuse, Emit, LoseReply,
         StartSave, EndSave, BeginDrain, Probe, Settle, DropRow, Verify, WipeFails
  <2> QED
    BY <2>1, <2>2, <2>3, <2>4, <2>5, <2>6
<1>2. ShelfTypeOK /\ [ShelfNext]_shelfVars =>
        [shelf.held /\ shelf.sum /\ shelf'.held /\ shelf'.sum /\ shelf'.gen < shelf.gen
           => shelf' = disk]_shelfVars
  BY <1>1
<1> QED
  BY <1>2, ShelfKeepsTypes, PTL DEF ShelfSpec, ShelfForward

-----------------------------------------------------------------------------
(***************************************************************************)
(* The cleanup queue.                                                      *)
(***************************************************************************)

\* What a step does to the record, the drain and the counts: a report, a step
\* of the drain, its end, or nothing.
LEMMA DrainSteps ==
    ASSUME ShelfTypeOK, [ShelfNext]_shelfVars
    PROVE  \/ (\E c \in BOOLEAN : Report(c)) /\ drain' = drain
           \/ BeginDrain \/ Settle \/ Verify
           \/ Probe
           \/ /\ \/ drain' = drain \/ drain' = NotDraining
                 \/ drain.at = "wipe" /\ drain' = [drain EXCEPT !.at = "drop"]
                 \/ drain.at = "drop" /\ drain' = [drain EXCEPT !.at = "verify"]
              /\ record' = record /\ hist'.reports = hist.reports /\ hist'.done = hist.done
<1> DEFINE Kept == /\ record' = record /\ hist'.reports = hist.reports
                   /\ hist'.done = hist.done
           Goal == \/ (\E c \in BOOLEAN : Report(c)) /\ drain' = drain
                   \/ BeginDrain \/ Settle \/ Verify
                   \/ Probe
                   \/ /\ \/ drain' = drain \/ drain' = NotDraining
                         \/ drain.at = "wipe" /\ drain' = [drain EXCEPT !.at = "drop"]
                         \/ drain.at = "drop" /\ drain' = [drain EXCEPT !.at = "verify"]
                      /\ Kept
<1>0. hist \in Histories
  BY TypeParts
<1>1. ASSUME \/ Upload \/ Join \/ IssueTicket \/ ServeWS \/ Unregister
             \/ ListAlbums \/ GetAlbum \/ Refuse
             \/ (\E e \in posted : Emit(e)) \/ (\E r \in replies : LoseReply(r))
             \/ StartSave \/ UNCHANGED shelfVars
      PROVE  Goal
  BY <1>1 DEF shelfVars, cleanupVars, Upload, Join, IssueTicket, ServeWS, Unregister,
              ListAlbums, GetAlbum, Refuse, Emit, LoseReply, StartSave
<1>2. ASSUME RemoveMember \/ DeleteAlbum \/ EndSave PROVE Goal
  <2>1. \E f \in BOOLEAN : hist' = [hist EXCEPT !.lost = f] \/ hist' = [hist EXCEPT !.unsaved = f]
    BY <1>2 DEF RemoveMember, DeleteAlbum, EndSave
  <2>2. UNCHANGED cleanupVars
    BY <1>2 DEF RemoveMember, DeleteAlbum, EndSave
  <2> QED
    BY <1>0, <2>1, <2>2 DEF cleanupVars, Histories
<1>3. ASSUME NEW r \in replies, Answer(r) PROVE Goal
  BY <1>3 DEF Answer
<1>4. ASSUME Receive PROVE Goal
  BY <1>4, Received
<1>5. ASSUME Wipe \/ WipeFails PROVE Goal
  BY <1>5 DEF Wipe, WipeFails, Stop
<1>6. ASSUME DropRow \/ Restart PROVE Goal
  BY <1>0, <1>6 DEF DropRow, Restart, Stop, Histories
<1> HIDE DEF Goal
<1>7. Goal
  BY <1>1, <1>2, <1>3, <1>4, <1>5, <1>6 DEF ShelfNext, Goal
<1> QED
  BY <1>7 DEF Goal

\* A record is settled only by a drain that no report overtook.
LEMMA DrainStep ==
    ASSUME ShelfTypeOK, DrainBehind, [ShelfNext]_shelfVars
    PROVE  DrainBehind'
<1> USE DEF DrainBehind, ReportsKept, Draining
<1>0. /\ record \in Records /\ hist \in Histories /\ drain \in Drains
      /\ record.ver \in Int /\ record.ver >= -1 /\ drain.ver \in Int
      /\ hist.reports \in Nat /\ hist.done \in Nat /\ drain.seen \in Nat
  BY TypeParts
<1>00. NotDraining.at = "idle" /\ NoRecord.ver = -1 /\ NoRecord.st = "none"
  BY ShelfResters
<1>1. ASSUME NEW c \in BOOLEAN, Report(c), drain' = drain PROVE DrainBehind'
  <2>1. CASE UNCHANGED <<record, hist>>
    BY <1>1, <2>1
  <2>2. CASE record'.ver = record.ver + 1
    BY <1>0, <1>1, <2>2, ReportMakes
  <2> QED
    BY <1>1, <2>1, <2>2, ReportMakes
<1>2. CASE BeginDrain
  <2>1. /\ drain'.at = IF record.st = "confirmed" THEN "wipe" ELSE "probe"
        /\ drain'.ver = record.ver /\ drain'.seen = hist.reports
        /\ record' = record /\ hist' = hist
    BY <1>2 DEF BeginDrain
  <2> QED
    BY <1>0, <2>1
<1>3. CASE Settle
  <2>1. CASE drain.at = "ours" /\ record' = RecordAfter /\ Stop
    <3>1. hist' = hist /\ drain'.at = "idle"
      BY <1>00, <1>3, <2>1 DEF Settle, Stop
    <3>2. CASE record.ver = drain.ver
      BY <1>0, <2>1, <3>1, <3>2
    <3>3. CASE record.ver # drain.ver
      BY <2>1, <3>1, <3>3 DEF RecordAfter
    <3> QED
      BY <3>2, <3>3
  <2>2. CASE drain.at = "gone" /\ drain' = [drain EXCEPT !.at = "wipe"] /\ UNCHANGED record
    <3>1. hist' = hist /\ drain'.at = "wipe" /\ drain'.ver = drain.ver /\ drain'.seen = drain.seen
      BY <1>0, <1>3, <2>2 DEF Settle, Drains
    <3> QED
      BY <2>2, <3>1
  <2> QED
    BY <1>3, <2>1, <2>2 DEF Settle
<1>4. CASE Verify
  <2>1. /\ hist'.done = drain.seen /\ hist'.reports = hist.reports /\ drain'.at = "idle"
        /\ drain.at = "verify" /\ record' = RecordAfter
    BY <1>0, <1>00, <1>4 DEF Verify, Stop, Histories
  <2> QED
    BY <1>0, <2>1 DEF RecordAfter
<1>5. CASE Probe
  <2>1. CASE drain' = [drain EXCEPT !.at = "ours"] /\ UNCHANGED <<record, hist>>
    <3>1. drain'.at = "ours" /\ drain'.ver = drain.ver /\ drain'.seen = drain.seen
      BY <1>0, <2>1 DEF Drains
    <3> QED
      BY <1>5, <2>1, <3>1 DEF Probe
  <2>2. CASE drain' = [drain EXCEPT !.at = "gone"] /\ Report(TRUE)
    <3>1. drain'.at = "gone" /\ drain'.ver = drain.ver /\ drain'.seen = drain.seen
      BY <1>0, <2>2 DEF Drains
    <3> QED
      <4>1. \/ /\ record'.ver = record.ver + 1 /\ record'.st = "confirmed"
               /\ hist'.reports = hist.reports + 1 /\ hist'.done = hist.done
            \/ UNCHANGED <<record, hist>>
        BY <2>2, ReportMakes
      <4>2. drain.at = "probe" /\ drain.ver <= record.ver /\ drain.seen <= hist.reports
        BY <1>5 DEF Probe
      <4> QED
        BY <1>0, <3>1, <4>1, <4>2
  <2>3. CASE drain' = NotDraining /\ UNCHANGED <<record, hist>>
    BY <1>00, <2>3
  <2> QED
    BY <1>5, <2>1, <2>2, <2>3 DEF Probe, ProbeFailure, Stop
<1>6. CASE /\ \/ drain' = drain \/ drain' = NotDraining
              \/ drain.at = "wipe" /\ drain' = [drain EXCEPT !.at = "drop"]
              \/ drain.at = "drop" /\ drain' = [drain EXCEPT !.at = "verify"]
           /\ record' = record /\ hist'.reports = hist.reports /\ hist'.done = hist.done
  <2>1. CASE drain' = drain
    BY <1>6, <2>1
  <2>2. CASE drain' = NotDraining
    BY <1>00, <1>6, <2>2
  <2>3. ASSUME NEW at \in {"drop", "verify"}, drain' = [drain EXCEPT !.at = at],
               drain.at \in {"wipe", "drop"}
        PROVE  DrainBehind'
    <3>1. drain'.at = at /\ drain'.ver = drain.ver /\ drain'.seen = drain.seen
      BY <1>0, <2>3 DEF Drains
    <3> QED
      BY <1>6, <2>3, <3>1
  <2> QED
    BY <1>6, <2>1, <2>2, <2>3
<1> QED
  BY <1>1, <1>2, <1>3, <1>4, <1>5, <1>6, DrainSteps

\* No probe and no wipe makes a newer report be forgotten.
THEOREM ShelfKeepsReports == ShelfSpec => []ReportsKept
<1>1. ShelfInit => DrainBehind
  BY ShelfResters DEF ShelfInit, DrainBehind, ReportsKept, Draining
<1>2. ShelfSpec => [](ShelfTypeOK /\ DrainBehind)
  BY <1>1, ShelfTypedInit, ShelfTypedStep, DrainStep, PTL DEF ShelfSpec
<1>3. DrainBehind => ReportsKept
  BY DEF DrainBehind
<1> QED
  BY <1>2, <1>3, PTL

-----------------------------------------------------------------------------
(***************************************************************************)
(* The loss of the album.                                                  *)
(***************************************************************************)

\* A loss is not taken back.
LEMMA LossStays ==
    ASSUME ShelfTypeOK, [ShelfNext]_shelfVars, hist.lost
    PROVE  hist'.lost
<1>0. hist \in Histories
  BY TypeParts
<1>1. CASE RemoveMember \/ DeleteAlbum
  BY <1>0, <1>1 DEF RemoveMember, DeleteAlbum, Histories
<1>2. ASSUME NEW r \in replies, Answer(r) PROVE hist'.lost
  BY <1>2, ReportMakes DEF Answer
<1>3. CASE Receive
  BY <1>3, Received, ReportMakes
<1>4. CASE Probe
  BY <1>4, ReportMakes DEF Probe
<1>5. CASE EndSave \/ DropRow \/ Verify \/ Restart
  BY <1>0, <1>5 DEF EndSave, DropRow, Verify, Restart, Histories
<1>6. CASE \/ Upload \/ Join \/ IssueTicket \/ ServeWS \/ Unregister
             \/ ListAlbums \/ GetAlbum \/ Refuse
           \/ (\E e \in posted : Emit(e)) \/ (\E r \in replies : LoseReply(r))
           \/ StartSave \/ BeginDrain \/ Settle \/ Wipe \/ WipeFails \/ UNCHANGED shelfVars
  BY <1>6 DEF shelfVars, Upload, Join, IssueTicket, ServeWS, Unregister, ListAlbums, GetAlbum, Refuse,
              Emit, LoseReply, StartSave, BeginDrain, Settle, Wipe, WipeFails
<1> QED
  BY <1>1, <1>2, <1>3, <1>4, <1>5, <1>6 DEF ShelfNext

\* The server's steps make no news of a loss without one.
LEMMA LossServer ==
    ASSUME ShelfTypeOK, NeverLost, ~hist.lost, ~hist'.lost,
           \/ Upload \/ RemoveMember \/ Join \/ DeleteAlbum \/ IssueTicket \/ ServeWS
           \/ Unregister \/ ListAlbums \/ GetAlbum \/ Refuse \/ \E e \in posted : Emit(e)
    PROVE  NeverLost'
<1> USE DEF NeverLost, Member, Draining, eventVars, appVars, cleanupVars
<1>0. /\ hist \in Histories
      /\ album \in [role : {"member", "out", "deleted"}, gen : Gen, joins : 0 .. MaxJoins]
  BY TypeParts
<1>1. CASE Upload
  <2>1. album'.role = album.role
    BY <1>0, <1>1 DEF Upload
  <2>2. \A e \in posted' : e.kind = "added"
    BY <1>1 DEF Upload, Post
  <2> QED
    BY <1>1, <2>1, <2>2 DEF Upload
<1>2. CASE RemoveMember \/ DeleteAlbum
  BY <1>0, <1>2 DEF RemoveMember, DeleteAlbum, Histories
<1>3. CASE Join
  <2>1. album'.role = "member"
    BY <1>0, <1>3 DEF Join
  <2> QED
    BY <1>3, <2>1 DEF Join
<1>4. CASE IssueTicket \/ ServeWS
  BY <1>4 DEF IssueTicket, ServeWS
<1>5. CASE Unregister
  <2>1. Len(outbox') = 0
    BY <1>5, ShelfResters DEF Unregister
  <2> QED
    BY <1>5, <2>1 DEF Unregister
<1>6. CASE ListAlbums
  <2>1. \A r \in replies' : r.kind # "refused" /\ (~Member /\ r.kind # "gate" => ~r.shows.held)
    <3>1. PICK a : /\ replies' = replies \cup {[kind |-> "listing", shows |-> a]}
                   /\ ~Member => ~a.held
      BY <1>6, ShelfResters DEF ListAlbums
    <3>2. /\ [kind |-> "listing", shows |-> a].kind = "listing"
          /\ [kind |-> "listing", shows |-> a].shows = a
      OBVIOUS
    <3> QED
      BY <3>1, <3>2
  <2> QED
    BY <1>6, <2>1 DEF ListAlbums
<1>9. CASE GetAlbum
  <2>1. Member /\ \A r \in replies' : r.kind # "refused"
    BY <1>9 DEF GetAlbum
  <2> QED
    BY <1>9, <2>1 DEF GetAlbum
<1>7. CASE Refuse
  BY <1>7 DEF Refuse
<1>8. ASSUME NEW e \in posted, Emit(e) PROVE NeverLost'
  <2>1. \A i \in 1 .. Len(outbox') : outbox'[i].kind = "added"
    <3>1. CASE outbox' = outbox
      BY <3>1
    <3>2. CASE outbox' = Append(outbox, e)
      <4>1. /\ Len(outbox') = Len(outbox) + 1 /\ Len(outbox) \in Nat
            /\ \A i \in 1 .. Len(outbox) : outbox'[i] = outbox[i]
            /\ outbox'[Len(outbox) + 1] = e
        BY <3>2, TypeParts DEF ShelfTypeOK
      <4>2. \A i \in 1 .. Len(outbox') : i \in 1 .. Len(outbox) \/ i = Len(outbox) + 1
        BY <4>1
      <4> QED
        BY <4>1, <4>2
    <3> QED
      BY <1>8, <3>1, <3>2 DEF Emit
  <2> QED
    BY <1>8, <2>1 DEF Emit
<1> QED
  BY <1>1, <1>2, <1>3, <1>4, <1>5, <1>6, <1>7, <1>8, <1>9

\* Nor do the phone's.
LEMMA LossPhone ==
    ASSUME ShelfTypeOK, NeverLost, ~hist.lost,
           \/ Receive \/ StartSave \/ EndSave \/ Restart
           \/ \E r \in replies : Answer(r) \/ LoseReply(r)
    PROVE  NeverLost'
<1> USE DEF NeverLost, Member, Draining, eventVars, appVars, cleanupVars
<1>00. NotDraining.at = "idle" /\ ~Absent.held /\ Len(<<>>) = 0
  BY ShelfResters
<1>1. CASE Receive
  <2>1. Head(outbox).kind = "added"
    BY <1>1, Received
  <2>2. \A i \in 1 .. Len(outbox') : i + 1 \in 1 .. Len(outbox)
    BY <1>1, Received, TypeParts
  <2>3. \A i \in 1 .. Len(outbox') : outbox'[i].kind = "added"
    BY <1>1, <2>2, Received
  <2>4. record' = record /\ UNCHANGED <<album, posted, replies, drain>>
    BY <1>1, <2>1, Received
  <2>5. (~Member => ~shelf'.held) /\ saving' = saving /\ disk' = disk
    BY <1>1, <2>1, Received DEF Show
  <2> QED
    BY <2>3, <2>4, <2>5
<1>2. ASSUME NEW r \in replies, Answer(r) PROVE NeverLost'
  <2>1. r.kind # "refused" /\ r \in Reply
    BY DEF ShelfTypeOK
  <2>2. saving' = saving /\ disk' = disk /\ (~Member => ~shelf'.held)
    <3>1. r.kind # "gate" => r.shows \in Summary
      BY <2>1 DEF Reply
    <3>2. CASE Show(Merged(r.shows)) /\ r.kind \in {"listing", "stored"} /\ r.shows.held
      BY <3>2 DEF Show
    <3>3. CASE Show(Absent) \/ UNCHANGED appVars
      BY <1>00, <3>3 DEF Show
    <3>4. CASE Show(r.shows) /\ r.kind = "album"
      BY <3>4 DEF Show
    <3> QED
      BY <1>2, <2>1, <3>2, <3>3, <3>4 DEF Answer
  <2>3. record'.st # "confirmed" /\ (~Member => record' = NoRecord)
    <3>1. CASE UNCHANGED record
      BY <3>1
    <3>2. CASE shelf.held /\ Report(FALSE)
      BY <3>2, ReportMakes
    <3> QED
      BY <1>2, <2>1, <3>1, <3>2 DEF Answer
  <2>4. /\ UNCHANGED <<album, posted, outbox, drain>>
        /\ \A x \in replies' : x \in replies \/ x = [kind |-> "stored", shows |-> disk]
    BY <1>2 DEF Answer
  <2>5. \A x \in replies' : x.kind # "refused" /\ (~Member /\ x.kind # "gate" => ~x.shows.held)
    BY <2>4
  <2> QED
    BY <2>2, <2>3, <2>4, <2>5
<1>3. ASSUME NEW r \in replies, LoseReply(r) PROVE NeverLost'
  BY <1>3 DEF LoseReply
<1>4. CASE StartSave
  BY <1>4 DEF StartSave
<1>5. CASE EndSave
  <2>1. saving # <<>> /\ saving[1] \in Summary
    BY <1>5, TypeParts, Snapshot DEF EndSave
  <2>2. disk' = disk \/ disk'.held = saving[1].held
    BY <1>5, <2>1, DurableTypes DEF EndSave
  <2> QED
    BY <1>5, <2>1, <2>2 DEF EndSave
<1>6. CASE Restart
  <2>1. /\ Len(outbox') = 0 /\ drain'.at = "idle" /\ saving' = <<>>
        /\ \A r \in replies' : r.kind = "gate"
        /\ shelf'.held => disk.held
    BY <1>00, <1>6 DEF Restart, Stop
  <2> QED
    BY <1>6, <2>1 DEF Restart
<1> QED
  BY <1>1, <1>2, <1>3, <1>4, <1>5, <1>6

\* Nor does the drain.
LEMMA LossDrain ==
    ASSUME ShelfTypeOK, NeverLost, ~hist.lost,
           BeginDrain \/ Probe \/ Settle \/ Wipe \/ DropRow \/ Verify \/ WipeFails
    PROVE  NeverLost'
<1> USE DEF NeverLost, Member, Draining, eventVars, appVars, cleanupVars
<1>0. drain \in Drains /\ hist \in Histories
  BY TypeParts
<1>00. NotDraining.at = "idle" /\ NoRecord.st = "none"
  BY ShelfResters
<1>1. CASE BeginDrain
  <2>1. drain'.at = "probe" /\ Member
    BY <1>1 DEF BeginDrain
  <2> QED
    BY <1>1, <2>1 DEF BeginDrain
<1>2. CASE Probe
  <2>1. Member
    BY <1>2 DEF Probe
  <2>2. record' = record /\ drain'.at \in {"ours", "idle"}
    BY <1>0, <1>00, <1>2, <2>1 DEF Probe, ProbeFailure, Stop, Drains
  <2> QED
    BY <1>2, <2>1, <2>2 DEF Probe
<1>3. CASE Settle
  <2>1. drain.at = "ours" /\ record' = RecordAfter /\ drain'.at = "idle"
    BY <1>00, <1>3 DEF Settle, Stop
  <2> QED
    BY <1>00, <1>3, <2>1 DEF Settle, RecordAfter
<1>4. CASE Wipe \/ DropRow \/ Verify \/ WipeFails
  BY <1>4 DEF Wipe, DropRow, Verify, WipeFails
<1> QED
  BY <1>1, <1>2, <1>3, <1>4

\* Without a loss there is no trace of one, after any step.
LEMMA LossStep ==
    ASSUME ShelfTypeOK, NeverLost, [ShelfNext]_shelfVars
    PROVE  NeverLost'
<1>1. CASE hist'.lost
  BY <1>1 DEF NeverLost
<1>2. CASE ~hist'.lost /\ UNCHANGED shelfVars
  BY <1>2 DEF shelfVars, eventVars, appVars, cleanupVars, NeverLost, Member, Draining
<1>3. CASE ~hist'.lost /\ ShelfNext
  <2>1. ~hist.lost
    BY <1>3, LossStays
  <2> QED
    BY <1>3, <2>1, LossServer, LossPhone, LossDrain DEF ShelfNext
<1> QED
  BY <1>1, <1>2, <1>3

\* All of it.
THEOREM ShelfInvariant == ShelfSpec => []HInv
<1>1. ShelfInit => HInv
  <2> SUFFICES ASSUME ShelfInit PROVE HInv
    OBVIOUS
  <2>1. SaveAhead /\ DrainBehind
    BY ShelfResters, DurableTypes DEF ShelfInit, SaveAhead, NewestSavedLast, DrainBehind, ReportsKept, Draining
  <2>2. NeverLost
    BY ShelfResters DEF ShelfInit, NeverLost, Draining
  <2> QED
    BY <2>1, <2>2, ShelfTypedInit DEF HInv
<1>2. HInv /\ [ShelfNext]_shelfVars => HInv'
  BY ShelfTypedStep, SaveStep, DrainStep, LossStep DEF HInv
<1> QED
  BY <1>1, <1>2, PTL DEF ShelfSpec

\* A member who was never removed never has the album wiped.
THEOREM ShelfSparesOurs == ShelfSpec => []OursNeverWiped
<1>1. HInv => OursNeverWiped
  BY DEF HInv, NeverLost, OursNeverWiped
<1> QED
  BY <1>1, ShelfInvariant, PTL

-----------------------------------------------------------------------------
(***************************************************************************)
(* The device: Sessions and Shelf in one behaviour.                        *)
(***************************************************************************)

\* A behaviour of the device is one of the credentials and one of the shelf:
\* what is proved of either holds of the device, its types among it.
THEOREM DeviceKeepsTypes == SidedSpec => []DeviceTypeOK
<1>1. SidedInit => SessionInit /\ ShelfInit
  BY DEF SidedInit
<1>2. [SessionStep \/ ShelfStep]_DeviceVars => [SessionNext]_sessionVars
  BY DEF SessionStep, ShelfStep, DeviceVars
<1>3. [SessionStep \/ ShelfStep]_DeviceVars => [ShelfNext]_shelfVars
  BY DEF SessionStep, ShelfStep, DeviceVars
<1>4. SessionTypeOK /\ ShelfTypeOK => DeviceTypeOK
  BY DEF DeviceTypeOK
<1> QED
  BY <1>1, <1>2, <1>3, <1>4, SessionsKeepTypes, ShelfKeepsTypes, PTL
     DEF SidedSpec, SessionSpec, ShelfSpec
=================================================================================
