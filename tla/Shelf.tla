--------------------------------- MODULE Shelf ---------------------------------
(***************************************************************************)
(* One album on the shelf of one member's phone: how live events, listings *)
(* and refusals reach it, how the shelf is persisted, and how the album is *)
(* cleaned up once the member has lost it.                                 *)
(*                                                                         *)
(* Events are live only.  They are emitted by goroutines of their own, in  *)
(* any order, into the outbox of a registered socket or nowhere; answers   *)
(* to HTTP requests arrive in any order or not at all.  Of an album only   *)
(* the media generation is kept, and whether it came with a summary, which *)
(* a listing has and the answer to a single album has not; of its local    *)
(* data only the shelf row.  The app may be killed between any two steps.  *)
(***************************************************************************)
EXTENDS Integers, Sequences, FiniteSets

CONSTANTS Outbox,       \* events a socket queues before it drops them (64)
          MaxGen,       \* bound: uploads confirmed
          MaxJoins,     \* bound: times the member joins
          MaxReplies,   \* bound: answers in flight
          MaxReports    \* bound: reports of a lost album, and their versions

ASSUME OutboxSize == Outbox \in Nat \ {0}
ASSUME ShelfBounds == {MaxGen, MaxJoins, MaxReplies, MaxReports} \subseteq Nat

Gen == 0 .. MaxGen
Summary == [held : BOOLEAN, gen : Gen, sum : BOOLEAN]
Absent == [held |-> FALSE, gen |-> 0, sum |-> FALSE]
NoRecord == [st |-> "none", ver |-> -1]
NotDraining == [at |-> "idle", ver |-> -1, seen |-> 0]
Event == [kind : {"added"}, gen : Gen] \cup [kind : {"revoked", "gone"}]
Reply == [kind : {"listing", "album", "stored"}, shows : Summary]
         \cup [kind : {"refused", "gate"}]

VARIABLES
    album,      \* the server: media_generation, and what the member is to it
    posted,     \* events committed whose goroutine has not emitted them
    link,       \* the socket: down, a ticket issued, registered in the hub
    outbox,     \* events queued for the socket, or under way on it
    replies,    \* answers the app has not handled
    shelf,      \* AppState: the album, its generation, and if it has a summary
    dirty,      \* a change of the shelf waits for its save
    saving,     \* the snapshot being saved
    disk,       \* the durable shelf
    record,     \* the row of album_cleanup
    drain,      \* what the one drain of the cleanup queue is doing
    hist        \* history: reports, those wiped for, losses, unsaved disk

eventVars == <<posted, link, outbox>>
appVars == <<shelf, dirty, saving, disk>>
cleanupVars == <<record, drain>>
shelfVars == <<album, eventVars, replies, appVars, cleanupVars, hist>>

Member == album.role = "member"
Post(e) == posted' = posted \cup {e}

-----------------------------------------------------------------------------
(***************************************************************************)
(* Conditions of the code.  No action uses a slip.                         *)
(***************************************************************************)

TakesListing(a) == a
\* _mergeMonotonic keeps a generation that is ahead, if both have a summary.
Merged(a) == IF shelf.held /\ shelf.sum /\ a.sum /\ a.gen < shelf.gen
             THEN [a EXCEPT !.gen = shelf.gen] ELSE a

ForgetsChanges == FALSE
\* A change during a save is saved after it.
SavesAgain == dirty

NeverFull == TRUE
\* Broadcast drops the event where the socket's outbox is full.
HasSpace == Len(outbox) < Outbox

RemovesAnyRecord == NoRecord
\* removeIfUnchanged: a newer report keeps its record.
RecordAfter == IF record.ver = drain.ver THEN NoRecord ELSE record

UnknownIsGone == {"gone"}
\* Only a typed refusal counts as gone.
ProbeFailure == {"idle"}

\* put: the version grows, and a confirmation is not taken back.
Recorded(confirmed) ==
    [st |-> IF confirmed \/ record.st = "confirmed" THEN "confirmed" ELSE "missing",
     ver |-> record.ver + 1]

-----------------------------------------------------------------------------
(***************************************************************************)
(* The server: the album, and the fan-out of its events.                   *)
(***************************************************************************)

Upload ==
    /\ album.role # "deleted" /\ album.gen < MaxGen
    /\ album' = [album EXCEPT !.gen = @ + 1]
    /\ Post([kind |-> "added", gen |-> album.gen + 1])
    /\ UNCHANGED <<link, outbox, replies, appVars, cleanupVars, hist>>

RemoveMember ==
    /\ Member
    /\ album' = [album EXCEPT !.role = "out"]
    /\ Post([kind |-> "revoked"])
    /\ hist' = [hist EXCEPT !.lost = TRUE]
    /\ UNCHANGED <<link, outbox, replies, appVars, cleanupVars>>

Join ==
    /\ album.role = "out" /\ album.joins < MaxJoins
    /\ album' = [album EXCEPT !.role = "member", !.joins = @ + 1]
    /\ UNCHANGED <<eventVars, replies, appVars, cleanupVars, hist>>

\* Only who is a member then is told.
DeleteAlbum ==
    /\ album.role # "deleted"
    /\ album' = [album EXCEPT !.role = "deleted"]
    /\ IF Member THEN Post([kind |-> "gone"]) ELSE UNCHANGED posted
    /\ hist' = [hist EXCEPT !.lost = TRUE]
    /\ UNCHANGED <<link, outbox, replies, appVars, cleanupVars>>

\* A goroutine resolves the active members and broadcasts; a full outbox
\* drops the event, and so does a failed lookup.
Emit(e) ==
    /\ \/ /\ link = "up" /\ HasSpace /\ (e.kind = "added" => Member)
          /\ outbox' = Append(outbox, e)
       \/ outbox' = outbox
    /\ posted' = posted \ {e}
    /\ UNCHANGED <<album, link, replies, appVars, cleanupVars, hist>>

\* A ticket is issued, and consumed once when the socket registers.
IssueTicket ==
    /\ link = "down" /\ link' = "ticket"
    /\ UNCHANGED <<album, posted, outbox, replies, appVars, cleanupVars, hist>>

ServeWS ==
    /\ link = "ticket" /\ link' \in {"up", "down"}
    /\ UNCHANGED <<album, posted, outbox, replies, appVars, cleanupVars, hist>>

\* Run ends: a ping or a write failed, or the peer left.
Unregister ==
    /\ link = "up" /\ link' = "down" /\ outbox' = <<>>
    /\ UNCHANGED <<album, posted, replies, appVars, cleanupVars, hist>>

\* ListForUser: the summary is one statement.
ListAlbums ==
    /\ Cardinality(replies) < MaxReplies
    /\ replies' = replies \cup {[kind |-> "listing", shows |->
         IF Member THEN [held |-> TRUE, gen |-> album.gen, sum |-> TRUE] ELSE Absent]}
    /\ UNCHANGED <<album, eventVars, appVars, cleanupVars, hist>>

\* The album of a fresh join, when the listing after it failed.
GetAlbum ==
    /\ Member /\ Cardinality(replies) < MaxReplies
    /\ replies' = replies \cup {[kind |-> "album", shows |->
         [held |-> TRUE, gen |-> 0, sum |-> FALSE]]}
    /\ UNCHANGED <<album, eventVars, appVars, cleanupVars, hist>>

\* Any other call on the album, made by a phone that still shows it.
Refuse ==
    /\ shelf.held /\ ~Member /\ Cardinality(replies) < MaxReplies
    /\ replies' = replies \cup {[kind |-> "refused"]}
    /\ UNCHANGED <<album, eventVars, appVars, cleanupVars, hist>>

-----------------------------------------------------------------------------
(***************************************************************************)
(* The app: events and answers.                                            *)
(***************************************************************************)

Show(s) == shelf' = s /\ dirty' = TRUE /\ UNCHANGED <<saving, disk>>

\* albumGone and albumMissing; a put that fails is swallowed.
Report(confirmed) ==
    \/ /\ hist.reports < MaxReports /\ record.ver < MaxReports
       /\ record' = Recorded(confirmed)
       /\ hist' = [hist EXCEPT !.reports = IF confirmed THEN @ + 1 ELSE @]
    \/ UNCHANGED <<record, hist>>

\* An album off the shelf takes no event; a revocation is then not known to
\* be one's own.
Receive ==
    /\ outbox # <<>>
    /\ outbox' = Tail(outbox)
    /\ LET e == Head(outbox) IN
       \/ /\ e.kind = "added"
          /\ IF shelf.held /\ e.gen > shelf.gen THEN Show([shelf EXCEPT !.gen = e.gen])
             ELSE UNCHANGED appVars
          /\ UNCHANGED <<record, hist>>
       \/ /\ e.kind = "gone" \/ (e.kind = "revoked" /\ shelf.held)
          /\ Report(TRUE) /\ UNCHANGED appVars
       \/ /\ e.kind = "revoked" /\ ~shelf.held
          /\ UNCHANGED <<appVars, record, hist>>
    /\ UNCHANGED <<album, posted, link, replies, drain>>

\* setAlbums, of a listing or the durable shelf; an album left out is reported,
\* but not as confirmed.  prependAlbum leaves what is on the shelf alone, and
\* loadShelf reads the durable shelf once the gate of a launch admitted.
Answer(r) ==
    /\ replies' = (replies \ {r}) \cup
                  (IF r.kind = "gate" THEN {[kind |-> "stored", shows |-> disk]} ELSE {})
    /\ \/ /\ r.kind \in {"listing", "stored"} /\ r.shows.held
          /\ Show(Merged(r.shows)) /\ UNCHANGED <<record, hist>>
       \/ /\ r.kind \in {"listing", "stored"} /\ ~r.shows.held
          /\ Show(Absent)
          /\ IF shelf.held THEN Report(FALSE) ELSE UNCHANGED <<record, hist>>
       \/ /\ r.kind = "album"
          /\ IF shelf.held THEN UNCHANGED appVars ELSE Show(r.shows)
          /\ UNCHANGED <<record, hist>>
       \/ /\ r.kind = "refused"
          /\ Report(TRUE) /\ UNCHANGED appVars
       \/ /\ r.kind = "gate"
          /\ UNCHANGED <<appVars, record, hist>>
    /\ UNCHANGED <<album, eventVars, drain>>

LoseReply(r) ==
    /\ replies' = replies \ {r}
    /\ UNCHANGED <<album, eventVars, appVars, cleanupVars, hist>>

StartSave ==
    /\ dirty /\ saving = <<>>
    /\ saving' = <<shelf>> /\ dirty' = FALSE
    /\ UNCHANGED <<album, eventVars, replies, shelf, disk, cleanupVars, hist>>

\* toJson leaves the generation of an album without a summary out.
Durable(a) == IF a.sum THEN a ELSE [a EXCEPT !.gen = 0]

\* One transaction; a failure is swallowed, and the next change saves again.
EndSave ==
    /\ saving # <<>>
    /\ saving' = <<>> /\ dirty' = SavesAgain
    /\ \/ disk' = Durable(saving[1]) /\ hist' = [hist EXCEPT !.unsaved = FALSE]
       \/ disk' = disk /\ hist' = [hist EXCEPT !.unsaved = TRUE]
    /\ UNCHANGED <<album, eventVars, replies, shelf, cleanupVars>>

-----------------------------------------------------------------------------
(***************************************************************************)
(* AlbumCleanupQueue: drained on a report, on a connection and by a timer. *)
(***************************************************************************)

Stop == drain' = NotDraining

BeginDrain ==
    /\ drain = NotDraining /\ record # NoRecord
    /\ drain' = [at |-> IF record.st = "confirmed" THEN "wipe" ELSE "probe",
                 ver |-> record.ver, seen |-> hist.reports]
    /\ UNCHANGED <<album, eventVars, replies, appVars, record, hist>>

\* probeAlbum; the answer arrives later.  Its refusal is also reported, like
\* that of any call.
Probe ==
    /\ drain.at = "probe"
    /\ \/ /\ Member /\ drain' = [drain EXCEPT !.at = "ours"]
          /\ UNCHANGED <<record, hist>>
       \/ /\ ~Member /\ drain' = [drain EXCEPT !.at = "gone"]
          /\ Report(TRUE)
       \/ /\ \E at \in ProbeFailure :
                IF at = "idle" THEN Stop ELSE drain' = [drain EXCEPT !.at = at]
          /\ UNCHANGED <<record, hist>>
    /\ UNCHANGED <<album, eventVars, replies, appVars>>

Settle ==
    /\ \/ drain.at = "ours" /\ record' = RecordAfter /\ Stop
       \/ drain.at = "gone" /\ drain' = [drain EXCEPT !.at = "wipe"] /\ UNCHANGED record
    /\ UNCHANGED <<album, eventVars, replies, appVars, hist>>

\* wipeLocalAlbum takes the album off the shelf before its durable row ...
Wipe ==
    /\ drain.at = "wipe" /\ drain' = [drain EXCEPT !.at = "drop"]
    /\ Show(Absent)
    /\ UNCHANGED <<album, eventVars, replies, record, hist>>

DropRow ==
    /\ drain.at = "drop" /\ drain' = [drain EXCEPT !.at = "verify"]
    /\ disk' = Absent
    /\ hist' = [hist EXCEPT !.unsaved = TRUE]
    /\ UNCHANGED <<album, eventVars, replies, shelf, dirty, saving, record>>

\* ... and throws if a row is left.
Verify ==
    /\ drain.at = "verify" /\ ~disk.held
    /\ record' = RecordAfter /\ Stop
    /\ hist' = [hist EXCEPT !.done = drain.seen]
    /\ UNCHANGED <<album, eventVars, replies, appVars>>

WipeFails ==
    /\ drain.at \in {"wipe", "drop", "verify"} /\ Stop
    /\ UNCHANGED <<album, eventVars, replies, appVars, record, hist>>

\* The durable shelf is shown at once if the phone's keys are bound to the
\* stored account, and else not before the gate admitted it, if it does.
Restart ==
    /\ shelf' \in {disk, Absent} /\ dirty' = FALSE /\ saving' = <<>> /\ Stop
    /\ link' = "down" /\ outbox' = <<>> /\ replies' \in {{}, {[kind |-> "gate"]}}
    /\ UNCHANGED <<album, posted, disk, record>>
    /\ hist' = [hist EXCEPT !.unsaved = (shelf' # disk)]

-----------------------------------------------------------------------------
ShelfInit ==
    /\ album \in [role : {"member", "out"}, gen : {0}, joins : {0}]
    /\ posted = {} /\ link = "down" /\ outbox = <<>> /\ replies = {}
    /\ shelf = Absent /\ dirty = FALSE /\ saving = <<>> /\ disk = Absent
    /\ record = NoRecord /\ drain = NotDraining
    /\ hist = [reports |-> 0, done |-> 0, lost |-> FALSE, unsaved |-> FALSE]

ShelfNext ==
    \/ Upload \/ RemoveMember \/ Join \/ DeleteAlbum
    \/ \E e \in posted : Emit(e)
    \/ IssueTicket \/ ServeWS \/ Unregister \/ ListAlbums \/ GetAlbum \/ Refuse
    \/ Receive \/ StartSave \/ EndSave
    \/ \E r \in replies : Answer(r) \/ LoseReply(r)
    \/ BeginDrain \/ Probe \/ Settle \/ Wipe \/ DropRow \/ Verify \/ WipeFails
    \/ Restart

ShelfSpec == ShelfInit /\ [][ShelfNext]_shelfVars

-----------------------------------------------------------------------------
(***************************************************************************)
(* Properties.                                                             *)
(***************************************************************************)

Drains == [at : {"idle", "probe", "ours", "gone", "wipe", "drop", "verify"},
           ver : {-1} \cup Nat, seen : Nat]

ShelfTypeOK ==
    /\ album \in [role : {"member", "out", "deleted"}, gen : Gen, joins : 0 .. MaxJoins]
    /\ posted \subseteq Event /\ outbox \in Seq(Event) /\ replies \subseteq Reply
    /\ Len(outbox) <= Outbox /\ link \in {"down", "ticket", "up"}
    /\ shelf \in Summary /\ disk \in Summary /\ dirty \in BOOLEAN
    /\ saving \in {<<>>} \cup {<<s>> : s \in Summary}
    /\ record \in [st : {"none", "missing", "confirmed"}, ver : {-1} \cup Nat]
    /\ drain \in Drains
    /\ hist \in [reports : Nat, done : Nat, lost : BOOLEAN, unsaved : BOOLEAN]

\* Listings and events may overtake each other; while the album is on the shelf
\* with its summary, the phone never goes back to that of an older generation,
\* save to the durable shelf of a restart (app_state.dart:223, "Never replace a
\* newer realtime summary with an older HTTP response").  An album without a
\* summary takes the next listing as it is.
ShelfForward ==
    [][shelf.held /\ shelf.sum /\ shelf'.held /\ shelf'.sum /\ shelf'.gen < shelf.gen
         => shelf' = disk]_shelfVars

\* The last write of a burst is the newest shelf: at rest the durable shelf is
\* the one shown, unless a write failed or a wipe dropped the row
\* (app_state.dart:332, "stale shelf snapshots cannot land last").
NewestSavedLast == ~dirty /\ saving = <<>> /\ ~hist.unsaved => disk = Durable(shelf)

\* A report that the album is lost, once it is recorded, is kept until a wipe
\* that began after it was verified, whatever probe or wipe was under way when
\* it came (album_cleanup.dart:12, "Prevents an old probe or wipe from deleting
\* a newer report").  One whose put failed leaves nothing to keep.
ReportsKept == hist.done < hist.reports => record.st = "confirmed"

\* A member who was never removed never has the album wiped, however old the
\* listing that left it out and whatever becomes of the probe
\* (main.dart:559, "Probe omissions because listings can race album creation").
OursNeverWiped == drain.at \in {"gone", "wipe", "drop", "verify"} => hist.lost
=============================================================================
