------------------------- MODULE AccountDeletionProofs -------------------------
(***************************************************************************)
(* Proofs about AccountDeletion for any number of devices, receipts,       *)
(* albums and calls in flight: the receipt protocol implements the promise *)
(* of DeletionPromise.                                                     *)
(***************************************************************************)
EXTENDS AccountDeletion, TLAPS

-----------------------------------------------------------------------------
(***************************************************************************)
(* The inductive invariant.                                                *)
(***************************************************************************)

\* What an answer on its way says about the receipt is still so.
CallsOK ==
    \A s \in Busy :
        /\ owner[calls[s].r] # None
        /\ calls[s].kind = "abandon" => calls[s].st \in {"sent", "yes", "no"}
        /\ calls[s].st \in {"ok", "yes"} => receipts[calls[s].r] = "accepted"
        /\ calls[s].kind = "abandon" /\ calls[s].st = "no"
              => receipts[calls[s].r] = "abandoned"

\* A receipt leaves its device's marker only with an outcome, and one that was
\* kept stays barred for as long as a call with it is in flight.
ReceiptOK(r) ==
    /\ owner[r] = None => receipts[r] = "none" /\ outcome[r] = "none"
    /\ owner[r] # None => marker[owner[r]] = r \/ outcome[r] # "none"
    /\ receipts[r] = "accepted" => account # "live"
    /\ outcome[r] = "kept" =>
          /\ marker[owner[r]] # r
          /\ receipts[r] # "accepted"
          /\ \A s \in Busy : calls[s].r = r => receipts[r] = "abandoned"
    /\ outcome[r] = "wiped" =>
          /\ owner[r] \notin vault
          /\ marker[owner[r]] = r => owner[r] \in marked

\* A device that finishes holds an accepted receipt.
DeviceOK(d) ==
    /\ flow[d] \in {"finish", "wiped"} \/ d \in marked =>
          marker[d] # None /\ receipts[marker[d]] = "accepted"
    /\ flow[d] = "wiped" => outcome[marker[d]] = "wiped"
    /\ d \in marked => flow[d] \in {"finish", "wiped", "blocked", "off"}

Inv ==
    /\ TypeOK
    /\ CallsOK
    /\ \A r \in Receipts : ReceiptOK(r)
    /\ \A d \in Devices : DeviceOK(d)
    /\ WipedOnlyIfAccepted

-----------------------------------------------------------------------------
(***************************************************************************)
(* Every step keeps it, one conjunct at a time.                            *)
(***************************************************************************)

\* A call the app has given up on is still a call.
LEMMA Unwaited ==
  ASSUME NEW c \in CallRecord
  PROVE  [c EXCEPT !.waiting = FALSE] \in CallRecord
BY Zenon DEF CallRecord

\* The types.  A device in a flow that asks has a marker to ask about.
LEMMA FieldsStep == TypeOK /\ [Next]_vars => FieldsOK'
<1> SUFFICES ASSUME TypeOK, [Next]_vars PROVE FieldsOK'
  OBVIOUS
<1> USE NoneIsNew DEF TypeOK, FieldsOK, Tied, Of, Busy, serverVars, deviceVars,
         vars, Pending, Asking, Requesting, Checking, KindOf
<1>1. ASSUME NEW d \in Devices, NEW r \in Receipts, NEW P \in SUBSET Albums, Confirm(d, r, P)
      PROVE  FieldsOK'
  BY <1>1 DEF Confirm
<1>2. ASSUME NEW d \in Devices, NEW s \in Slots, Call(d, s) PROVE FieldsOK'
  BY <1>2 DEF Call, CallRecord
<1>3. ASSUME NEW d \in Devices, NEW s \in Slots, Answer(d, s) PROVE FieldsOK'
  BY <1>3 DEF Answer, After, AfterRefusal
<1>4. ASSUME NEW d \in Devices, NEW s \in Slots, Throw(d, s) PROVE FieldsOK'
  <2>1. calls[s] \in CallRecord
    BY <1>4 DEF Throw
  <2>2. [calls EXCEPT ![s].waiting = FALSE] \in [Slots -> CallRecord \cup {None}]
    BY <2>1 DEF CallRecord
  <2>3. [calls EXCEPT ![s] = None] \in [Slots -> CallRecord \cup {None}]
    OBVIOUS
  <2>4. calls' \in [Slots -> CallRecord \cup {None}]
    BY <1>4, <2>2, <2>3, Zenon DEF Throw
  <2> QED
    BY <1>4, <2>4 DEF Throw, AfterThrow
<1>5. ASSUME NEW d \in Devices, MarkAccepted(d) PROVE FieldsOK'
  BY <1>5 DEF MarkAccepted
<1>6. ASSUME NEW d \in Devices, WipeDevice(d) PROVE FieldsOK'
  BY <1>6 DEF WipeDevice
<1>7. ASSUME NEW d \in Devices, WipeFails(d) PROVE FieldsOK'
  BY <1>7 DEF WipeFails
<1>8. ASSUME NEW d \in Devices, ClearMarker(d) PROVE FieldsOK'
  BY <1>8 DEF ClearMarker
<1>9. ASSUME NEW d \in Devices, NEW next \in {"continue", "giveup"}, Choose(d, next)
      PROVE  FieldsOK'
  BY <1>9 DEF Choose
<1>10. ASSUME NEW d \in Devices, Reopen(d) PROVE FieldsOK'
  BY <1>10 DEF Reopen, Reopened
<1>11. ASSUME NEW d \in Devices, Kill(d) PROVE FieldsOK'
  <2>1. \A s \in Of(d) : [calls[s] EXCEPT !.waiting = FALSE] \in CallRecord
    BY Unwaited
  <2>2. calls' \in [Slots -> CallRecord \cup {None}]
    BY <1>11, <2>1 DEF Kill
  <2> QED
    BY <1>11, <2>2 DEF Kill
<1>12. ASSUME NEW s \in Slots, Authenticate(s) PROVE FieldsOK'
  BY <1>12 DEF Authenticate, CallRecord
<1>13. ASSUME NEW s \in Slots, Accept(s) PROVE FieldsOK'
  BY <1>13 DEF Accept, Barred, CallRecord
<1>14. ASSUME NEW s \in Slots, ServerError(s) PROVE FieldsOK'
  BY <1>14 DEF ServerError, CallRecord
<1>15. ASSUME NEW s \in Slots, ReceiptAccepted(s) PROVE FieldsOK'
  BY <1>15 DEF ReceiptAccepted, Accepted, CallRecord
<1>16. ASSUME NEW s \in Slots, AbandonReceipt(s) PROVE FieldsOK'
  BY <1>16 DEF AbandonReceipt, CallRecord
<1>17. ASSUME NEW s \in Slots, Drop(s) PROVE FieldsOK'
  BY <1>17 DEF Drop
<1>18. ASSUME NEW r \in Receipts, PruneReceipts(r) PROVE FieldsOK'
  BY <1>18 DEF PruneReceipts
<1>19. ASSUME NEW a \in Albums, Share(a) PROVE FieldsOK'
  BY <1>19 DEF Share, MayShare
<1>20. ASSUME NEW a \in Albums, Unshare(a) PROVE FieldsOK'
  BY <1>20 DEF Unshare
<1>21. CASE FinishAccount
  BY <1>21 DEF FinishAccount
<1>22. CASE UNCHANGED vars
  BY <1>22 DEF vars
<1> QED
BY <1>1, <1>2, <1>3, <1>4, <1>5, <1>6, <1>7, <1>8, <1>9, <1>10, <1>11, <1>12,
      <1>13, <1>14, <1>15, <1>16, <1>17, <1>18, <1>19, <1>20, <1>21, <1>22 DEF
      Next, DeviceStep, ServerStep

\* The app's step, its marker and its calls stay tied together: a receipt that
\* is drawn anew appears in no call, so no device gains a call it did not make.
LEMMA TiedStep == TypeOK /\ CallsOK /\ [Next]_vars => \A e \in Devices : Tied(e)'
<1> SUFFICES ASSUME TypeOK /\ CallsOK, [Next]_vars PROVE \A e \in Devices : Tied(e)'
  OBVIOUS
<1> USE NoneIsNew DEF TypeOK, FieldsOK, Tied, CallsOK, CallRecord, Of, Busy,
         serverVars, deviceVars, vars, Pending, Asking, Requesting, Checking,
         KindOf
<1>1. ASSUME NEW d \in Devices, NEW r \in Receipts, NEW P \in SUBSET Albums, Confirm(d, r, P)
      PROVE  \A e \in Devices : Tied(e)'
  BY <1>1 DEF Confirm
<1>2. ASSUME NEW d \in Devices, NEW s \in Slots, Call(d, s)
      PROVE  \A e \in Devices : Tied(e)'
  BY <1>2 DEF Call
<1>3. ASSUME NEW d \in Devices, NEW s \in Slots, Answer(d, s)
      PROVE  \A e \in Devices : Tied(e)'
  BY <1>3 DEF Answer, After, AfterRefusal
<1>4. ASSUME NEW d \in Devices, NEW s \in Slots, Throw(d, s)
      PROVE  \A e \in Devices : Tied(e)'
  BY <1>4 DEF Throw, AfterThrow
<1>5. ASSUME NEW d \in Devices, MarkAccepted(d) PROVE \A e \in Devices : Tied(e)'
  BY <1>5 DEF MarkAccepted
<1>6. ASSUME NEW d \in Devices, WipeDevice(d) PROVE \A e \in Devices : Tied(e)'
  BY <1>6 DEF WipeDevice
<1>7. ASSUME NEW d \in Devices, WipeFails(d) PROVE \A e \in Devices : Tied(e)'
  BY <1>7 DEF WipeFails
<1>8. ASSUME NEW d \in Devices, ClearMarker(d) PROVE \A e \in Devices : Tied(e)'
  BY <1>8 DEF ClearMarker
<1>9. ASSUME NEW d \in Devices, NEW next \in {"continue", "giveup"}, Choose(d, next)
      PROVE  \A e \in Devices : Tied(e)'
  BY <1>9 DEF Choose
<1>10. ASSUME NEW d \in Devices, Reopen(d) PROVE \A e \in Devices : Tied(e)'
  BY <1>10 DEF Reopen, Reopened
<1>11. ASSUME NEW d \in Devices, Kill(d) PROVE \A e \in Devices : Tied(e)'
  BY <1>11 DEF Kill
<1>12. ASSUME NEW s \in Slots, Authenticate(s) PROVE \A e \in Devices : Tied(e)'
  BY <1>12 DEF Authenticate
<1>13. ASSUME NEW s \in Slots, Accept(s) PROVE \A e \in Devices : Tied(e)'
  BY <1>13 DEF Accept, Barred
<1>14. ASSUME NEW s \in Slots, ServerError(s) PROVE \A e \in Devices : Tied(e)'
  BY <1>14 DEF ServerError
<1>15. ASSUME NEW s \in Slots, ReceiptAccepted(s) PROVE \A e \in Devices : Tied(e)'
  BY <1>15 DEF ReceiptAccepted, Accepted
<1>16. ASSUME NEW s \in Slots, AbandonReceipt(s) PROVE \A e \in Devices : Tied(e)'
  BY <1>16 DEF AbandonReceipt
<1>17. ASSUME NEW s \in Slots, Drop(s) PROVE \A e \in Devices : Tied(e)'
  BY <1>17 DEF Drop
<1>18. ASSUME NEW r \in Receipts, PruneReceipts(r) PROVE \A e \in Devices : Tied(e)'
  BY <1>18 DEF PruneReceipts
<1>19. ASSUME NEW a \in Albums, Share(a) PROVE \A e \in Devices : Tied(e)'
  BY <1>19 DEF Share, MayShare
<1>20. ASSUME NEW a \in Albums, Unshare(a) PROVE \A e \in Devices : Tied(e)'
  BY <1>20 DEF Unshare
<1>21. CASE FinishAccount
  BY <1>21 DEF FinishAccount
<1>22. CASE UNCHANGED vars
  BY <1>22 DEF vars
<1> QED
BY <1>1, <1>2, <1>3, <1>4, <1>5, <1>6, <1>7, <1>8, <1>9, <1>10, <1>11, <1>12,
      <1>13, <1>14, <1>15, <1>16, <1>17, <1>18, <1>19, <1>20, <1>21, <1>22 DEF
      Next, DeviceStep, ServerStep

\* What an answer says stays so: nothing turns an accepted receipt into an
\* abandoned one or back, and pruning spares a receipt that is being asked about.
LEMMA CallsStep == TypeOK /\ CallsOK /\ [Next]_vars => CallsOK'
<1> SUFFICES ASSUME TypeOK /\ CallsOK, [Next]_vars PROVE CallsOK'
  OBVIOUS
<1> USE NoneIsNew DEF TypeOK, FieldsOK, Tied, CallsOK, CallRecord, Of, Busy,
         serverVars, deviceVars, vars, Pending, Asking, Requesting, Checking,
         KindOf
<1>1. ASSUME NEW d \in Devices, NEW r \in Receipts, NEW P \in SUBSET Albums, Confirm(d, r, P)
      PROVE  CallsOK'
  BY <1>1 DEF Confirm
<1>2. ASSUME NEW d \in Devices, NEW s \in Slots, Call(d, s) PROVE CallsOK'
  BY <1>2 DEF Call
<1>3. ASSUME NEW d \in Devices, NEW s \in Slots, Answer(d, s) PROVE CallsOK'
  BY <1>3 DEF Answer, After, AfterRefusal
<1>4. ASSUME NEW d \in Devices, NEW s \in Slots, Throw(d, s) PROVE CallsOK'
  BY <1>4 DEF Throw, AfterThrow
<1>5. ASSUME NEW d \in Devices, MarkAccepted(d) PROVE CallsOK'
  BY <1>5 DEF MarkAccepted
<1>6. ASSUME NEW d \in Devices, WipeDevice(d) PROVE CallsOK'
  BY <1>6 DEF WipeDevice
<1>7. ASSUME NEW d \in Devices, WipeFails(d) PROVE CallsOK'
  BY <1>7 DEF WipeFails
<1>8. ASSUME NEW d \in Devices, ClearMarker(d) PROVE CallsOK'
  BY <1>8 DEF ClearMarker
<1>9. ASSUME NEW d \in Devices, NEW next \in {"continue", "giveup"}, Choose(d, next)
      PROVE  CallsOK'
  BY <1>9 DEF Choose
<1>10. ASSUME NEW d \in Devices, Reopen(d) PROVE CallsOK'
  BY <1>10 DEF Reopen, Reopened
<1>11. ASSUME NEW d \in Devices, Kill(d) PROVE CallsOK'
  BY <1>11 DEF Kill
<1>12. ASSUME NEW s \in Slots, Authenticate(s) PROVE CallsOK'
  BY <1>12 DEF Authenticate
<1>13. ASSUME NEW s \in Slots, Accept(s) PROVE CallsOK'
  BY <1>13 DEF Accept, Barred
<1>14. ASSUME NEW s \in Slots, ServerError(s) PROVE CallsOK'
  BY <1>14 DEF ServerError
<1>15. ASSUME NEW s \in Slots, ReceiptAccepted(s) PROVE CallsOK'
  BY <1>15 DEF ReceiptAccepted, Accepted
<1>16. ASSUME NEW s \in Slots, AbandonReceipt(s) PROVE CallsOK'
  BY <1>16 DEF AbandonReceipt
<1>17. ASSUME NEW s \in Slots, Drop(s) PROVE CallsOK'
  BY <1>17 DEF Drop
<1>18. ASSUME NEW r \in Receipts, PruneReceipts(r) PROVE CallsOK'
  BY <1>18 DEF PruneReceipts
<1>19. ASSUME NEW a \in Albums, Share(a) PROVE CallsOK'
  BY <1>19 DEF Share, MayShare
<1>20. ASSUME NEW a \in Albums, Unshare(a) PROVE CallsOK'
  BY <1>20 DEF Unshare
<1>21. CASE FinishAccount
  BY <1>21 DEF FinishAccount
<1>22. CASE UNCHANGED vars
  BY <1>22 DEF vars
<1> QED
BY <1>1, <1>2, <1>3, <1>4, <1>5, <1>6, <1>7, <1>8, <1>9, <1>10, <1>11, <1>12,
      <1>13, <1>14, <1>15, <1>16, <1>17, <1>18, <1>19, <1>20, <1>21, <1>22 DEF
      Next, DeviceStep, ServerStep

\* The receipts.  A receipt becomes "kept" on a barred receipt only, and a
\* barred receipt is not accepted while a request with it is in flight.
LEMMA ReceiptStep == Inv /\ [Next]_vars => \A x \in Receipts : ReceiptOK(x)'
<1> SUFFICES ASSUME Inv, [Next]_vars PROVE \A x \in Receipts : ReceiptOK(x)'
  OBVIOUS
<1> USE NoneIsNew DEF Inv, TypeOK, FieldsOK, Tied, CallsOK, ReceiptOK, DeviceOK,
         CallRecord, Of, Busy, serverVars, deviceVars, vars, Pending, Asking,
         Requesting, Checking, KindOf
<1>1. ASSUME NEW d \in Devices, NEW r \in Receipts, NEW P \in SUBSET Albums, Confirm(d, r, P)
      PROVE  \A x \in Receipts : ReceiptOK(x)'
  BY <1>1 DEF Confirm
<1>2. ASSUME NEW d \in Devices, NEW s \in Slots, Call(d, s)
      PROVE  \A x \in Receipts : ReceiptOK(x)'
  BY <1>2 DEF Call
<1>3. ASSUME NEW d \in Devices, NEW s \in Slots, Answer(d, s)
      PROVE  \A x \in Receipts : ReceiptOK(x)'
  BY <1>3 DEF Answer, After, AfterRefusal
<1>4. ASSUME NEW d \in Devices, NEW s \in Slots, Throw(d, s)
      PROVE  \A x \in Receipts : ReceiptOK(x)'
  BY <1>4 DEF Throw, AfterThrow
<1>5. ASSUME NEW d \in Devices, MarkAccepted(d) PROVE \A x \in Receipts : ReceiptOK(x)'
  BY <1>5 DEF MarkAccepted
<1>6. ASSUME NEW d \in Devices, WipeDevice(d) PROVE \A x \in Receipts : ReceiptOK(x)'
  BY <1>6 DEF WipeDevice
<1>7. ASSUME NEW d \in Devices, WipeFails(d) PROVE \A x \in Receipts : ReceiptOK(x)'
  BY <1>7 DEF WipeFails
<1>8. ASSUME NEW d \in Devices, ClearMarker(d) PROVE \A x \in Receipts : ReceiptOK(x)'
  BY <1>8 DEF ClearMarker
<1>9. ASSUME NEW d \in Devices, NEW next \in {"continue", "giveup"}, Choose(d, next)
      PROVE  \A x \in Receipts : ReceiptOK(x)'
  BY <1>9 DEF Choose
<1>10. ASSUME NEW d \in Devices, Reopen(d) PROVE \A x \in Receipts : ReceiptOK(x)'
  BY <1>10 DEF Reopen, Reopened
<1>11. ASSUME NEW d \in Devices, Kill(d) PROVE \A x \in Receipts : ReceiptOK(x)'
  BY <1>11 DEF Kill
<1>12. ASSUME NEW s \in Slots, Authenticate(s) PROVE \A x \in Receipts : ReceiptOK(x)'
  BY <1>12 DEF Authenticate
<1>13. ASSUME NEW s \in Slots, Accept(s) PROVE \A x \in Receipts : ReceiptOK(x)'
  BY <1>13 DEF Accept, Barred
<1>14. ASSUME NEW s \in Slots, ServerError(s) PROVE \A x \in Receipts : ReceiptOK(x)'
  BY <1>14 DEF ServerError
<1>15. ASSUME NEW s \in Slots, ReceiptAccepted(s) PROVE \A x \in Receipts : ReceiptOK(x)'
  BY <1>15 DEF ReceiptAccepted, Accepted
<1>16. ASSUME NEW s \in Slots, AbandonReceipt(s) PROVE \A x \in Receipts : ReceiptOK(x)'
  BY <1>16 DEF AbandonReceipt
<1>17. ASSUME NEW s \in Slots, Drop(s) PROVE \A x \in Receipts : ReceiptOK(x)'
  BY <1>17 DEF Drop
<1>18. ASSUME NEW r \in Receipts, PruneReceipts(r) PROVE \A x \in Receipts : ReceiptOK(x)'
  BY <1>18 DEF PruneReceipts
<1>19. ASSUME NEW a \in Albums, Share(a) PROVE \A x \in Receipts : ReceiptOK(x)'
  BY <1>19 DEF Share, MayShare
<1>20. ASSUME NEW a \in Albums, Unshare(a) PROVE \A x \in Receipts : ReceiptOK(x)'
  BY <1>20 DEF Unshare
<1>21. CASE FinishAccount
  BY <1>21 DEF FinishAccount
<1>22. CASE UNCHANGED vars
  BY <1>22 DEF vars
<1> QED
BY <1>1, <1>2, <1>3, <1>4, <1>5, <1>6, <1>7, <1>8, <1>9, <1>10, <1>11, <1>12,
      <1>13, <1>14, <1>15, <1>16, <1>17, <1>18, <1>19, <1>20, <1>21, <1>22 DEF
      Next, DeviceStep, ServerStep

\* The devices.  Only an answer that proves acceptance leads to the wipe.
LEMMA DevicesStep == Inv /\ [Next]_vars => \A e \in Devices : DeviceOK(e)'
<1> SUFFICES ASSUME Inv, [Next]_vars PROVE \A e \in Devices : DeviceOK(e)'
  OBVIOUS
<1> USE NoneIsNew DEF Inv, TypeOK, FieldsOK, Tied, CallsOK, ReceiptOK, DeviceOK,
         CallRecord, Of, Busy, serverVars, deviceVars, vars, Pending, Asking,
         Requesting, Checking, KindOf
<1>1. ASSUME NEW d \in Devices, NEW r \in Receipts, NEW P \in SUBSET Albums, Confirm(d, r, P)
      PROVE  \A e \in Devices : DeviceOK(e)'
  BY <1>1 DEF Confirm
<1>2. ASSUME NEW d \in Devices, NEW s \in Slots, Call(d, s)
      PROVE  \A e \in Devices : DeviceOK(e)'
  BY <1>2 DEF Call
<1>3. ASSUME NEW d \in Devices, NEW s \in Slots, Answer(d, s)
      PROVE  \A e \in Devices : DeviceOK(e)'
  BY <1>3 DEF Answer, After, AfterRefusal
<1>4. ASSUME NEW d \in Devices, NEW s \in Slots, Throw(d, s)
      PROVE  \A e \in Devices : DeviceOK(e)'
  BY <1>4 DEF Throw, AfterThrow
<1>5. ASSUME NEW d \in Devices, MarkAccepted(d) PROVE \A e \in Devices : DeviceOK(e)'
  BY <1>5 DEF MarkAccepted
<1>6. ASSUME NEW d \in Devices, WipeDevice(d) PROVE \A e \in Devices : DeviceOK(e)'
  BY <1>6 DEF WipeDevice
<1>7. ASSUME NEW d \in Devices, WipeFails(d) PROVE \A e \in Devices : DeviceOK(e)'
  BY <1>7 DEF WipeFails
<1>8. ASSUME NEW d \in Devices, ClearMarker(d) PROVE \A e \in Devices : DeviceOK(e)'
  BY <1>8 DEF ClearMarker
<1>9. ASSUME NEW d \in Devices, NEW next \in {"continue", "giveup"}, Choose(d, next)
      PROVE  \A e \in Devices : DeviceOK(e)'
  BY <1>9 DEF Choose
<1>10. ASSUME NEW d \in Devices, Reopen(d) PROVE \A e \in Devices : DeviceOK(e)'
  BY <1>10 DEF Reopen, Reopened
<1>11. ASSUME NEW d \in Devices, Kill(d) PROVE \A e \in Devices : DeviceOK(e)'
  BY <1>11 DEF Kill
<1>12. ASSUME NEW s \in Slots, Authenticate(s) PROVE \A e \in Devices : DeviceOK(e)'
  BY <1>12 DEF Authenticate
<1>13. ASSUME NEW s \in Slots, Accept(s) PROVE \A e \in Devices : DeviceOK(e)'
  BY <1>13 DEF Accept, Barred
<1>14. ASSUME NEW s \in Slots, ServerError(s) PROVE \A e \in Devices : DeviceOK(e)'
  BY <1>14 DEF ServerError
<1>15. ASSUME NEW s \in Slots, ReceiptAccepted(s) PROVE \A e \in Devices : DeviceOK(e)'
  BY <1>15 DEF ReceiptAccepted, Accepted
<1>16. ASSUME NEW s \in Slots, AbandonReceipt(s) PROVE \A e \in Devices : DeviceOK(e)'
  BY <1>16 DEF AbandonReceipt
<1>17. ASSUME NEW s \in Slots, Drop(s) PROVE \A e \in Devices : DeviceOK(e)'
  BY <1>17 DEF Drop
<1>18. ASSUME NEW r \in Receipts, PruneReceipts(r) PROVE \A e \in Devices : DeviceOK(e)'
  BY <1>18 DEF PruneReceipts
<1>19. ASSUME NEW a \in Albums, Share(a) PROVE \A e \in Devices : DeviceOK(e)'
  BY <1>19 DEF Share, MayShare
<1>20. ASSUME NEW a \in Albums, Unshare(a) PROVE \A e \in Devices : DeviceOK(e)'
  BY <1>20 DEF Unshare
<1>21. CASE FinishAccount
  BY <1>21 DEF FinishAccount
<1>22. CASE UNCHANGED vars
  BY <1>22 DEF vars
<1> QED
BY <1>1, <1>2, <1>3, <1>4, <1>5, <1>6, <1>7, <1>8, <1>9, <1>10, <1>11, <1>12,
      <1>13, <1>14, <1>15, <1>16, <1>17, <1>18, <1>19, <1>20, <1>21, <1>22 DEF
      Next, DeviceStep, ServerStep

\* A device that wipes itself holds an accepted receipt, and an account does
\* not come back.
LEMMA WipedStep == Inv /\ [Next]_vars => WipedOnlyIfAccepted'
<1> SUFFICES ASSUME Inv, [Next]_vars PROVE WipedOnlyIfAccepted'
  OBVIOUS
<1> USE NoneIsNew DEF Inv, TypeOK, FieldsOK, ReceiptOK, DeviceOK,
         WipedOnlyIfAccepted, Of, Busy, serverVars, deviceVars, vars
<1>1. ASSUME NEW d \in Devices, NEW r \in Receipts, NEW P \in SUBSET Albums, Confirm(d, r, P)
      PROVE  WipedOnlyIfAccepted'
  BY <1>1 DEF Confirm
<1>2. ASSUME NEW d \in Devices, NEW s \in Slots, Call(d, s) PROVE WipedOnlyIfAccepted'
  BY <1>2 DEF Call
<1>3. ASSUME NEW d \in Devices, NEW s \in Slots, Answer(d, s) PROVE WipedOnlyIfAccepted'
  BY <1>3 DEF Answer, After, AfterRefusal
<1>4. ASSUME NEW d \in Devices, NEW s \in Slots, Throw(d, s) PROVE WipedOnlyIfAccepted'
  BY <1>4 DEF Throw, AfterThrow
<1>5. ASSUME NEW d \in Devices, MarkAccepted(d) PROVE WipedOnlyIfAccepted'
  BY <1>5 DEF MarkAccepted
<1>6. ASSUME NEW d \in Devices, WipeDevice(d) PROVE WipedOnlyIfAccepted'
  BY <1>6 DEF WipeDevice
<1>7. ASSUME NEW d \in Devices, WipeFails(d) PROVE WipedOnlyIfAccepted'
  BY <1>7 DEF WipeFails
<1>8. ASSUME NEW d \in Devices, ClearMarker(d) PROVE WipedOnlyIfAccepted'
  BY <1>8 DEF ClearMarker
<1>9. ASSUME NEW d \in Devices, NEW next \in {"continue", "giveup"}, Choose(d, next)
      PROVE  WipedOnlyIfAccepted'
  BY <1>9 DEF Choose
<1>10. ASSUME NEW d \in Devices, Reopen(d) PROVE WipedOnlyIfAccepted'
  BY <1>10 DEF Reopen, Reopened
<1>11. ASSUME NEW d \in Devices, Kill(d) PROVE WipedOnlyIfAccepted'
  BY <1>11 DEF Kill
<1>12. ASSUME NEW s \in Slots, Authenticate(s) PROVE WipedOnlyIfAccepted'
  BY <1>12 DEF Authenticate
<1>13. ASSUME NEW s \in Slots, Accept(s) PROVE WipedOnlyIfAccepted'
  BY <1>13 DEF Accept, Barred
<1>14. ASSUME NEW s \in Slots, ServerError(s) PROVE WipedOnlyIfAccepted'
  BY <1>14 DEF ServerError
<1>15. ASSUME NEW s \in Slots, ReceiptAccepted(s) PROVE WipedOnlyIfAccepted'
  BY <1>15 DEF ReceiptAccepted, Accepted
<1>16. ASSUME NEW s \in Slots, AbandonReceipt(s) PROVE WipedOnlyIfAccepted'
  BY <1>16 DEF AbandonReceipt
<1>17. ASSUME NEW s \in Slots, Drop(s) PROVE WipedOnlyIfAccepted'
  BY <1>17 DEF Drop
<1>18. ASSUME NEW r \in Receipts, PruneReceipts(r) PROVE WipedOnlyIfAccepted'
  BY <1>18 DEF PruneReceipts
<1>19. ASSUME NEW a \in Albums, Share(a) PROVE WipedOnlyIfAccepted'
  BY <1>19 DEF Share, MayShare
<1>20. ASSUME NEW a \in Albums, Unshare(a) PROVE WipedOnlyIfAccepted'
  BY <1>20 DEF Unshare
<1>21. CASE FinishAccount
  BY <1>21 DEF FinishAccount
<1>22. CASE UNCHANGED vars
  BY <1>22 DEF vars
<1> QED
BY <1>1, <1>2, <1>3, <1>4, <1>5, <1>6, <1>7, <1>8, <1>9, <1>10, <1>11, <1>12,
      <1>13, <1>14, <1>15, <1>16, <1>17, <1>18, <1>19, <1>20, <1>21, <1>22 DEF
      Next, DeviceStep, ServerStep

-----------------------------------------------------------------------------
(***************************************************************************)
(* The theorems.                                                           *)
(***************************************************************************)

LEMMA InitInv == Init => Inv
<1> SUFFICES ASSUME Init PROVE Inv
  OBVIOUS
<1> USE NoneIsNew DEF Init
<1>1. TypeOK
  BY DEF TypeOK, FieldsOK, Tied, Of, Busy, Pending, Asking, Requesting, Checking
<1>2. CallsOK
  BY DEF CallsOK, Busy
<1>3. \A r \in Receipts : ReceiptOK(r)
  BY DEF ReceiptOK
<1>4. \A d \in Devices : DeviceOK(d)
  BY DEF DeviceOK
<1>5. WipedOnlyIfAccepted
  BY DEF WipedOnlyIfAccepted
<1> QED
  BY <1>1, <1>2, <1>3, <1>4, <1>5 DEF Inv

\* The invariant holds throughout.
THEOREM DeletionInvariant == Spec => []Inv
<1>1. Init => Inv
  BY InitInv
<1>2. Inv /\ [Next]_vars => Inv'
  BY FieldsStep, TiedStep, CallsStep, ReceiptStep, DevicesStep, WipedStep
     DEF Inv, TypeOK
<1> QED
  BY <1>1, <1>2, PTL DEF Spec

\* The type invariant, for any number of devices, receipts and calls.
THEOREM DeletionTypeInvariant == Spec => []TypeOK
<1>1. Inv => TypeOK
  BY DEF Inv
<1> QED
  BY <1>1, DeletionInvariant, PTL

\* A device wipes its keys and photos only when the server has accepted the
\* account's deletion, whatever was lost, retried or answered late.
THEOREM DeletionWipesOnlyAccepted == Spec => []WipedOnlyIfAccepted
<1>1. Inv => WipedOnlyIfAccepted
  BY DEF Inv
<1> QED
  BY <1>1, DeletionInvariant, PTL

\* A device whose deletion was accepted keeps the marker that makes it wipe.
THEOREM DeletionNeverStrands == Spec => []AcceptedNotStranded
<1>1. Inv => AcceptedNotStranded
  <2> SUFFICES ASSUME Inv, NEW r \in Receipts, receipts[r] = "accepted"
               PROVE  owner[r] \notin vault \/ marker[owner[r]] = r
    BY DEF AcceptedNotStranded, Accepted
  <2>1. outcome[r] \in {"none", "kept", "wiped"}
    BY DEF Inv, TypeOK, FieldsOK
  <2> QED
    BY <2>1 DEF Inv, ReceiptOK
<1> QED
  BY <1>1, DeletionInvariant, PTL

\* The albums the deletion takes from others are among those its accepted plan
\* named, from the acceptance until the account is gone.
THEOREM DeletionPlanCovers == Spec => []PlanCovers
<1>1. Init => PlanCovers
  BY DEF Init, PlanCovers
<1>2. Inv /\ PlanCovers /\ [Next]_vars => PlanCovers'
  <2> SUFFICES ASSUME Inv, PlanCovers, [Next]_vars PROVE PlanCovers'
    OBVIOUS
  <2> USE DEF PlanCovers, serverVars, deviceVars, vars
  <2>1. CASE UNCHANGED <<account, shared, consent>>
    BY <2>1
  <2>2. ASSUME NEW d \in Devices, DeviceStep(d) PROVE UNCHANGED serverVars
    BY <2>2, Zenon DEF DeviceStep, Confirm, Call, Answer, Throw, MarkAccepted, WipeDevice,
          WipeFails, ClearMarker, Choose, Reopen, Kill
  <2>3. ASSUME NEW s \in Slots, Accept(s) PROVE PlanCovers'
    BY <2>3 DEF Accept, Inv, TypeOK, FieldsOK
  <2>4. ASSUME NEW a \in Albums, Share(a) \/ Unshare(a) PROVE PlanCovers'
    BY <2>4 DEF Share, Unshare, MayShare
  <2>5. CASE FinishAccount
    BY <2>5 DEF FinishAccount
  <2>6. ASSUME NEW s \in Slots,
               Authenticate(s) \/ ServerError(s) \/ ReceiptAccepted(s)
                 \/ AbandonReceipt(s) \/ Drop(s)
        PROVE  UNCHANGED <<account, shared, consent>>
    BY <2>6 DEF Authenticate, ServerError, ReceiptAccepted, AbandonReceipt, Drop
  <2>7. ASSUME NEW r \in Receipts, PruneReceipts(r)
        PROVE  UNCHANGED <<account, shared, consent>>
    BY <2>7 DEF PruneReceipts
  <2> QED
    BY <2>1, <2>2, <2>3, <2>4, <2>5, <2>6, <2>7 DEF Next, ServerStep
<1> QED
  BY <1>1, <1>2, DeletionInvariant, PTL DEF Spec

-----------------------------------------------------------------------------
(***************************************************************************)
(* The protocol implements DeletionPromise.                                *)
(***************************************************************************)

\* A step that leaves owner's receipts and outcomes alone is a stutter of the
\* promise.
LEMMA QuietIsStutter ==
  ASSUME receipts' = receipts, outcome' = outcome
  PROVE  Fate' = Fate
BY DEF Fate, Accepted

\* The answer that clears a marker keeps a receipt that was open.
LEMMA AnswerKeeps ==
  ASSUME Inv, NEW d \in Devices, NEW s \in Slots, Answer(d, s)
  PROVE  [Promise!Next]_Fate
<1> USE NoneIsNew
<1> DEFINE r == marker[d]
<1>1. CASE outcome' = outcome
  BY <1>1, QuietIsStutter DEF Answer, serverVars
<1>2. CASE outcome' # outcome
  <2>1. /\ After(flow[d], calls[s].st) = "idle"
        /\ outcome' = [outcome EXCEPT ![r] = "kept"]
        /\ receipts' = receipts /\ s \in Of(d)
        /\ calls[s].st \notin {"sent", "authed"}
    BY <1>2 DEF Answer, serverVars
  <2>2. /\ flow[d] \in Asking /\ calls[s].kind = KindOf(flow[d])
        /\ calls[s].r = r /\ s \in Busy /\ r \in Receipts /\ owner[r] = d
    BY <2>1 DEF Inv, TypeOK, FieldsOK, Tied, Of, Pending
  <2>3. flow[d] = "giveup" /\ calls[s].st \notin {"ok", "yes"}
    BY <2>1, <2>2 DEF After, AfterRefusal, Asking, Requesting, Checking
  <2>4. calls[s].st = "no" /\ calls[s].kind = "abandon"
    BY <2>1, <2>2, <2>3 DEF Inv, CallsOK, KindOf, Requesting, Checking
  <2>5. receipts[r] = "abandoned"
    BY <2>2, <2>4 DEF Inv, CallsOK
  <2>6. outcome[r] = "none"
    BY <2>2, <2>3 DEF Inv, TypeOK, FieldsOK, ReceiptOK, DeviceOK
  <2>7. Fate[r] = "open" /\ Fate' = [Fate EXCEPT ![r] = "kept"]
    BY <2>1, <2>2, <2>5, <2>6 DEF Fate, Accepted, Inv, TypeOK, FieldsOK
  <2> QED
    BY <2>2, <2>7 DEF Promise!Next, Promise!Keep
<1> QED
  BY <1>1, <1>2

\* The verified wipe ends an accepted receipt.
LEMMA WipeWipes ==
  ASSUME Inv, NEW d \in Devices, WipeDevice(d)
  PROVE  [Promise!Next]_Fate
<1> USE NoneIsNew
<1> DEFINE r == marker[d]
<1>1. /\ r \in Receipts /\ owner[r] = d
      /\ receipts[r] = "accepted" /\ outcome[r] # "kept"
      /\ receipts' = receipts
      /\ outcome' = [outcome EXCEPT ![r] = "wiped"]
  BY DEF WipeDevice, serverVars, Inv, TypeOK, FieldsOK, Tied, DeviceOK, ReceiptOK
<1>2. CASE outcome[r] = "wiped"
  BY <1>1, <1>2, QuietIsStutter DEF Inv, TypeOK, FieldsOK
<1>3. CASE outcome[r] = "none"
  <2>1. Fate[r] = "accepted" /\ Fate' = [Fate EXCEPT ![r] = "wiped"]
    BY <1>1, <1>3 DEF Fate, Accepted, Inv, TypeOK, FieldsOK
  <2> QED
    BY <1>1, <2>1 DEF Promise!Next, Promise!Wipe
<1> QED
  BY <1>1, <1>2, <1>3 DEF Inv, TypeOK, FieldsOK

\* Acceptance accepts an open receipt, or repeats itself.
LEMMA AcceptAccepts ==
  ASSUME Inv, NEW s \in Slots, Accept(s)
  PROVE  [Promise!Next]_Fate
<1> USE NoneIsNew
<1> DEFINE r == calls[s].r
<1>1. CASE receipts' = receipts
  BY <1>1, QuietIsStutter DEF Accept, deviceVars
<1>2. CASE receipts' # receipts
  <2>1. /\ s \in Busy /\ r \in Receipts
        /\ receipts[r] # "abandoned" /\ receipts[r] # "accepted"
        /\ receipts' = [receipts EXCEPT ![r] = "accepted"]
        /\ outcome' = outcome
    BY <1>2 DEF Accept, Barred, serverVars, deviceVars, Busy, Inv, TypeOK, FieldsOK,
          CallRecord
  <2>2. outcome[r] # "kept"
    BY <2>1 DEF Inv, ReceiptOK
  <2>3. CASE outcome[r] = "wiped"
    <3>1. Fate' = Fate
      BY <2>1, <2>3 DEF Fate, Accepted, Inv, TypeOK, FieldsOK
    <3> QED
      BY <3>1
  <2>4. CASE outcome[r] = "none"
    <3>1. Fate[r] = "open" /\ Fate' = [Fate EXCEPT ![r] = "accepted"]
      BY <2>1, <2>4 DEF Fate, Accepted, Inv, TypeOK, FieldsOK
    <3> QED
      BY <2>1, <3>1 DEF Promise!Next, Promise!Accept
  <2> QED
    BY <2>1, <2>2, <2>3, <2>4 DEF Inv, TypeOK, FieldsOK
<1> QED
  BY <1>1, <1>2

\* Abandoning bars a receipt the promise still counts as open, and pruning
\* forgets only receipts whose outcome is known.
LEMMA ReceiptsStutter ==
  ASSUME Inv, \/ \E s \in Slots : AbandonReceipt(s)
              \/ \E r \in Receipts : PruneReceipts(r)
  PROVE  Fate' = Fate
<1> USE NoneIsNew DEF Inv, TypeOK, FieldsOK, Fate, Accepted, deviceVars
<1>1. ASSUME NEW s \in Slots, AbandonReceipt(s) PROVE Fate' = Fate
  BY <1>1 DEF AbandonReceipt
<1>2. ASSUME NEW r \in Receipts, PruneReceipts(r) PROVE Fate' = Fate
  <2>1. receipts[r] = "accepted" => outcome[r] # "none"
    BY <1>2 DEF PruneReceipts, ReceiptOK
  <2> QED
    BY <1>2, <2>1 DEF PruneReceipts
<1> QED
  BY <1>1, <1>2

\* Every other step leaves the receipts and their outcomes alone.
LEMMA StepKeepsPromise == Inv /\ [Next]_vars => [Promise!Next]_Fate
<1> SUFFICES ASSUME Inv, [Next]_vars PROVE [Promise!Next]_Fate
  OBVIOUS
<1>1. ASSUME NEW d \in Devices, DeviceStep(d) PROVE [Promise!Next]_Fate
  <2>1. CASE \E s \in Slots : Answer(d, s)
    BY <2>1, AnswerKeeps
  <2>2. CASE WipeDevice(d)
    BY <2>2, WipeWipes
  <2>3. ASSUME ~\E s \in Slots : Answer(d, s), ~WipeDevice(d)
        PROVE  receipts' = receipts /\ outcome' = outcome
    BY <1>1, <2>3 DEF DeviceStep, Confirm, Call, Throw, MarkAccepted, WipeFails,
          ClearMarker, Choose, Reopen, Kill, serverVars, deviceVars
  <2> QED
    BY <2>1, <2>2, <2>3, QuietIsStutter
<1>2. CASE ServerStep
  <2>1. CASE \E s \in Slots : Accept(s)
    BY <2>1, AcceptAccepts
  <2>2. CASE \/ \E s \in Slots : AbandonReceipt(s)
             \/ \E r \in Receipts : PruneReceipts(r)
    BY <2>2, ReceiptsStutter
  <2>3. CASE \/ \E s \in Slots : Authenticate(s) \/ ServerError(s)
                                   \/ ReceiptAccepted(s) \/ Drop(s)
             \/ \E a \in Albums : Share(a) \/ Unshare(a)
             \/ FinishAccount
    <3>1. receipts' = receipts /\ outcome' = outcome
      BY <2>3 DEF Authenticate, ServerError, ReceiptAccepted, Drop, Share, Unshare,
            FinishAccount, serverVars, deviceVars
    <3> QED
      BY <3>1, QuietIsStutter
  <2> QED
    BY <1>2, <2>1, <2>2, <2>3 DEF ServerStep
<1>3. CASE UNCHANGED vars
  BY <1>3, QuietIsStutter DEF vars, serverVars, deviceVars
<1> QED
  BY <1>1, <1>2, <1>3 DEF Next

\* The promise of account deletion, for every instance: each receipt is
\* accepted and then its device wiped, or kept and then never accepted.
THEOREM DeletionKeepsPromise == Spec => KeepsPromise
<1>1. Init => Promise!Init
  BY DEF Init, Promise!Init, Fate, Accepted
<1>2. Inv /\ [Next]_vars => [Promise!Next]_Fate
  BY StepKeepsPromise
<1> QED
  BY <1>1, <1>2, DeletionInvariant, PTL DEF Spec, KeepsPromise, Promise!Spec

=============================================================================
