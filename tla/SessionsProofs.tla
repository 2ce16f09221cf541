----------------------------- MODULE SessionsProofs -----------------------------
(***************************************************************************)
(* What is proved about Sessions for every number of sign-ins and phones,  *)
(* and every limit and lifetime.                                           *)
(***************************************************************************)
EXTENDS Sessions, FiniteSetTheorems, TLAPS

-----------------------------------------------------------------------------
(***************************************************************************)
(* Types.                                                                  *)
(***************************************************************************)

\* A renewal in flight has an expiry to write.
Dated == \A p \in Phones : task[p].at \in {"extend", "renewed"} => task[p].exp \in Day

Typed == SessionTypeOK /\ Dated

\* The constants are numbers, the limits positive.
LEMMA Numbers ==
    /\ MaxAttempts \in Nat /\ MaxAttempts >= 1
    /\ MaxRequests \in Nat /\ MaxRequests >= 1
    /\ SessionTTL \in Nat /\ Window \in Nat /\ MaxDay \in Nat
    /\ MaxCodes \in Nat /\ MaxWindows \in Nat /\ MaxAccounts \in Nat
BY CodeLimits, SessionTimes, SessionBounds

\* The values things rest at, and the last expiry a session can get.
LEMMA Resters ==
    /\ Quiet \in SignIns /\ NoCred \in Credentials /\ Resting \in Tasks
    /\ NoRow \in Rows
    /\ \A d \in 0 .. MaxDay : d + SessionTTL \in Day
BY Numbers DEF Quiet, NoCred, Resting, NoRow, Rows, Day, None, SignIns, Credentials, Tasks, Seen

\* The row of a token, and of no token.
LEMMA RowType ==
    ASSUME SessionTypeOK, NEW t \in {0} \cup Token
    PROVE  Row(t) \in Rows
BY Resters DEF SessionTypeOK, Row

\* The initial state has the types.
LEMMA TypedInit == SessionInit => Typed
<1> SUFFICES ASSUME SessionInit PROVE Typed
  OBVIOUS
<1>1. SessionTypeOK
  BY Numbers, Resters DEF SessionInit, SessionTypeOK, Codes, Tallies, NoVault, Vaults
<1>2. Dated
  BY DEF SessionInit, Dated, Resting
<1> QED
  BY <1>1, <1>2 DEF Typed

\* Codes and their window keep the types.
LEMMA TypedCodes ==
    ASSUME Typed, Ask \/ StoreCode \/ StoreFails \/ CodeExpires \/ WindowExpires
                  \/ \E c \in Code : SendCode(c)
    PROVE  Typed'
<1> USE DEF Typed, SessionTypeOK, Dated, phoneVars
<1>1. CASE Ask
  <2>1. rate' \in 0 .. MaxRequests + 1 /\ asking' \in Nat
    BY <1>1, Numbers DEF Ask, Allowed
  <2>2. tally' \in Tallies
    BY <1>1, Numbers DEF Ask, Tallies
  <2> QED
    BY <1>1, <2>1, <2>2 DEF Ask
<1>2. CASE StoreCode
  <2>1. tally.codes + 1 \in Code
    <3>1. tally.codes \in {0} \cup Code /\ tally.codes < MaxCodes
      BY <1>2 DEF StoreCode, Tallies
    <3> QED
      BY <3>1, Numbers DEF Code
  <2>2. otp' \in Codes /\ tally' \in Tallies
    BY <1>2, <2>1, Numbers DEF StoreCode, Codes, Tallies
  <2>3. asking' \in Nat /\ mail' \in [Code -> {"lost", "sending", "mailed"}]
    BY <1>2, <2>1, Numbers DEF StoreCode
  <2> QED
    BY <1>2, <2>2, <2>3 DEF StoreCode
<1>3. CASE StoreFails
  BY <1>3, Numbers DEF StoreFails
<1>4. CASE CodeExpires
  BY <1>4, Numbers DEF CodeExpires, Codes
<1>5. CASE WindowExpires
  BY <1>5, Numbers DEF WindowExpires
<1>6. ASSUME NEW c \in Code, SendCode(c) PROVE Typed'
  BY <1>6 DEF SendCode
<1> QED
  BY <1>1, <1>2, <1>3, <1>4, <1>5, <1>6

\* A step of a sign-in keeps the types.
LEMMA TypedVerify ==
    ASSUME Typed, NEW v \in Verifiers,
           CheckCode(v) \/ LookUp(v) \/ CreateUser(v) \/ InsertSession(v) \/ VerifyFails(v)
    PROVE  Typed'
<1> USE DEF Typed, SessionTypeOK, Dated, codeVars, phoneVars
<1>1. CASE CheckCode(v)
  <2>1. PICK c \in Code \cup {0} :
          \/ /\ otp' = Spent
             /\ c # 0
             /\ verify' = [verify EXCEPT ![v] = [at |-> "checked", acct |-> 0, token |-> c]]
             /\ tally' = [tally EXCEPT !.uses[c] = @ + 1]
          \/ /\ otp' = IF Burns THEN [code |-> 0, misses |-> 0]
                       ELSE [otp EXCEPT !.misses = @ + 1]
             /\ tally' = [tally EXCEPT !.misses = @ + 1]
             /\ UNCHANGED verify
    BY <1>1 DEF CheckCode
  <2>2. otp' \in Codes
    BY <2>1, Numbers DEF Spent, Burns, Codes
  <2>3. verify' \in [Verifiers -> SignIns]
    BY <2>1 DEF SignIns, Token
  <2>4. tally' \in Tallies
    BY <2>1 DEF Tallies
  <2> QED
    BY <1>1, <2>2, <2>3, <2>4 DEF CheckCode
<1>2. CASE LookUp(v)
  <2>1. verify' \in [Verifiers -> SignIns]
    BY <1>2, Resters DEF LookUp, SignIns
  <2> QED
    BY <1>2, <2>1 DEF LookUp
<1>3. CASE CreateUser(v)
  <2>1. CASE ~EmailFree
    BY <1>3, <2>1, Resters DEF CreateUser
  <2>2. CASE EmailFree
    <3>1. tally.accounts + 1 \in Account
      BY <1>3, <2>2, Numbers DEF CreateUser, Account, Tallies
    <3>2. users' \in [live : SUBSET Account, deleting : SUBSET Account,
                       identified : SUBSET Account]
      BY <1>3, <2>2, <3>1 DEF CreateUser
    <3>3. verify' \in [Verifiers -> SignIns]
      BY <1>3, <2>2, <3>1 DEF CreateUser, SignIns
    <3>4. tally' \in Tallies
      BY <1>3, <2>2, <3>1 DEF CreateUser, Tallies
    <3> QED
      BY <1>3, <3>2, <3>3, <3>4 DEF CreateUser
  <2> QED
    BY <2>1, <2>2
<1>4. CASE InsertSession(v)
  <2>1. verify' \in [Verifiers -> SignIns]
    BY <1>4, Resters DEF InsertSession, SignIns
  <2>2. sessions' \in [Token -> Rows]
    BY <1>4, Resters DEF InsertSession, SignIns, Rows
  <2> QED
    BY <1>4, <2>1, <2>2 DEF InsertSession
<1>5. CASE VerifyFails(v)
  BY <1>5, Resters DEF VerifyFails
<1> QED
  BY <1>1, <1>2, <1>3, <1>4, <1>5

\* The tasks a phone is given, and what they are.
LEMMA GivenTasks ==
    /\ Resting \in Tasks /\ Resting.at = "idle" /\ Resting.kind = "call"
    /\ Killed \in Tasks /\ Killed.at = "off" /\ Killed.kind = "call"
    /\ Shut \in Tasks /\ Shut.at = "shut" /\ Shut.kind = "call"
    /\ \A k \in {"call", "delete", "me", "keys"} :
         Sent(k) \in Tasks /\ Sent(k).at = "sent" /\ Sent(k).kind = k
    /\ \A u \in {0} \cup Account :
         LET r == [Sent("keys") EXCEPT !.user = u] IN
         r \in Tasks /\ r.at = "sent" /\ r.kind = "keys" /\ r.user = u
    /\ \A u \in {0} \cup Account, s \in Seen :
         /\ AtGate(u, s) \in Tasks /\ AtGate(u, s).at = "gate" /\ AtGate(u, s).kind = "call"
         /\ AtGate(u, s).user = u /\ AtGate(u, s).seen = s
BY DEF Killed, Shut, Sent, AtGate, Resting, Tasks, Seen, None

\* What a phone holds after n writes, and what it then shows.
LEMMA StoreTypes ==
    ASSUME SessionTypeOK, NEW p \in Phones, NEW new \in Credentials, NEW next \in Tasks,
           NEW shown \in {"sign-in", "app", "lost"}, Store(p, new, next, shown)
    PROVE  /\ cred' \in [Phones -> Credentials]
           /\ task' \in [Phones -> Tasks]
           /\ screen' \in [Phones -> {"sign-in", "app", "lost"}]
           /\ \E r \in {next, Killed} : task' = [task EXCEPT ![p] = r]
<1> USE DEF SessionTypeOK
<1>1. PICK n \in 1 .. 4 :
        /\ cred' = [cred EXCEPT ![p] = Written(@, new, n)]
        /\ task' = [task EXCEPT ![p] = IF n = 4 THEN next ELSE Killed]
        /\ screen' = [screen EXCEPT ![p] = IF n = 4 THEN shown ELSE "sign-in"]
  BY DEF Store
<1>2. Written(cred[p], new, n) \in Credentials
  BY DEF Written, Credentials
<1> QED
  BY <1>1, <1>2, GivenTasks

\* A task a phone may be in takes the place of its task.
LEMMA TaskTypes ==
    ASSUME Typed, NEW p \in Phones, NEW r \in Tasks,
           r.at \in {"extend", "renewed"} => r.exp \in Day,
           task' = [task EXCEPT ![p] = r]
    PROVE  task' \in [Phones -> Tasks] /\ Dated'
BY DEF Typed, SessionTypeOK, Dated

\* What follows a call that is over.
LEMMA EndsTypes ==
    ASSUME Typed, NEW p \in Phones, NEW u \in {0} \cup Account, NEW s \in Seen, Ends(p, u, s)
    PROVE  /\ task' \in [Phones -> Tasks] /\ Dated'
           /\ \E r \in Tasks : /\ r.at \in {"idle", "sent", "shut", "gate"}
                               /\ task' = [task EXCEPT ![p] = r]
<1>1. task[p].user \in {0} \cup Account
  BY DEF Typed, SessionTypeOK, Tasks
<1>2. PICK r \in {Sent("me"), [Sent("keys") EXCEPT !.user = u], Shut,
                  AtGate(task[p].user, s), Resting} : task' = [task EXCEPT ![p] = r]
  BY DEF Ends
<1>4. r \in Tasks /\ r.at \in {"idle", "sent", "shut", "gate"}
  <2>1. CASE r = Sent("me")
    BY <2>1, GivenTasks
  <2>2. CASE r = [Sent("keys") EXCEPT !.user = u]
    BY <2>2, GivenTasks
  <2>3. CASE r = Shut \/ r = Resting
    BY <2>3, GivenTasks
  <2>4. CASE r = AtGate(task[p].user, s)
    <3>1. AtGate(task[p].user, s) \in Tasks /\ AtGate(task[p].user, s).at = "gate"
      BY <1>1, GivenTasks
    <3> QED
      BY <2>4, <3>1
  <2> QED
    BY <1>2, <2>1, <2>2, <2>3, <2>4
<1>5. task' \in [Phones -> Tasks] /\ Dated'
  BY <1>2, <1>4, TaskTypes
<1> QED
  BY <1>2, <1>4, <1>5

\* And a call that failed.
LEMMA FailsTypes ==
    ASSUME Typed, NEW p \in Phones, Fails(p)
    PROVE  /\ task' \in [Phones -> Tasks] /\ Dated'
           /\ \E r \in Tasks : /\ r.at \in {"idle", "sent", "shut", "gate"}
                               /\ task' = [task EXCEPT ![p] = r]
<1>1. cred[p].user \in {0} \cup Account /\ "unavailable" \in Seen
  BY DEF Typed, SessionTypeOK, Credentials, Seen
<1> QED
  BY <1>1, EndsTypes DEF Fails

\* The server's half of a phone's calls, and the phone's, keep the types.
LEMMA TypedPhone ==
    ASSUME Typed, NEW p \in Phones,
           \/ Call(p) \/ Resume(p) \/ Authenticate(p) \/ Handle(p) \/ Refused(p)
           \/ ReadSession(p) \/ ExtendSession(p) \/ Renewed(p) \/ Rejected(p)
           \/ CallFails(p)
    PROVE  Typed'
<1> USE DEF Typed, SessionTypeOK, codeVars, phoneVars
<1>0. task[p] \in Tasks /\ cred[p] \in Credentials
  OBVIOUS
<1>1. CASE Call(p)
  <2>1. PICK k \in {"call", "delete"} : task' = [task EXCEPT ![p] = Sent(k)]
    BY <1>1 DEF Call
  <2>2. task' \in [Phones -> Tasks] /\ Dated'
    BY <2>1, GivenTasks, TaskTypes
  <2> QED
    BY <1>1, <2>2 DEF Call
<1>2. CASE Resume(p)
  <2>0. LET r == [Resting EXCEPT !.at = "refresh", !.kind = "renew"] IN
        r \in Tasks /\ r.at = "refresh"
    BY DEF Resting, Tasks, None, Seen
  <2>1. task' \in [Phones -> Tasks] /\ Dated'
    BY <1>2, <2>0, TaskTypes DEF Resume
  <2> QED
    BY <1>2, <2>1 DEF Resume
<1>3. CASE Authenticate(p)
  <2>1. Row(cred[p].token).acct \in {0} \cup Account
    BY RowType, <1>0 DEF Credentials, Rows
  <2>2. [task[p] EXCEPT !.at = "admitted", !.acct = Row(cred[p].token).acct] \in Tasks
    BY <2>1, <1>0 DEF Tasks
  <2>3. [task[p] EXCEPT !.at = "refused"] \in Tasks
    BY <1>0 DEF Tasks
  <2>4. /\ [task[p] EXCEPT !.at = "admitted", !.acct = Row(cred[p].token).acct].at = "admitted"
        /\ [task[p] EXCEPT !.at = "refused"].at = "refused"
    BY <1>0 DEF Tasks
  <2>5. PICK r \in {[task[p] EXCEPT !.at = "admitted", !.acct = Row(cred[p].token).acct],
                    [task[p] EXCEPT !.at = "refused"]} : task' = [task EXCEPT ![p] = r]
    BY <1>3 DEF Authenticate
  <2>6. task' \in [Phones -> Tasks] /\ Dated'
    <3>1. r \in Tasks /\ r.at \in {"admitted", "refused"}
      BY <2>2, <2>3, <2>4, <2>5
    <3> QED
      BY <2>5, <3>1, TaskTypes
  <2> QED
    BY <1>3, <2>6 DEF Authenticate
<1>4. CASE Handle(p)
  <2> DEFINE a == task[p].acct
  <2>0. a \in {0} \cup Account /\ ServerKeys(p, a) \in Seen
    BY <1>0 DEF Tasks, ServerKeys, Seen
  <2>1. task' \in [Phones -> Tasks] /\ Dated'
    BY <1>4, <2>0, EndsTypes DEF Handle
  <2>2. /\ users' \in [live : SUBSET Account, deleting : SUBSET Account,
                       identified : SUBSET Account]
        /\ sessions' \in [Token -> Rows]
    <3>1. CASE UNCHANGED <<users, sessions>>
      BY <3>1
    <3>2. CASE /\ a \in users.live
               /\ users' = [users EXCEPT !.live = @ \ {a}, !.deleting = @ \cup {a}]
               /\ sessions' = [t \in Token |-> IF sessions[t].acct = a THEN NoRow ELSE sessions[t]]
      <4>1. sessions' \in [Token -> Rows]
        BY <3>2, Resters
      <4> QED
        BY <3>2, <4>1
    <3> QED
      BY <1>4, <3>1, <3>2 DEF Handle
  <2>3. cred' \in [Phones -> Credentials]
    <3>1. [cred[p] EXCEPT !.user = a] \in Credentials
      BY <1>0, <2>0 DEF Credentials
    <3>2. cred' = [cred EXCEPT ![p] = [cred[p] EXCEPT !.user = a]] \/ cred' = cred
      BY <1>4 DEF Handle
    <3> QED
      BY <3>1, <3>2
  <2> QED
    BY <1>4, <2>1, <2>2, <2>3 DEF Handle
<1>5. CASE Refused(p)
  <2>1. [task[p] EXCEPT !.at = "refresh"] \in Tasks
    BY <1>0 DEF Tasks
  <2>2. CASE task' = [task EXCEPT ![p].at = "refresh"]
    BY <1>5, <2>1, <2>2 DEF Refused, Dated, Tasks
  <2>3. CASE Fails(p)
    BY <1>5, <2>3, FailsTypes DEF Refused
  <2> QED
    BY <1>5, <2>2, <2>3 DEF Refused
<1>6. CASE ReadSession(p)
  <2>1. CASE Fails(p)
    BY <1>6, <2>1, FailsTypes DEF ReadSession
  <2>2. CASE \/ task' = [task EXCEPT ![p].at = "extend", ![p].exp = day + SessionTTL]
             \/ task' = [task EXCEPT ![p].at = "rejected"]
    <3>1. /\ [task[p] EXCEPT !.at = "extend", !.exp = day + SessionTTL] \in Tasks
          /\ [task[p] EXCEPT !.at = "rejected"] \in Tasks
          /\ day + SessionTTL \in Day
      BY <1>0, Resters DEF Tasks
    <3>2. PICK r \in {[task[p] EXCEPT !.at = "extend", !.exp = day + SessionTTL],
                      [task[p] EXCEPT !.at = "rejected"]} : task' = [task EXCEPT ![p] = r]
      BY <2>2
    <3>3. r \in Tasks /\ (r.at \in {"extend", "renewed"} => r.exp \in Day)
      BY <1>0, <3>1, <3>2 DEF Tasks
    <3>4. task' \in [Phones -> Tasks] /\ Dated'
      BY <3>2, <3>3, TaskTypes
    <3> QED
      BY <1>6, <3>4 DEF ReadSession
  <2> QED
    BY <1>6, <2>1, <2>2 DEF ReadSession, Goes
<1>7. CASE ExtendSession(p)
  <2>1. CASE Fails(p) /\ UNCHANGED sessions
    BY <1>7, <2>1, FailsTypes DEF ExtendSession
  <2>2. CASE task' = [task EXCEPT ![p].at = "renewed"] \/ task' = [task EXCEPT ![p].at = "rejected"]
    <3>1. task[p].exp \in Day
      BY <1>7 DEF ExtendSession, Dated
    <3>2. PICK r \in {[task[p] EXCEPT !.at = "renewed"], [task[p] EXCEPT !.at = "rejected"]} :
            task' = [task EXCEPT ![p] = r]
      BY <2>2
    <3>3. r \in Tasks /\ (r.at \in {"extend", "renewed"} => r.exp \in Day)
      BY <1>0, <3>1, <3>2 DEF Tasks
    <3>4. task' \in [Phones -> Tasks] /\ Dated'
      BY <3>2, <3>3, TaskTypes
    <3>5. sessions' \in [Token -> Rows]
      <4>1. CASE UNCHANGED sessions
        BY <4>1
      <4>2. CASE sessions' = [sessions EXCEPT ![cred[p].refresh].exp = task[p].exp]
        BY <4>2, <3>1 DEF Rows
      <4> QED
        BY <1>7, <4>1, <4>2 DEF ExtendSession, Extended
    <3> QED
      BY <1>7, <3>4, <3>5 DEF ExtendSession
  <2> QED
    BY <1>7, <2>1, <2>2 DEF ExtendSession, Goes
<1>8. CASE Renewed(p)
  <2> DEFINE new == [cred[p] EXCEPT !.token = cred[p].refresh, !.exp = task[p].exp]
             again == [task[p] EXCEPT !.at = "sent", !.exp = None, !.again = TRUE]
             next == IF task[p].kind = "renew" THEN Resting
                     ELSE IF task[p].kind = "warm" THEN Sent("me") ELSE again
  <2>1. new \in Credentials /\ next \in Tasks
    <3>1. new \in Credentials
      BY <1>0 DEF Credentials, Tasks
    <3>2. again \in Tasks
      BY <1>0 DEF Tasks
    <3> QED
      BY <3>1, <3>2, Resters, GivenTasks
  <2>2. Store(p, new, next, screen[p]) /\ screen[p] \in {"sign-in", "app", "lost"}
    BY <1>8 DEF Renewed
  <2>3. /\ cred' \in [Phones -> Credentials] /\ task' \in [Phones -> Tasks]
        /\ screen' \in [Phones -> {"sign-in", "app", "lost"}]
        /\ \E r \in {next, Killed} : task' = [task EXCEPT ![p] = r]
    BY <2>1, <2>2, StoreTypes
  <2>4. next.at \notin {"extend", "renewed"} /\ Killed.at \notin {"extend", "renewed"}
    BY <1>0, GivenTasks DEF Resting, Tasks
  <2>5. Dated'
    BY <2>3, <2>4 DEF Dated
  <2> QED
    BY <1>8, <2>3, <2>5 DEF Renewed
<1>9. CASE Rejected(p)
  <2>1. CASE task[p].kind \in {"renew", "warm"}
    BY <1>9, <2>1, FailsTypes DEF Rejected
  <2>2. CASE task[p].kind \notin {"renew", "warm"}
    <3> DEFINE next == IF task[p].kind = "me" THEN Shut
                       ELSE IF task[p].kind = "keys" THEN AtGate(task[p].user, "unavailable")
                       ELSE Resting
    <3>1. Store(p, NoCred, next, screen[p]) /\ screen[p] \in {"sign-in", "app", "lost"}
      BY <1>9, <2>2 DEF Rejected
    <3>2. next \in Tasks /\ next.at \in {"shut", "gate", "idle"}
      BY <1>0, GivenTasks, Resters DEF Tasks, Seen, Resting
    <3>3. /\ cred' \in [Phones -> Credentials] /\ task' \in [Phones -> Tasks]
          /\ screen' \in [Phones -> {"sign-in", "app", "lost"}]
          /\ \E r \in {next, Killed} : task' = [task EXCEPT ![p] = r]
      BY <3>1, <3>2, StoreTypes, Resters
    <3>4. Dated'
      BY <3>2, <3>3, GivenTasks DEF Dated
    <3> QED
      BY <1>9, <3>3, <3>4 DEF Rejected
  <2> QED
    BY <2>1, <2>2
<1>10. CASE CallFails(p)
  BY <1>10, FailsTypes DEF CallFails
<1> QED
  BY <1>1, <1>2, <1>3, <1>4, <1>5, <1>6, <1>7, <1>8, <1>9, <1>10

\* Launches and the gate keep the types.
LEMMA TypedGate ==
    ASSUME Typed, NEW p \in Phones,
           \/ Kill(p) \/ Launch(p) \/ Gate(p) \/ GateThrows(p) \/ Discard(p)
           \/ MakeKeys(p) \/ PublishKeys(p) \/ AskErase(p) \/ Erase(p)
    PROVE  Typed'
<1> USE DEF Typed, SessionTypeOK, codeVars, phoneVars
<1>0. task[p] \in Tasks /\ cred[p] \in Credentials /\ vault[p] \in Vaults
  OBVIOUS
<1>1. CASE Kill(p)
  <2>1. task' \in [Phones -> Tasks] /\ Dated'
    BY <1>1, GivenTasks, TaskTypes DEF Kill
  <2> QED
    BY <1>1, <2>1 DEF Kill
<1>2. CASE Launch(p)
  <2>1. [Resting EXCEPT !.at = "refresh", !.kind = "warm"] \in Tasks
    BY Resters DEF Tasks
  <2>2. [Resting EXCEPT !.at = "refresh", !.kind = "warm"].at = "refresh" /\ Resting.at = "idle"
    BY DEF Resting
  <2>3. PICK r \in {[Resting EXCEPT !.at = "refresh", !.kind = "warm"], Sent("me"), Resting} :
          task' = [task EXCEPT ![p] = r]
    BY <1>2 DEF Launch
  <2>4. task' \in [Phones -> Tasks] /\ Dated'
    <3>0. Sent("me") \in Tasks /\ Sent("me").at = "sent"
      BY GivenTasks
    <3>1. r \in Tasks /\ r.at \notin {"extend", "renewed"}
      BY <2>1, <2>2, <2>3, <3>0, Resters
    <3> QED
      BY <2>3, <3>1, TaskTypes
  <2> QED
    BY <1>2, <2>4 DEF Launch
<1>3. CASE Gate(p)
  <2>1. task' \in [Phones -> Tasks] /\ Dated'
    <3>1. PICK r \in {Shut, Resting} : task' = [task EXCEPT ![p] = r]
      BY <1>3 DEF Gate
    <3>2. r \in Tasks /\ r.at \in {"shut", "idle"}
      BY <3>1, GivenTasks
    <3> QED
      BY <3>1, <3>2, TaskTypes
  <2>2. vault' \in [Phones -> Vaults]
    <3>1. [vault[p] EXCEPT !.owner = task[p].user] \in Vaults
      BY <1>0 DEF Vaults, Tasks
    <3>2. vault' = [vault EXCEPT ![p] = [vault[p] EXCEPT !.owner = task[p].user]] \/ vault' = vault
      BY <1>3 DEF Gate
    <3> QED
      BY <3>1, <3>2
  <2>3. screen' \in [Phones -> {"sign-in", "app", "lost"}]
    BY <1>3 DEF Gate
  <2> QED
    BY <1>3, <2>1, <2>2, <2>3 DEF Gate
<1>4. CASE GateThrows(p)
  <2>1. [Resting EXCEPT !.at = "unread"] \in Tasks /\ [Resting EXCEPT !.at = "unread"].at = "unread"
    BY Resters DEF Resting, Tasks
  <2>2. task' \in [Phones -> Tasks] /\ Dated'
    BY <1>4, <2>1, Resters DEF GateThrows, Dated, Resting
  <2> QED
    BY <1>4, <2>2 DEF GateThrows
<1>5. CASE Discard(p)
  <2>1. Store(p, NoCred, Resting, "sign-in")
    BY <1>5 DEF Discard
  <2>2. /\ cred' \in [Phones -> Credentials] /\ task' \in [Phones -> Tasks]
        /\ screen' \in [Phones -> {"sign-in", "app", "lost"}]
        /\ \E r \in {Resting, Killed} : task' = [task EXCEPT ![p] = r]
    BY <2>1, StoreTypes, Resters
  <2>3. Dated'
    BY <2>2, GivenTasks DEF Dated, Resting
  <2> QED
    BY <1>5, <2>2, <2>3 DEF Discard
<1>6. CASE MakeKeys(p)
  <2>1. vault' \in [Phones -> Vaults]
    BY <1>0, <1>6 DEF MakeKeys, Vaults
  <2> QED
    BY <1>6, <2>1 DEF MakeKeys, Dated
<1>7. CASE PublishKeys(p)
  <2>1. Row(cred[p].token).acct \in Account
    BY <1>7 DEF PublishKeys, Found
  <2>2. vault' \in [Phones -> Vaults]
    BY <1>0, <1>7, <2>1 DEF PublishKeys, Vaults
  <2>3. users' \in [live : SUBSET Account, deleting : SUBSET Account, identified : SUBSET Account]
    BY <1>7, <2>1 DEF PublishKeys
  <2> QED
    BY <1>7, <2>2, <2>3 DEF PublishKeys, Dated
<1>8. CASE AskErase(p)
  <2>1. [task[p] EXCEPT !.at = "erase"] \in Tasks /\ [task[p] EXCEPT !.at = "erase"].at = "erase"
    BY <1>0 DEF Tasks
  <2>2. task' \in [Phones -> Tasks] /\ Dated'
    BY <1>8, <2>1, TaskTypes DEF AskErase
  <2> QED
    BY <1>8, <2>2 DEF AskErase
<1>9. CASE Erase(p)
  <2>1. task' \in [Phones -> Tasks] /\ Dated'
    BY <1>9, GivenTasks, TaskTypes DEF Erase
  <2>2. vault' \in [Phones -> Vaults]
    BY <1>9 DEF Erase, NoVault, Vaults
  <2> QED
    BY <1>9, <2>1, <2>2, Resters DEF Erase
<1> QED
  BY <1>1, <1>2, <1>3, <1>4, <1>5, <1>6, <1>7, <1>8, <1>9

\* So do signing in, the end of a deletion and the clock.
LEMMA TypedRest ==
    ASSUME Typed,
           (\E p \in Phones, v \in Verifiers : SignIn(p, v)) \/ FinishAccount \/ NextDay
    PROVE  Typed'
<1> USE DEF Typed, SessionTypeOK, codeVars, phoneVars
<1>1. ASSUME NEW p \in Phones, NEW v \in Verifiers, SignIn(p, v) PROVE Typed'
  <2> DEFINE t == verify[v].token
             a == verify[v].acct
             new == [token |-> t, refresh |-> t, exp |-> Row(t).exp, user |-> a]
             next == [Sent("keys") EXCEPT !.user = a]
  <2>1. t \in {0} \cup Token /\ a \in {0} \cup Account
    BY DEF SignIns
  <2>2. new \in Credentials
    BY <2>1, RowType DEF Credentials, Rows
  <2>3. Store(p, new, next, "sign-in")
    BY <1>1 DEF SignIn
  <2>6. next \in Tasks /\ next.at = "sent"
    BY <2>1, GivenTasks
  <2>4. /\ cred' \in [Phones -> Credentials] /\ task' \in [Phones -> Tasks]
        /\ screen' \in [Phones -> {"sign-in", "app", "lost"}]
        /\ \E r \in {next, Killed} : task' = [task EXCEPT ![p] = r]
    BY <2>2, <2>3, <2>6, StoreTypes
  <2> HIDE DEF next
  <2>5. Dated'
    BY <2>4, <2>6, GivenTasks DEF Dated
  <2> QED
    BY <1>1, <2>4, <2>5, Resters DEF SignIn
<1>2. CASE FinishAccount
  BY <1>2, Resters DEF FinishAccount, Dated
<1>3. CASE NextDay
  BY <1>3, Numbers DEF NextDay, Dated
<1> QED
  BY <1>1, <1>2, <1>3

\* Every step keeps the types.
LEMMA TypedStep == ASSUME Typed, [SessionNext]_sessionVars PROVE Typed'
<1>1. CASE UNCHANGED sessionVars
  BY <1>1 DEF sessionVars, codeVars, phoneVars, Typed, SessionTypeOK, Dated
<1> QED
  BY <1>1, TypedCodes, TypedVerify, TypedPhone, TypedGate, TypedRest DEF SessionNext

\* The credentials, sessions and codes keep their types, and no count of
\* wrong guesses reaches the limit without the code being gone.
THEOREM SessionsKeepTypes == SessionSpec => []SessionTypeOK
<1>1. SessionSpec => []Typed
  BY TypedInit, TypedStep, PTL DEF SessionSpec
<1>2. Typed => SessionTypeOK
  BY DEF Typed
<1> QED
  BY <1>1, <1>2, PTL

-----------------------------------------------------------------------------
(***************************************************************************)
(* Codes: fresh until they are used, and the guesses they allow.           *)
(***************************************************************************)

\* The stored code is one of those handed out and was never accepted; codes
\* to come were not either.
CodesFresh ==
    /\ otp.code <= tally.codes
    /\ otp.code # 0 => tally.uses[otp.code] = 0
    /\ \A c \in Code : tally.uses[c] <= 1 /\ (c > tally.codes => tally.uses[c] = 0)

GuessesLeft == IF otp.code = 0 THEN 0 ELSE MaxAttempts - otp.misses
RequestsLeft == IF rate \in 1 .. MaxRequests THEN MaxRequests - rate ELSE 0

\* What was guessed and may still be was paid for by codes, what was asked for
\* and may still be by windows.
Budget ==
    /\ tally.misses + GuessesLeft <= MaxAttempts * tally.codes
    /\ tally.codes + asking + RequestsLeft <= MaxRequests * tally.windows

-----------------------------------------------------------------------------
(***************************************************************************)
(* Accounts and the holders of tokens.                                     *)
(***************************************************************************)

\* The address has one account at most, and nothing refers to one that is
\* still to be created.
AccountsCounted ==
    /\ \A a, b \in Known : a = b
    /\ \A a \in Known : a <= tally.accounts
    /\ \A t \in Token : sessions[t].acct <= tally.accounts
    /\ \A v \in Verifiers : verify[v].acct <= tally.accounts

\* A token was earned with an accepted code, and one sign-in or one phone
\* refreshes with it.
TokensOwned ==
    /\ \A v \in Verifiers : verify[v] # Quiet =>
         /\ verify[v].token # 0 /\ tally.uses[verify[v].token] # 0
         /\ \A w \in Verifiers \ {v} : verify[w].token # verify[v].token
         /\ \A p \in Phones : cred[p].refresh # verify[v].token
    /\ \A p \in Phones : cred[p].refresh # 0 =>
         /\ tally.uses[cred[p].refresh] # 0
         /\ \A q \in Phones \ {p} : cred[q].refresh # cred[p].refresh

-----------------------------------------------------------------------------
(***************************************************************************)
(* Expiries.                                                               *)
(***************************************************************************)

\* No session outlives one that starts now, and what a sign-in is about to
\* answer with starts now.  A phone's belief is below its row, and so is the
\* row below what a refresh is about to write and not below what one wrote.
Expiries ==
    /\ \A t \in Token : sessions[t].exp <= day + SessionTTL
    /\ \A v \in Verifiers : verify[v].at = "answer" /\ Row(verify[v].token).acct # 0
                               => Row(verify[v].token).exp = day + SessionTTL
    /\ \A p \in Phones :
         /\ cred[p].exp <= day + SessionTTL /\ task[p].exp <= day + SessionTTL
         /\ Row(cred[p].refresh).acct # 0 =>
              /\ cred[p].exp <= Row(cred[p].refresh).exp
              /\ task[p].at = "extend" => Row(cred[p].refresh).exp <= task[p].exp
              /\ task[p].at = "renewed" => task[p].exp <= Row(cred[p].refresh).exp

\* A refresh was rejected for a session that stays dead.
RejectedDead ==
    \A p \in Phones : task[p].at = "rejected" =>
        ~Found(cred[p].refresh) \/ Expired(cred[p].refresh)

\* The accounts of sessions exist.
RowsKnown == \A t \in Token : sessions[t].acct \in {0} \cup Known

\* What the gate goes by: it was asked for the account whose keys the phone has,
\* and shut out no session that is alive and theirs.
Knows(p) ==
    /\ task[p].at = "shut" => \/ ~Attributed(p)
                              \/ ~Found(cred[p].refresh) \/ Expired(cred[p].refresh)
    /\ Attributed(p) /\ (task[p].kind = "keys" \/ task[p].at = "gate")
         => task[p].user = vault[p].owner
    /\ task[p].at = "admitted" => Row(cred[p].refresh).acct \in {0, task[p].acct}

GateKnows == \A p \in Phones : Knows(p)

\* The inductive invariant.
SInv == Typed /\ CodesFresh /\ Budget /\ AccountsCounted /\ TokensOwned
              /\ Expiries /\ RejectedDead /\ RowsKnown /\ GateKnows

-----------------------------------------------------------------------------
(***************************************************************************)
(* Codes and guesses, step by step.                                        *)
(***************************************************************************)

\* The steps that touch codes, the window or the history.
LEMMA CodeSteps ==
    ASSUME [SessionNext]_sessionVars
    PROVE  \/ Ask \/ StoreCode \/ StoreFails \/ CodeExpires \/ WindowExpires
           \/ \E v \in Verifiers : CheckCode(v) \/ CreateUser(v)
           \/ UNCHANGED <<otp, rate, asking, tally>>
<1> USE DEF codeVars
<1>1. ASSUME NEW p \in Phones,
             \/ Call(p) \/ Resume(p) \/ Authenticate(p) \/ Handle(p) \/ Refused(p)
             \/ ReadSession(p) \/ ExtendSession(p) \/ Renewed(p) \/ Rejected(p)
             \/ CallFails(p) \/ \E v \in Verifiers : SignIn(p, v)
      PROVE  UNCHANGED <<otp, rate, asking, tally>>
  BY <1>1 DEF Call, Resume, Authenticate, Handle, Refused, ReadSession, ExtendSession, Renewed,
     Rejected, CallFails, SignIn
<1>2. ASSUME NEW p \in Phones,
             \/ Kill(p) \/ Launch(p) \/ Gate(p) \/ GateThrows(p) \/ Discard(p)
             \/ MakeKeys(p) \/ PublishKeys(p) \/ AskErase(p) \/ Erase(p)
      PROVE  UNCHANGED <<otp, rate, asking, tally>>
  BY <1>2 DEF Kill, Launch, Gate, GateThrows, Discard, MakeKeys, PublishKeys, AskErase, Erase
<1>3. ASSUME \/ FinishAccount \/ NextDay \/ \E c \in Code : SendCode(c)
             \/ \E v \in Verifiers : LookUp(v) \/ InsertSession(v) \/ VerifyFails(v)
             \/ UNCHANGED sessionVars
      PROVE  UNCHANGED <<otp, rate, asking, tally>>
  BY <1>3 DEF sessionVars, SendCode, LookUp, InsertSession, VerifyFails, FinishAccount, NextDay
<1> QED
  BY <1>1, <1>2, <1>3 DEF SessionNext

\* A match uses the stored code, a miss touches no code.
LEMMA CheckOutcome ==
    ASSUME NEW v \in Verifiers, CheckCode(v)
    PROVE  \/ /\ otp.code \in Code /\ otp' = Spent
              /\ verify' = [verify EXCEPT ![v] = [at |-> "checked", acct |-> 0, token |-> otp.code]]
              /\ tally' = [tally EXCEPT !.uses[otp.code] = @ + 1]
           \/ /\ otp.code # 0
              /\ otp' = IF Burns THEN [code |-> 0, misses |-> 0]
                        ELSE [otp EXCEPT !.misses = @ + 1]
              /\ tally' = [tally EXCEPT !.misses = @ + 1]
              /\ UNCHANGED verify
BY DEF CheckCode

\* What the type says of the counters.
LEMMA CounterTypes ==
    ASSUME Typed
    PROVE  /\ otp.code \in {0} \cup Code /\ otp.misses \in 0 .. MaxAttempts - 1
           /\ otp = [code |-> otp.code, misses |-> otp.misses]
           /\ tally.codes \in {0} \cup Code /\ tally.misses \in Nat /\ tally.windows \in Nat
           /\ tally.accounts \in {0} \cup Account /\ tally.uses \in [Code -> Nat]
           /\ rate \in Nat /\ asking \in Nat 
           /\ Code \subseteq Nat \ {0} /\ Account \subseteq Nat \ {0}
BY Numbers DEF Typed, SessionTypeOK, Codes, Tallies, Code, Account

\* The next code is a code while the bound allows one.
LEMMA NextCode == ASSUME Typed, tally.codes < MaxCodes PROVE tally.codes + 1 \in Code
<1>1. tally.codes \in {0} \cup Code
  BY CounterTypes
<1> QED
  BY <1>1, Numbers DEF Code

\* What a step of the history changes.
LEMMA TallySteps ==
    ASSUME Typed
    PROVE  /\ \A n \in Nat : [tally EXCEPT !.misses = n] =
                [windows |-> tally.windows, codes |-> tally.codes, misses |-> n,
                 accounts |-> tally.accounts, uses |-> tally.uses]
           /\ \A f : [tally EXCEPT !.uses = f] =
                [windows |-> tally.windows, codes |-> tally.codes, misses |-> tally.misses,
                 accounts |-> tally.accounts, uses |-> f]
           /\ \A n \in Nat : [tally EXCEPT !.codes = n] =
                [windows |-> tally.windows, codes |-> n, misses |-> tally.misses,
                 accounts |-> tally.accounts, uses |-> tally.uses]
           /\ \A n \in Nat : [tally EXCEPT !.accounts = n] =
                [windows |-> tally.windows, codes |-> tally.codes, misses |-> tally.misses,
                 accounts |-> n, uses |-> tally.uses]
           /\ \A n \in Nat : [tally EXCEPT !.windows = n] =
                [windows |-> n, codes |-> tally.codes, misses |-> tally.misses,
                 accounts |-> tally.accounts, uses |-> tally.uses]
BY DEF Typed, SessionTypeOK, Tallies

\* Creating an account counts it, and touches no code.
LEMMA UserTally ==
    ASSUME Typed, NEW v \in Verifiers, CreateUser(v)
    PROVE  UNCHANGED <<otp, rate, asking, tally.codes, tally.uses, tally.misses, tally.windows>>
<1>1. tally' = tally \/ tally' = [tally EXCEPT !.accounts = tally.accounts + 1]
  BY DEF CreateUser
<1>2. tally.accounts + 1 \in Nat
  BY CounterTypes
<1>3. UNCHANGED <<otp, rate, asking>>
  BY DEF CreateUser, codeVars
<1> QED
  BY <1>1, <1>2, <1>3, TallySteps

\* Every step keeps the codes fresh.
LEMMA FreshStep == ASSUME Typed, CodesFresh, [SessionNext]_sessionVars PROVE CodesFresh'
<1> USE CounterTypes DEF CodesFresh
<1>1. CASE Ask
  <2>1. UNCHANGED <<otp, tally.codes, tally.uses>>
    BY <1>1, TallySteps DEF Ask
  <2> QED
    BY <2>1
<1>2. CASE StoreCode
  <2> DEFINE c == tally.codes + 1
  <2>1. c \in Code
    BY <1>2, NextCode DEF StoreCode
  <2>2. otp' = [code |-> c, misses |-> 0] /\ tally'.codes = c /\ tally'.uses = tally.uses
    BY <1>2, TallySteps DEF StoreCode
  <2>3. tally.uses[c] = 0
    BY <2>1
  <2> QED
    BY <2>1, <2>2, <2>3
<1>3. CASE StoreFails \/ WindowExpires \/ UNCHANGED <<otp, rate, asking, tally>>
  BY <1>3 DEF StoreFails, WindowExpires
<1>4. CASE CodeExpires
  BY <1>4 DEF CodeExpires
<1>5. ASSUME NEW v \in Verifiers, CheckCode(v) PROVE CodesFresh'
  <2>1. CASE otp.code \in Code /\ otp' = Spent /\ tally' = [tally EXCEPT !.uses[otp.code] = @ + 1]
    <3>1. tally'.codes = tally.codes /\ tally'.uses = [tally.uses EXCEPT ![otp.code] = @ + 1]
      BY <2>1, TallySteps
    <3>2. otp'.code = 0
      BY <2>1 DEF Spent
    <3>3. /\ tally'.uses[otp.code] = 1
          /\ \A c \in Code \ {otp.code} : tally'.uses[c] = tally.uses[c]
      BY <2>1, <3>1
    <3>4. \A c \in Code : tally'.uses[c] <= 1 /\ (c > tally'.codes => tally'.uses[c] = 0)
      BY <2>1, <3>1, <3>3
    <3> QED
      BY <3>1, <3>2, <3>4
  <2>2. CASE /\ otp' = IF Burns THEN [code |-> 0, misses |-> 0]
                       ELSE [otp EXCEPT !.misses = @ + 1]
             /\ tally' = [tally EXCEPT !.misses = @ + 1]
    <3>1. tally'.codes = tally.codes /\ tally'.uses = tally.uses
      BY <2>2, TallySteps
    <3>2. otp'.code \in {0, otp.code}
      BY <2>2
    <3> QED
      BY <3>1, <3>2
  <2> QED
    BY <1>5, <2>1, <2>2, CheckOutcome
<1>6. ASSUME NEW v \in Verifiers, CreateUser(v) PROVE CodesFresh'
  <2>1. UNCHANGED <<otp, tally.codes, tally.uses>>
    BY <1>6, UserTally
  <2> QED
    BY <2>1
<1> QED
  BY <1>1, <1>2, <1>3, <1>4, <1>5, <1>6, CodeSteps

\* However sign-ins race, a code is accepted once.
THEOREM SessionsAcceptCodesOnce == SessionSpec => []CodeAcceptedOnce
<1>1. SessionInit => CodesFresh
  BY Numbers DEF SessionInit, CodesFresh, Code
<1>2. SessionSpec => [](Typed /\ CodesFresh)
  BY <1>1, TypedInit, TypedStep, FreshStep, PTL DEF SessionSpec
<1>3. CodesFresh => CodeAcceptedOnce
  BY DEF CodesFresh, CodeAcceptedOnce
<1> QED
  BY <1>2, <1>3, PTL

\* What one more unit costs.
LEMMA OneMore ==
    ASSUME NEW m \in Nat, NEW n \in Nat
    PROVE  m * n \in Nat /\ m * (n + 1) = m * n + m
OBVIOUS

\* More of them cost more.
LEMMA Dearer ==
    ASSUME NEW m \in Nat, NEW n \in Nat, NEW k \in Nat, n <= k
    PROVE  m * n <= m * k
<1>1. k - n \in Nat /\ k = n + (k - n)
  OBVIOUS
<1>2. m * k = m * n + m * (k - n)
  BY <1>1
<1>3. m * (k - n) \in Nat
  BY <1>1
<1> QED
  BY <1>2, <1>3

\* Every step keeps to what was paid for.
LEMMA BudgetStep == ASSUME Typed, Budget, [SessionNext]_sessionVars PROVE Budget'
<1> USE CounterTypes, Numbers DEF Budget
<1>0. MaxAttempts * tally.codes \in Nat /\ MaxRequests * tally.windows \in Nat
  BY OneMore
<1>1. CASE Ask
  <2>1. GuessesLeft' = GuessesLeft /\ tally'.codes = tally.codes /\ tally'.misses = tally.misses
    BY <1>1, TallySteps DEF Ask, GuessesLeft
  <2>2. CASE rate = 0
    <3>1. tally'.windows = tally.windows + 1
      BY <1>1, <2>2, TallySteps DEF Ask
    <3>2. asking' = asking + 1 /\ RequestsLeft' = MaxRequests - 1 /\ RequestsLeft = 0
      BY <1>1, <2>2 DEF Ask, Allowed, RequestsLeft
    <3>3. MaxRequests * tally'.windows = MaxRequests * tally.windows + MaxRequests
      BY <3>1, OneMore
    <3> QED
      BY <1>0, <2>1, <3>2, <3>3
  <2>3. CASE rate # 0
    <3>1. tally'.windows = tally.windows
      BY <1>1, <2>3, TallySteps DEF Ask
    <3>2. asking' + RequestsLeft' = asking + RequestsLeft
      BY <1>1, <2>3 DEF Ask, Allowed, RequestsLeft
    <3>3. asking' \in Nat /\ RequestsLeft' \in Nat /\ RequestsLeft \in Nat
      BY <1>1, <2>3 DEF Ask, Allowed, RequestsLeft
    <3> QED
      BY <1>0, <2>1, <3>1, <3>2, <3>3
  <2> QED
    BY <2>2, <2>3
<1>2. CASE StoreCode
  <2>1. /\ tally'.codes = tally.codes + 1 /\ tally'.misses = tally.misses
        /\ tally'.windows = tally.windows
    BY <1>2, TallySteps DEF StoreCode
  <2>2. GuessesLeft' = MaxAttempts
    BY <1>2, <2>1 DEF StoreCode, GuessesLeft
  <2>3. asking' = asking - 1 /\ RequestsLeft' = RequestsLeft
    BY <1>2 DEF StoreCode, RequestsLeft
  <2>4. MaxAttempts * tally'.codes = MaxAttempts * tally.codes + MaxAttempts
    BY <2>1, OneMore
  <2>5. GuessesLeft \in Nat
    BY DEF GuessesLeft
  <2>6. RequestsLeft \in Nat
    BY DEF RequestsLeft
  <2> QED
    BY <1>0, <2>1, <2>2, <2>3, <2>4, <2>5, <2>6
<1>3. CASE StoreFails \/ CodeExpires \/ WindowExpires
  <2>1. tally' = tally /\ GuessesLeft' \in Nat /\ GuessesLeft' <= GuessesLeft
    BY <1>3 DEF StoreFails, CodeExpires, WindowExpires, GuessesLeft
  <2>2. asking' \in Nat /\ asking' <= asking /\ RequestsLeft' \in Nat /\ RequestsLeft' <= RequestsLeft
    BY <1>3 DEF StoreFails, CodeExpires, WindowExpires, RequestsLeft
  <2>3. GuessesLeft \in Nat /\ RequestsLeft \in Nat
    BY DEF GuessesLeft, RequestsLeft
  <2> QED
    BY <1>0, <2>1, <2>2, <2>3
<1>4. ASSUME NEW v \in Verifiers, CheckCode(v) PROVE Budget'
  <2>1. UNCHANGED <<rate, asking>> /\ RequestsLeft' = RequestsLeft
    BY <1>4 DEF CheckCode, RequestsLeft
  <2>2. CASE otp.code \in Code /\ otp' = Spent /\ tally' = [tally EXCEPT !.uses[otp.code] = @ + 1]
    <3>1. /\ tally'.codes = tally.codes /\ tally'.misses = tally.misses
          /\ tally'.windows = tally.windows
      BY <2>2, TallySteps
    <3>2. GuessesLeft' = 0 /\ GuessesLeft \in Nat
      BY <2>2 DEF Spent, GuessesLeft
    <3> QED
      BY <1>0, <2>1, <3>1, <3>2
  <2>3. CASE /\ otp.code # 0
             /\ otp' = IF Burns THEN [code |-> 0, misses |-> 0]
                       ELSE [otp EXCEPT !.misses = @ + 1]
             /\ tally' = [tally EXCEPT !.misses = @ + 1]
    <3>1. /\ tally'.codes = tally.codes /\ tally'.misses = tally.misses + 1
          /\ tally'.windows = tally.windows
      BY <2>3, TallySteps
    <3>2. GuessesLeft' + 1 = GuessesLeft \/ (GuessesLeft' = 0 /\ GuessesLeft \in Nat /\ GuessesLeft >= 1)
      BY <2>3 DEF Burns, GuessesLeft
    <3>3. GuessesLeft' \in Nat /\ GuessesLeft \in Nat
      BY <2>3 DEF Burns, GuessesLeft
    <3> QED
      BY <1>0, <2>1, <3>1, <3>2, <3>3
  <2> QED
    BY <1>4, <2>2, <2>3, CheckOutcome
<1>5. ASSUME NEW v \in Verifiers, CreateUser(v) PROVE Budget'
  <2>1. UNCHANGED <<otp, rate, asking, tally.codes, tally.misses, tally.windows>>
    BY <1>5, UserTally
  <2> QED
    BY <2>1 DEF GuessesLeft, RequestsLeft
<1>6. CASE UNCHANGED <<otp, rate, asking, tally>>
  BY <1>6 DEF GuessesLeft, RequestsLeft
<1> QED
  BY <1>1, <1>2, <1>3, <1>4, <1>5, <1>6, CodeSteps

\* Guessing is bounded by the windows of requests that were opened.
THEOREM SessionsBoundGuesses == SessionSpec => []GuessBudget
<1>1. SessionInit => Budget
  <2>1. MaxAttempts * 0 = 0 /\ MaxRequests * 0 = 0
    BY Numbers
  <2> QED
    BY <2>1 DEF SessionInit, Budget, GuessesLeft, RequestsLeft
<1>2. SessionSpec => [](Typed /\ Budget)
  BY <1>1, TypedInit, TypedStep, BudgetStep, PTL DEF SessionSpec
<1>3. Typed /\ Budget => GuessBudget
  <2> SUFFICES ASSUME Typed, Budget PROVE GuessBudget
    OBVIOUS
  <2> USE CounterTypes, Numbers
  <2>1. GuessesLeft \in Nat /\ RequestsLeft \in Nat
    BY DEF GuessesLeft, RequestsLeft
  <2>2. MaxAttempts * tally.codes \in Nat /\ MaxRequests * tally.windows \in Nat
    BY OneMore
  <2>3. tally.codes <= MaxRequests * tally.windows /\ tally.misses <= MaxAttempts * tally.codes
    BY <2>1, <2>2 DEF Budget
  <2>4. MaxAttempts * tally.codes <= MaxAttempts * (MaxRequests * tally.windows)
    BY <2>2, <2>3, Dearer
  <2>5. MaxAttempts * (MaxRequests * tally.windows) = MaxAttempts * MaxRequests * tally.windows
    OBVIOUS
  <2>6. MaxAttempts * (MaxRequests * tally.windows) \in Nat
    BY <2>2, OneMore
  <2> QED
    BY <2>2, <2>3, <2>4, <2>5, <2>6 DEF GuessBudget
<1> QED
  BY <1>2, <1>3, PTL

-----------------------------------------------------------------------------
(***************************************************************************)
(* Accounts, step by step.                                                 *)
(***************************************************************************)

\* No step but CreateUser counts accounts.
LEMMA AccountsStay ==
    ASSUME Typed, [SessionNext]_sessionVars, ~\E v \in Verifiers : CreateUser(v)
    PROVE  tally'.accounts = tally.accounts
<1> USE CounterTypes, TallySteps
<1>1. CASE Ask
  BY <1>1 DEF Ask
<1>2. CASE StoreCode
  BY <1>2 DEF StoreCode
<1>3. CASE StoreFails \/ CodeExpires \/ WindowExpires
  BY <1>3 DEF StoreFails, CodeExpires, WindowExpires
<1>4. ASSUME NEW v \in Verifiers, CheckCode(v) PROVE tally'.accounts = tally.accounts
  <2>1. \/ \E f : tally' = [tally EXCEPT !.uses = f]
        \/ \E n \in Nat : tally' = [tally EXCEPT !.misses = n]
    BY <1>4, CheckOutcome
  <2> QED
    BY <2>1
<1> QED
  BY <1>1, <1>2, <1>3, <1>4, CodeSteps

\* The steps that touch accounts, sessions or sign-ins.
LEMMA AccountSteps ==
    ASSUME Typed, [SessionNext]_sessionVars
    PROVE  \/ \E v \in Verifiers : \/ CheckCode(v) \/ LookUp(v) \/ CreateUser(v)
                                   \/ InsertSession(v) \/ VerifyFails(v)
           \/ \E p \in Phones, v \in Verifiers : SignIn(p, v)
           \/ \E p \in Phones : Handle(p) \/ ExtendSession(p)
           \/ FinishAccount
           \/ UNCHANGED <<verify, users.live, users.deleting, sessions>>
<1>1. ASSUME NEW p \in Phones, PublishKeys(p)
      PROVE  UNCHANGED <<verify, users.live, users.deleting, sessions>>
  BY <1>1 DEF PublishKeys, Typed, SessionTypeOK
<1>2. \/ \E v \in Verifiers : \/ CheckCode(v) \/ LookUp(v) \/ CreateUser(v)
                              \/ InsertSession(v) \/ VerifyFails(v)
      \/ \E p \in Phones, v \in Verifiers : SignIn(p, v)
      \/ \E p \in Phones : Handle(p) \/ ExtendSession(p) \/ PublishKeys(p)
      \/ FinishAccount
      \/ UNCHANGED <<verify, users, sessions>>
  BY DEF SessionNext, sessionVars, codeVars, phoneVars, Ask, StoreCode, StoreFails, SendCode,
         CodeExpires, WindowExpires, Call, Resume, Authenticate, Refused, ReadSession,
         Renewed, Rejected, CallFails, Kill, Launch, Gate, GateThrows, Discard, MakeKeys,
         AskErase, Erase, NextDay
<1> QED
  BY <1>1, <1>2

\* What the type says of a sign-in, of rows and of a phone.
LEMMA RecordTypes ==
    ASSUME Typed
    PROVE  /\ \A v \in Verifiers : /\ verify[v] \in SignIns
                                   /\ verify[v].acct \in {0} \cup Account
                                   /\ verify[v].token \in {0} \cup Token
           /\ \A t \in Token : sessions[t] \in Rows /\ sessions[t].acct \in {0} \cup Account
                               /\ sessions[t].exp \in Day
           /\ \A p \in Phones : /\ cred[p] \in Credentials /\ task[p] \in Tasks
                                /\ cred[p].token \in {0} \cup Token
                                /\ cred[p].refresh \in {0} \cup Token
                                /\ cred[p].exp \in {None} \cup Day
                                /\ task[p].exp \in {None} \cup Day
                                /\ task[p].acct \in {0} \cup Account
                                /\ task[p].user \in {0} \cup Account
                                /\ cred[p].user \in {0} \cup Account
           /\ users = [live |-> users.live, deleting |-> users.deleting,
                       identified |-> users.identified]
           /\ users.live \subseteq Account /\ users.deleting \subseteq Account
           /\ Day \subseteq Nat /\ None \in Int /\ 0 \notin Token
           /\ day \in Nat /\ day \in 0 .. MaxDay /\ SessionTTL \in Nat
BY Numbers DEF Typed, SessionTypeOK, SignIns, Rows, Credentials, Tasks, Day, None, Token, Code

\* A row of a deletion's end or of its start: as it was, or no row.
LEMMA RowsGo ==
    ASSUME Typed, FinishAccount \/ \E p \in Phones : Handle(p)
    PROVE  /\ \A t \in Token : sessions'[t] = sessions[t] \/ sessions'[t] = NoRow
           /\ DOMAIN sessions' = Token
<1>1. DOMAIN sessions = Token
  BY DEF Typed, SessionTypeOK
<1>2. CASE FinishAccount
  BY <1>2 DEF FinishAccount
<1>3. ASSUME NEW p \in Phones, Handle(p)
      PROVE  /\ \A t \in Token : sessions'[t] = sessions[t] \/ sessions'[t] = NoRow
             /\ DOMAIN sessions' = Token
  BY <1>1, <1>3 DEF Handle
<1> QED
  BY <1>2, <1>3

\* An extended row keeps its account, and other rows stay.
LEMMA RowExtended ==
    ASSUME Typed, NEW p \in Phones, ExtendSession(p), sessions' # sessions
    PROVE  /\ Found(cred[p].refresh) /\ cred[p].refresh \in Token /\ task'[p].at = "renewed"
           /\ task' = [task EXCEPT ![p].at = "renewed"]
           /\ sessions'[cred[p].refresh] = [acct |-> sessions[cred[p].refresh].acct,
                                            exp  |-> task[p].exp]
           /\ \A t \in Token \ {cred[p].refresh} : sessions'[t] = sessions[t]
<1>1. /\ Found(cred[p].refresh)
      /\ sessions' = [sessions EXCEPT ![cred[p].refresh].exp = task[p].exp]
      /\ task' = [task EXCEPT ![p].at = "renewed"]
  BY DEF ExtendSession, Extended, Goes
<1>2. cred[p].refresh \in Token
  BY <1>1, RecordTypes, CounterTypes DEF Found, Row, NoRow
<1>3. task'[p].at = "renewed"
  BY <1>1, RecordTypes DEF Typed, SessionTypeOK, Tasks
<1>4. sessions[cred[p].refresh] \in Rows /\ DOMAIN sessions = Token
  BY <1>2, RecordTypes DEF Typed, SessionTypeOK
<1> QED
  BY <1>1, <1>2, <1>3, <1>4 DEF Rows

\* A sign-in's account was live when it was looked up; CreateUser is apart.
LEMMA SignInAccounts ==
    ASSUME Typed, [SessionNext]_sessionVars, ~\E v \in Verifiers : CreateUser(v)
    PROVE  \A w \in Verifiers : verify'[w].acct \in {0, verify[w].acct} \cup users.live
<1> USE DEF Quiet
<1>0. \A w \in Verifiers : verify[w] \in SignIns
  BY RecordTypes
<1>00. verify \in [Verifiers -> SignIns]
  BY DEF Typed, SessionTypeOK
<1> DEFINE Kept == \A w \in Verifiers : verify'[w].acct \in {0, verify[w].acct} \cup users.live
<1>1. ASSUME UNCHANGED verify PROVE Kept
  BY <1>1
<1>2. ASSUME NEW v \in Verifiers, CheckCode(v) PROVE Kept
  BY <1>2, <1>00, CheckOutcome
<1>3. ASSUME NEW v \in Verifiers, LookUp(v) PROVE Kept
  BY <1>3, <1>00 DEF LookUp, SignIns
<1>4. ASSUME NEW v \in Verifiers, InsertSession(v) PROVE Kept
  BY <1>4, <1>00 DEF InsertSession, SignIns
<1>5. ASSUME NEW v \in Verifiers, VerifyFails(v) PROVE Kept
  BY <1>5, <1>00 DEF VerifyFails
<1>6. ASSUME NEW p \in Phones, NEW v \in Verifiers, SignIn(p, v) PROVE Kept
  BY <1>6, <1>00 DEF SignIn
<1>7. ASSUME FinishAccount \/ \E p \in Phones : Handle(p) \/ ExtendSession(p) PROVE Kept
  BY <1>1, <1>7 DEF FinishAccount, Handle, ExtendSession
<1> QED
  BY <1>1, <1>2, <1>3, <1>4, <1>5, <1>6, <1>7, AccountSteps

\* A row's account comes from a sign-in whose account exists.
LEMMA RowAccounts ==
    ASSUME Typed, [SessionNext]_sessionVars
    PROVE  \A t \in Token : sessions'[t].acct \in {0, sessions[t].acct} \cup Known
<1> DEFINE Kept == \A t \in Token : sessions'[t].acct \in {0, sessions[t].acct} \cup Known
<1>1. ASSUME UNCHANGED sessions PROVE Kept
  BY <1>1
<1>2. ASSUME NEW v \in Verifiers, InsertSession(v) PROVE Kept
  <2>1. sessions \in [Token -> Rows]
    BY DEF Typed, SessionTypeOK
  <2>2. CASE UNCHANGED sessions
    BY <2>2
  <2>3. CASE /\ verify[v].acct \in Known
             /\ sessions' = [sessions EXCEPT ![verify[v].token] =
                               [acct |-> verify[v].acct, exp |-> day + SessionTTL]]
    BY <2>1, <2>3
  <2> QED
    BY <1>2, <2>2, <2>3 DEF InsertSession
<1>3. ASSUME FinishAccount \/ \E p \in Phones : Handle(p) PROVE Kept
  <2>1. \A t \in Token : sessions'[t] = sessions[t] \/ sessions'[t] = NoRow
    BY <1>3, RowsGo
  <2>2. NoRow.acct = 0
    BY DEF NoRow
  <2> QED
    BY <2>1, <2>2
<1>4. ASSUME NEW p \in Phones, ExtendSession(p) PROVE Kept
  <2>1. CASE UNCHANGED sessions
    BY <1>1, <2>1
  <2>2. CASE sessions' # sessions
    <3>1. /\ sessions'[cred[p].refresh].acct = sessions[cred[p].refresh].acct
          /\ \A t \in Token \ {cred[p].refresh} : sessions'[t] = sessions[t]
      <4>1. /\ sessions'[cred[p].refresh] = [acct |-> sessions[cred[p].refresh].acct,
                                             exp  |-> task[p].exp]
            /\ \A t \in Token \ {cred[p].refresh} : sessions'[t] = sessions[t]
        BY <1>4, <2>2, RowExtended
      <4> QED
        BY <4>1
    <3> QED
      BY <3>1
  <2> QED
    BY <2>1, <2>2
<1>5. ASSUME \E v \in Verifiers : CheckCode(v) \/ LookUp(v) \/ CreateUser(v) \/ VerifyFails(v)
      PROVE  Kept
  BY <1>1, <1>5 DEF CheckCode, LookUp, CreateUser, VerifyFails
<1>6. ASSUME NEW p \in Phones, NEW v \in Verifiers, SignIn(p, v) PROVE Kept
  BY <1>1, <1>6 DEF SignIn
<1> QED
  BY <1>1, <1>2, <1>3, <1>4, <1>5, <1>6, AccountSteps

\* A handler deletes no account, and makes none.
LEMMA HandleUsers ==
    ASSUME Typed, NEW p \in Phones, Handle(p)
    PROVE  /\ users'.live \subseteq users.live
           /\ users'.live \cup users'.deleting = users.live \cup users.deleting
<1> DEFINE a == task[p].acct
<1>1. \/ UNCHANGED users
      \/ a \in users.live /\ users' = [users EXCEPT !.live = @ \ {a}, !.deleting = @ \cup {a}]
  BY DEF Handle
<1>2. CASE /\ a \in users.live
           /\ users' = [users EXCEPT !.live = @ \ {a}, !.deleting = @ \cup {a}]
  <2>1. users'.live = users.live \ {a} /\ users'.deleting = users.deleting \cup {a}
    BY <1>2 DEF Typed, SessionTypeOK
  <2> QED
    BY <1>2, <2>1
<1> QED
  BY <1>1, <1>2

\* Every step keeps the accounts counted.
LEMMA AccountsStep ==
    ASSUME Typed, AccountsCounted, [SessionNext]_sessionVars
    PROVE  AccountsCounted'
<1> USE CounterTypes, RecordTypes DEF AccountsCounted, Known
<1>1. ASSUME NEW v \in Verifiers, CreateUser(v) PROVE AccountsCounted'
  <2>0. verify \in [Verifiers -> SignIns]
    BY DEF Typed, SessionTypeOK
  <2>1. CASE ~EmailFree
    <3>1. users' = users /\ sessions' = sessions /\ tally' = tally
      BY <1>1, <2>1 DEF CreateUser
    <3>2. \A w \in Verifiers : verify'[w].acct \in {0, verify[w].acct}
      BY <1>1, <2>0, <2>1 DEF CreateUser, Quiet
    <3> QED
      BY <3>1, <3>2
  <2>2. CASE EmailFree
    <3> DEFINE a == tally.accounts + 1
    <3>0. /\ users' = [users EXCEPT !.live = @ \cup {a}]
          /\ verify' = [verify EXCEPT ![v].at = "known", ![v].acct = a]
          /\ tally' = [tally EXCEPT !.accounts = a]
          /\ sessions' = sessions
      BY <1>1, <2>2 DEF CreateUser
    <3>1. tally'.accounts = a /\ a \in Nat
      BY <3>0, TallySteps
    <3>2. users'.live = users.live \cup {a} /\ users'.deleting = users.deleting
      BY <3>0
    <3>3. Known = {}
      BY <2>2 DEF EmailFree
    <3>4. \A w \in Verifiers : verify'[w].acct \in {a, verify[w].acct}
      BY <2>0, <3>0 DEF SignIns
    <3>5. \A b \in users'.live \cup users'.deleting : b = a
      BY <3>2, <3>3
    <3> HIDE DEF a
    <3>6. \A n \in Nat : n <= tally.accounts => n <= a
      BY DEF a
    <3>7. \A t \in Token : sessions'[t].acct <= a
      BY <3>0, <3>6
    <3>8. \A w \in Verifiers : verify'[w].acct <= a
      BY <3>1, <3>4, <3>6
    <3>9. \A b \in users'.live \cup users'.deleting : b <= a
      BY <3>1, <3>5
    <3> QED
      BY <3>1, <3>5, <3>7, <3>8, <3>9
  <2> QED
    BY <2>1, <2>2
<1>2. CASE ~\E v \in Verifiers : CreateUser(v)
  <2>0. tally'.accounts = tally.accounts
    BY <1>2, AccountsStay
  <2>1. users'.live \cup users'.deleting \subseteq Known
    <3>1. CASE UNCHANGED <<users.live, users.deleting>>
      BY <3>1
    <3>2. CASE FinishAccount
      BY <3>2 DEF FinishAccount
    <3>3. ASSUME NEW p \in Phones, Handle(p)
          PROVE  users'.live \cup users'.deleting \subseteq Known
      BY <3>3, HandleUsers
    <3>4. UNCHANGED <<users.live, users.deleting>> \/ FinishAccount \/ \E p \in Phones : Handle(p)
      BY <1>2, AccountSteps
      DEF CheckCode, LookUp, InsertSession, VerifyFails, SignIn, ExtendSession
    <3> QED
      BY <3>1, <3>2, <3>3, <3>4
  <2>2. \A w \in Verifiers : verify'[w].acct <= tally.accounts
    BY <1>2, SignInAccounts
  <2>3. \A t \in Token : sessions'[t].acct <= tally.accounts
    BY RowAccounts
  <2> QED
    BY <2>0, <2>1, <2>2, <2>3
<1> QED
  BY <1>1, <1>2

\* The address has one account at most, the one being deleted included.
THEOREM SessionsKeepOneAccount == SessionSpec => []OneAccount
<1>1. SessionInit => AccountsCounted
  BY Numbers DEF SessionInit, AccountsCounted, Known, NoRow, Quiet
<1>2. SessionSpec => [](Typed /\ AccountsCounted)
  BY <1>1, TypedInit, TypedStep, AccountsStep, PTL DEF SessionSpec
<1>3. AccountsCounted => OneAccount
  <2>1. SUFFICES ASSUME \A a, b \in Known : a = b PROVE Cardinality(Known) <= 1
    BY DEF AccountsCounted, OneAccount
  <2>2. CASE Known = {}
    BY <2>2, FS_EmptySet
  <2>3. ASSUME NEW a \in Known PROVE Cardinality(Known) <= 1
    <3>1. Known = {a}
      BY <2>1
    <3> QED
      BY <3>1, FS_Singleton
  <2> QED
    BY <2>2, <2>3
<1> QED
  BY <1>2, <1>3, PTL

-----------------------------------------------------------------------------
(***************************************************************************)
(* A phone, step by step.                                                  *)
(***************************************************************************)

\* The steps of one phone.
PhoneStep(p) ==
    \/ Call(p) \/ Resume(p) \/ Authenticate(p) \/ Handle(p) \/ Refused(p)
    \/ ReadSession(p) \/ ExtendSession(p) \/ Renewed(p) \/ Rejected(p)
    \/ CallFails(p) \/ Kill(p) \/ Launch(p) \/ Gate(p) \/ GateThrows(p)
    \/ Discard(p) \/ MakeKeys(p) \/ PublishKeys(p) \/ AskErase(p) \/ Erase(p)
    \/ \E v \in Verifiers : SignIn(p, v)

\* A phone changes by its own steps.
LEMMA Actors ==
    ASSUME Typed, [SessionNext]_sessionVars, NEW p \in Phones
    PROVE  UNCHANGED <<cred[p], vault[p], task[p]>> \/ PhoneStep(p)
<1>0. /\ cred \in [Phones -> Credentials] /\ vault \in [Phones -> Vaults]
      /\ task \in [Phones -> Tasks]
  BY DEF Typed, SessionTypeOK
<1>1. ASSUME NEW q \in Phones, PhoneStep(q), q # p
      PROVE  UNCHANGED <<cred[p], vault[p], task[p]>>
  <2>1. cred' = cred \/ \E c : cred' = [cred EXCEPT ![q] = c]
    BY <1>1 DEF PhoneStep, Call, Resume, Authenticate, Handle, Refused, ReadSession, ExtendSession,
       Renewed, Rejected, CallFails, Kill, Launch, Gate, GateThrows, Discard, MakeKeys,
       PublishKeys, AskErase, Erase, SignIn, Store
  <2>2. vault' = vault \/ \E k : vault' = [vault EXCEPT ![q] = k]
    BY <1>1 DEF PhoneStep, Call, Resume, Authenticate, Handle, Refused, ReadSession, ExtendSession,
       Renewed, Rejected, CallFails, Kill, Launch, Gate, GateThrows, Discard, MakeKeys,
       PublishKeys, AskErase, Erase, SignIn
  <2>3. task' = task \/ \E r : task' = [task EXCEPT ![q] = r]
    BY <1>1 DEF PhoneStep, Call, Resume, Authenticate, Handle, Refused, ReadSession, ExtendSession,
       Renewed, Rejected, CallFails, Kill, Launch, Gate, GateThrows, Discard, MakeKeys,
       PublishKeys, AskErase, Erase, SignIn, Store, Goes, Fails, Ends
  <2> QED
    BY <1>0, <1>1, <2>1, <2>2, <2>3
<1>2. UNCHANGED <<cred, vault, task>> \/ \E q \in Phones : PhoneStep(q)
  BY DEF SessionNext, sessionVars, codeVars, phoneVars, Ask, StoreCode, StoreFails, SendCode,
         CodeExpires, WindowExpires, CheckCode, LookUp, CreateUser, InsertSession,
         VerifyFails, FinishAccount, NextDay, PhoneStep
<1> QED
  BY <1>1, <1>2

\* A task after a call.
Over(r) == r.at \in {"idle", "sent", "shut", "gate", "off"} /\ r.exp = None

\* The tasks a phone is given are such tasks.
LEMMA GivenOver ==
    /\ Over(Resting) /\ Over(Killed) /\ Over(Shut)
    /\ \A k \in {"call", "delete", "me", "keys"} : Over(Sent(k))
    /\ \A u : Over([Sent("keys") EXCEPT !.user = u])
    /\ \A u, s : Over(AtGate(u, s))
BY DEF Over, Resting, Killed, Shut, Sent, AtGate

\* What follows a call that is over.
LEMMA EndsLeaves ==
    ASSUME Typed, NEW p \in Phones, NEW u, NEW s, Ends(p, u, s)
    PROVE  /\ \/ task'[p] = Sent("me") \/ task'[p] = Resting
              \/ task[p].kind = "me" /\ u # 0 /\ task'[p] = [Sent("keys") EXCEPT !.user = u]
              \/ task[p].kind = "me" /\ u = 0 /\ task'[p] = Shut
              \/ task[p].kind = "keys" /\ task'[p] = AtGate(task[p].user, s)
           /\ Over(task'[p])
<1>0. task \in [Phones -> Tasks]
  BY DEF Typed, SessionTypeOK
<1>1. \/ task'[p] = Sent("me") \/ task'[p] = Resting
      \/ task[p].kind = "me" /\ u # 0 /\ task'[p] = [Sent("keys") EXCEPT !.user = u]
      \/ task[p].kind = "me" /\ u = 0 /\ task'[p] = Shut
      \/ task[p].kind = "keys" /\ task'[p] = AtGate(task[p].user, s)
  BY <1>0 DEF Ends
<1> QED
  BY <1>1, GivenOver

\* What RefreshSession finds, and what it then does.
LEMMA ReadOutcome ==
    ASSUME Typed, NEW p \in Phones, ReadSession(p)
    PROVE  \/ Fails(p) /\ Over(task'[p])
           \/ /\ task'[p] = [task[p] EXCEPT !.at = "extend", !.exp = day + SessionTTL]
              /\ task'[p].at = "extend" /\ task'[p].exp = day + SessionTTL
           \/ /\ Found(cred[p].refresh) => Expired(cred[p].refresh)
              /\ task'[p] = [task[p] EXCEPT !.at = "rejected"]
              /\ task'[p].at = "rejected" /\ task'[p].exp = task[p].exp
<1>0. task \in [Phones -> Tasks]
  BY DEF Typed, SessionTypeOK
<1>1. CASE Fails(p)
  BY <1>1, EndsLeaves DEF Fails
<1>2. CASE task' = [task EXCEPT ![p].at = "extend", ![p].exp = day + SessionTTL]
  BY <1>0, <1>2 DEF Tasks
<1>3. CASE /\ Found(cred[p].refresh) => Expired(cred[p].refresh)
           /\ task' = [task EXCEPT ![p].at = "rejected"]
  BY <1>0, <1>3 DEF Tasks
<1> QED
  BY <1>1, <1>2, <1>3 DEF ReadSession, Goes

\* ExtendSession writes the expiry that was read with the session, or leaves
\* every row.
LEMMA ExtendOutcome ==
    ASSUME Typed, NEW p \in Phones, ExtendSession(p)
    PROVE  \/ /\ cred[p].refresh \in Token
              /\ sessions'[cred[p].refresh].acct = sessions[cred[p].refresh].acct
              /\ sessions'[cred[p].refresh].exp = task[p].exp
              /\ \A t \in Token \ {cred[p].refresh} : sessions'[t] = sessions[t]
              /\ task'[p] = [task[p] EXCEPT !.at = "renewed"]
              /\ task'[p].at = "renewed" /\ task'[p].exp = task[p].exp
           \/ sessions' = sessions /\ Fails(p) /\ Over(task'[p])
           \/ /\ sessions' = sessions /\ ~Found(cred[p].refresh)
              /\ task'[p] = [task[p] EXCEPT !.at = "rejected"]
              /\ task'[p].at = "rejected" /\ task'[p].exp = task[p].exp
<1>0. task \in [Phones -> Tasks] /\ sessions \in [Token -> Rows]
  BY DEF Typed, SessionTypeOK
<1>1. CASE /\ Found(cred[p].refresh)
           /\ sessions' = [sessions EXCEPT ![cred[p].refresh].exp = task[p].exp]
           /\ task' = [task EXCEPT ![p].at = "renewed"]
  <2>1. cred[p].refresh \in Token
    BY <1>1, RecordTypes, CounterTypes DEF Found, Row, NoRow
  <2>2. /\ task'[p] = [task[p] EXCEPT !.at = "renewed"]
        /\ task'[p].at = "renewed" /\ task'[p].exp = task[p].exp
    BY <1>0, <1>1 DEF Tasks
  <2>3. /\ sessions'[cred[p].refresh].acct = sessions[cred[p].refresh].acct
        /\ sessions'[cred[p].refresh].exp = task[p].exp
        /\ \A t \in Token \ {cred[p].refresh} : sessions'[t] = sessions[t]
    BY <1>0, <1>1, <2>1 DEF Rows
  <2> QED
    BY <2>1, <2>2, <2>3
<1>2. CASE sessions' = sessions /\ Fails(p)
  BY <1>2, EndsLeaves DEF Fails
<1>3. CASE /\ sessions' = sessions /\ ~Found(cred[p].refresh)
           /\ task' = [task EXCEPT ![p].at = "rejected"]
  BY <1>0, <1>3 DEF Tasks
<1> QED
  BY <1>1, <1>2, <1>3 DEF ExtendSession, Extended, Goes

\* What a store leaves behind.
LEMMA StoreLeaves ==
    ASSUME Typed, NEW p \in Phones, NEW new, NEW next, NEW shown, Store(p, new, next, shown)
    PROVE  /\ \A q \in Phones \ {p} : cred'[q] = cred[q] /\ task'[q] = task[q]
           /\ \/ cred'[p].refresh = cred[p].refresh /\ cred'[p].exp = cred[p].exp
              \/ cred'[p].refresh = new.refresh /\ cred'[p].exp \in {new.exp, cred[p].exp}
           /\ \/ task'[p] = Killed
              \/ task'[p] = next /\ cred'[p].refresh = new.refresh /\ cred'[p].user = new.user
<1>0. DOMAIN cred = Phones /\ DOMAIN task = Phones
  BY DEF Typed, SessionTypeOK
<1>1. PICK n \in 1 .. 4 : /\ cred' = [cred EXCEPT ![p] = Written(cred[p], new, n)]
                          /\ task' = [task EXCEPT ![p] = IF n = 4 THEN next ELSE Killed]
  BY DEF Store
<1>2. cred'[p] = Written(cred[p], new, n) /\ task'[p] = IF n = 4 THEN next ELSE Killed
  BY <1>0, <1>1
<1>3. /\ Written(cred[p], new, n).refresh = IF n >= 2 THEN new.refresh ELSE cred[p].refresh
      /\ Written(cred[p], new, n).exp = IF n >= 3 THEN new.exp ELSE cred[p].exp
      /\ Written(cred[p], new, n).user = IF n >= 4 THEN new.user ELSE cred[p].user
  BY DEF Written
<1> QED
  BY <1>0, <1>1, <1>2, <1>3

\* Signing in, a phone may come by the token of the sign-in.
LEMMA SignInRefresh ==
    ASSUME Typed, NEW p \in Phones, NEW v \in Verifiers, SignIn(p, v)
    PROVE  /\ \A q \in Phones \ {p} : cred'[q] = cred[q] /\ task'[q] = task[q]
           /\ \/ cred'[p].refresh = cred[p].refresh /\ cred'[p].exp = cred[p].exp
              \/ /\ cred'[p].refresh = verify[v].token
                 /\ cred'[p].exp \in {Row(verify[v].token).exp, cred[p].exp}
           /\ \/ task'[p] = Killed
              \/ /\ task'[p] = [Sent("keys") EXCEPT !.user = verify[v].acct]
                 /\ cred'[p].user = verify[v].acct
<1> DEFINE t == verify[v].token
           a == verify[v].acct
           new == [token |-> t, refresh |-> t, exp |-> Row(t).exp, user |-> a]
           next == [Sent("keys") EXCEPT !.user = a]
<1>1. Store(p, new, next, "sign-in")
  BY DEF SignIn
<1>2. new.refresh = t /\ new.exp = Row(t).exp /\ new.user = a
  OBVIOUS
<1> HIDE DEF new
<1> QED
  BY <1>1, <1>2, StoreLeaves

\* What a renewal leaves in the phone.
LEMMA RenewedLeaves ==
    ASSUME Typed, NEW p \in Phones, Renewed(p)
    PROVE  /\ cred'[p].refresh = cred[p].refresh /\ cred'[p].user = cred[p].user
           /\ cred'[p].exp \in {task[p].exp, cred[p].exp}
           /\ \/ task'[p] \in {Killed, Resting, Sent("me")}
              \/ task'[p] = [task[p] EXCEPT !.at = "sent", !.exp = None, !.again = TRUE]
<1>0. cred \in [Phones -> Credentials] /\ task \in [Phones -> Tasks]
  BY DEF Typed, SessionTypeOK
<1> DEFINE new == [cred[p] EXCEPT !.token = cred[p].refresh, !.exp = task[p].exp]
           next == IF task[p].kind = "renew" THEN Resting
                   ELSE IF task[p].kind = "warm" THEN Sent("me")
                   ELSE [task[p] EXCEPT !.at = "sent", !.exp = None, !.again = TRUE]
<1>1. Store(p, new, next, screen[p])
  BY DEF Renewed
<1>2. new.refresh = cred[p].refresh /\ new.exp = task[p].exp /\ new.user = cred[p].user
  BY <1>0 DEF Credentials
<1>3. next \in {Resting, Sent("me")}
        \/ next = [task[p] EXCEPT !.at = "sent", !.exp = None, !.again = TRUE]
  OBVIOUS
<1>4. PICK n \in 1 .. 4 : /\ cred' = [cred EXCEPT ![p] = Written(cred[p], new, n)]
                          /\ task' = [task EXCEPT ![p] = IF n = 4 THEN next ELSE Killed]
  BY <1>1 DEF Store
<1> HIDE DEF new, next
<1>5. cred'[p] = Written(cred[p], new, n) /\ task'[p] \in {next, Killed}
  BY <1>0, <1>4
<1> QED
  BY <1>2, <1>3, <1>5 DEF Written

\* And a rejected refresh.
LEMMA RejectedLeaves ==
    ASSUME Typed, NEW p \in Phones, Rejected(p)
    PROVE  \/ task[p].kind \in {"renew", "warm"} /\ cred' = cred /\ Fails(p)
           \/ /\ \/ cred'[p].refresh = cred[p].refresh /\ cred'[p].exp = cred[p].exp
                 \/ cred'[p].refresh = 0 /\ cred'[p].exp \in {None, cred[p].exp}
              /\ \/ task'[p] = Killed
                 \/ /\ cred'[p].refresh = 0
                    /\ task'[p] \in {Shut, Resting, AtGate(task[p].user, "unavailable")}
<1> DEFINE next == IF task[p].kind = "me" THEN Shut
                   ELSE IF task[p].kind = "keys" THEN AtGate(task[p].user, "unavailable")
                   ELSE Resting
<1>1. next \in {Shut, Resting, AtGate(task[p].user, "unavailable")}
  OBVIOUS
<1>2. CASE Store(p, NoCred, next, screen[p])
  <2>1. NoCred.refresh = 0 /\ NoCred.exp = None
    BY DEF NoCred
  <2> HIDE DEF next
  <2> QED
    BY <1>1, <1>2, <2>1, StoreLeaves
<1> QED
  BY <1>2 DEF Rejected

\* And the discard of credentials, or of everything.
LEMMA DiscardLeaves ==
    ASSUME Typed, NEW p \in Phones, Discard(p) \/ Erase(p)
    PROVE  /\ \/ cred'[p].refresh = cred[p].refresh /\ cred'[p].exp = cred[p].exp
              \/ cred'[p].refresh = 0 /\ cred'[p].exp \in {None, cred[p].exp}
           /\ task'[p] \in {Killed, Resting}
<1>0. cred \in [Phones -> Credentials] /\ task \in [Phones -> Tasks]
  BY DEF Typed, SessionTypeOK
<1>1. NoCred.refresh = 0 /\ NoCred.exp = None
  BY DEF NoCred
<1>2. CASE Discard(p)
  <2>1. Store(p, NoCred, Resting, "sign-in")
    BY <1>2 DEF Discard
  <2> QED
    BY <1>1, <2>1, StoreLeaves
<1>3. CASE Erase(p)
  BY <1>0, <1>1, <1>3 DEF Erase
<1> QED
  BY <1>2, <1>3

\* A task that moves has no renewal to write or to store, other than by the
\* two steps of one; and only Authenticate admits a request.
LEMMA TaskMoves ==
    ASSUME Typed, [SessionNext]_sessionVars, NEW p \in Phones
    PROVE  \/ task'[p] = task[p]
           \/ /\ task'[p].at \notin {"extend", "renewed", "rejected"}
              /\ task'[p].exp \in {None, task[p].exp}
              /\ task'[p].at = "admitted" => Authenticate(p)
           \/ ReadSession(p) \/ ExtendSession(p)
<1>0. task \in [Phones -> Tasks]
  BY DEF Typed, SessionTypeOK
<1> DEFINE Idle == /\ task'[p].at \notin {"extend", "renewed", "rejected"}
                   /\ task'[p].exp \in {None, task[p].exp}
                   /\ task'[p].at = "admitted" => Authenticate(p)
<1>1. ASSUME Over(task'[p]) PROVE Idle
  BY <1>1 DEF Over
<1>2. CASE Call(p)
  <2>1. \E k \in {"call", "delete"} : task'[p] = Sent(k)
    BY <1>0, <1>2 DEF Call
  <2> QED
    BY <1>1, <2>1, GivenOver
<1>3. CASE Resume(p) \/ Launch(p)
  <2>1. \/ task'[p] \in {[Resting EXCEPT !.at = "refresh", !.kind = "renew"],
                         [Resting EXCEPT !.at = "refresh", !.kind = "warm"]}
        \/ task'[p] \in {Sent("me"), Resting}
    BY <1>0, <1>3 DEF Resume, Launch
  <2>2. CASE task'[p] \in {Sent("me"), Resting}
    BY <1>1, <2>2, GivenOver
  <2>3. CASE task'[p] \in {[Resting EXCEPT !.at = "refresh", !.kind = "renew"],
                           [Resting EXCEPT !.at = "refresh", !.kind = "warm"]}
    BY <2>3 DEF Resting
  <2> QED
    BY <2>1, <2>2, <2>3
<1>4. CASE Authenticate(p)
  BY <1>0, <1>4 DEF Authenticate, Tasks
<1>5. CASE Handle(p) \/ CallFails(p)
  BY <1>1, <1>5, EndsLeaves DEF Handle, CallFails, Fails
<1>6. CASE Refused(p)
  <2>1. CASE Fails(p)
    BY <1>1, <2>1, EndsLeaves DEF Fails
  <2>2. CASE task' = [task EXCEPT ![p].at = "refresh"]
    BY <1>0, <2>2 DEF Tasks
  <2> QED
    BY <1>6, <2>1, <2>2 DEF Refused
<1>7. CASE Renewed(p)
  <2>1. CASE task'[p] \in {Killed, Resting, Sent("me")}
    BY <1>1, <2>1, GivenOver
  <2>2. CASE task'[p] = [task[p] EXCEPT !.at = "sent", !.exp = None, !.again = TRUE]
    BY <1>0, <2>2 DEF Tasks
  <2> QED
    BY <1>7, <2>1, <2>2, RenewedLeaves
<1>8. CASE Rejected(p)
  <2>1. CASE Fails(p)
    BY <1>1, <2>1, EndsLeaves DEF Fails
  <2>2. CASE task'[p] \in {Killed, Shut, Resting, AtGate(task[p].user, "unavailable")}
    BY <1>1, <2>2, GivenOver
  <2> QED
    BY <1>8, <2>1, <2>2, RejectedLeaves
<1>9. CASE Kill(p) \/ Gate(p) \/ Discard(p) \/ Erase(p) \/ \E v \in Verifiers : SignIn(p, v)
  <2>1. CASE Kill(p) \/ Gate(p)
    <3>1. task'[p] \in {Killed, Shut, Resting}
      BY <1>0, <2>1 DEF Kill, Gate
    <3> QED
      BY <1>1, <3>1, GivenOver
  <2>2. CASE Discard(p) \/ Erase(p)
    BY <1>1, <2>2, GivenOver, DiscardLeaves
  <2>3. ASSUME NEW v \in Verifiers, SignIn(p, v) PROVE Idle
    <3>1. task'[p] \in {Killed, [Sent("keys") EXCEPT !.user = verify[v].acct]}
      BY <2>3, SignInRefresh
    <3> QED
      BY <1>1, <3>1, GivenOver
  <2> QED
    BY <1>9, <2>1, <2>2, <2>3
<1>10. CASE GateThrows(p)
  <2>1. task'[p] \in {[Resting EXCEPT !.at = "unread"], Resting}
    BY <1>0, <1>10 DEF GateThrows
  <2> QED
    BY <2>1 DEF Resting
<1>11. CASE AskErase(p)
  BY <1>0, <1>11 DEF AskErase, Tasks
<1>12. CASE MakeKeys(p) \/ PublishKeys(p)
  BY <1>12 DEF MakeKeys, PublishKeys
<1> QED
  BY <1>2, <1>3, <1>4, <1>5, <1>6, <1>7, <1>8, <1>9, <1>10, <1>11, <1>12, Actors DEF PhoneStep

\* What a phone holds changes by signing in, by storing a renewal, or by
\* discarding it.
LEMMA CredMoves ==
    ASSUME Typed, [SessionNext]_sessionVars, NEW p \in Phones
    PROVE  \/ cred'[p].refresh = cred[p].refresh /\ cred'[p].exp = cred[p].exp
           \/ \E v \in Verifiers :
                /\ SignIn(p, v) /\ cred'[p].refresh = verify[v].token
                /\ cred'[p].exp \in {cred[p].exp, Row(verify[v].token).exp}
           \/ /\ Renewed(p) /\ cred'[p].refresh = cred[p].refresh
              /\ cred'[p].exp = task[p].exp
           \/ /\ Rejected(p) \/ Discard(p) \/ Erase(p)
              /\ cred'[p].refresh = 0 /\ cred'[p].exp \in {cred[p].exp, None}
<1>1. CASE cred'[p] = cred[p]
  BY <1>1
<1>2. ASSUME NEW v \in Verifiers, SignIn(p, v)
      PROVE  \/ cred'[p].refresh = cred[p].refresh /\ cred'[p].exp = cred[p].exp
             \/ /\ SignIn(p, v) /\ cred'[p].refresh = verify[v].token
                /\ cred'[p].exp \in {cred[p].exp, Row(verify[v].token).exp}
  BY <1>2, SignInRefresh
<1>3. CASE Handle(p)
  <2>1. cred'[p] = cred[p] \/ cred'[p] = [cred[p] EXCEPT !.user = task[p].acct]
    BY <1>3 DEF Handle, Typed, SessionTypeOK
  <2>2. cred[p] \in Credentials
    BY RecordTypes
  <2> QED
    BY <2>1, <2>2 DEF Credentials
<1>4. CASE Renewed(p) \/ Rejected(p) \/ Discard(p) \/ Erase(p)
  BY <1>4, RenewedLeaves, RejectedLeaves, DiscardLeaves
<1>5. \/ cred'[p] = cred[p] \/ Handle(p)
      \/ Renewed(p) \/ Rejected(p) \/ Discard(p) \/ Erase(p) \/ \E v \in Verifiers : SignIn(p, v)
  <2>1. CASE PhoneStep(p)
    BY <2>1 DEF PhoneStep, Call, Resume, Authenticate, Refused, ReadSession, ExtendSession,
       CallFails, Kill, Launch, Gate, GateThrows, MakeKeys, PublishKeys, AskErase
  <2> QED
    BY <2>1, Actors
<1> QED
  BY <1>1, <1>2, <1>3, <1>4, <1>5

-----------------------------------------------------------------------------
(***************************************************************************)
(* Tokens, step by step.                                                   *)
(***************************************************************************)

\* Once begun, a sign-in keeps its token to the end.
LEMMA SignInTokens ==
    ASSUME Typed, [SessionNext]_sessionVars, ~\E v \in Verifiers : CheckCode(v)
    PROVE  \A w \in Verifiers : \/ verify'[w] = Quiet
                                \/ verify[w] # Quiet /\ verify'[w].token = verify[w].token
<1> DEFINE Kept == \A w \in Verifiers : \/ verify'[w] = Quiet
                                        \/ verify[w] # Quiet /\ verify'[w].token = verify[w].token
<1>0. verify \in [Verifiers -> SignIns]
  BY DEF Typed, SessionTypeOK
<1>1. ASSUME UNCHANGED verify PROVE Kept
  BY <1>1
<1>2. ASSUME NEW v \in Verifiers, verify' = [verify EXCEPT ![v] = Quiet] PROVE Kept
  BY <1>0, <1>2
<1>3. ASSUME NEW v \in Verifiers, LookUp(v) PROVE Kept
  <2>1. verify[v] # Quiet
    BY <1>3 DEF LookUp, Quiet
  <2>2. \/ verify' = [verify EXCEPT ![v] = Quiet]
        \/ \E a : verify' = [verify EXCEPT ![v].at = "known", ![v].acct = a]
        \/ verify' = [verify EXCEPT ![v].at = "new"]
    BY <1>3 DEF LookUp
  <2> QED
    BY <1>0, <2>1, <2>2 DEF SignIns
<1>4. ASSUME NEW v \in Verifiers, CreateUser(v) PROVE Kept
  <2>1. verify[v] # Quiet
    BY <1>4 DEF CreateUser, Quiet
  <2>2. \/ verify' = [verify EXCEPT ![v] = Quiet]
        \/ \E a : verify' = [verify EXCEPT ![v].at = "known", ![v].acct = a]
    BY <1>4 DEF CreateUser
  <2> QED
    BY <1>0, <2>1, <2>2 DEF SignIns
<1>5. ASSUME NEW v \in Verifiers, InsertSession(v) PROVE Kept
  <2>1. verify[v] # Quiet
    BY <1>5 DEF InsertSession, Quiet
  <2>2. \/ verify' = [verify EXCEPT ![v] = Quiet]
        \/ verify' = [verify EXCEPT ![v].at = "answer"]
    BY <1>5 DEF InsertSession
  <2> QED
    BY <1>0, <2>1, <2>2 DEF SignIns
<1>6. ASSUME NEW v \in Verifiers, VerifyFails(v) \/ \E p \in Phones : SignIn(p, v) PROVE Kept
  BY <1>2, <1>6 DEF VerifyFails, SignIn
<1>7. ASSUME FinishAccount \/ \E p \in Phones : Handle(p) \/ ExtendSession(p) PROVE Kept
  BY <1>1, <1>7 DEF FinishAccount, Handle, ExtendSession
<1> QED
  BY <1>1, <1>3, <1>4, <1>5, <1>6, <1>7, AccountSteps

\* Other than by signing in, a phone comes by no other refresh token.
LEMMA RefreshTokens ==
    ASSUME Typed, [SessionNext]_sessionVars,
           ~\E p \in Phones, v \in Verifiers : SignIn(p, v)
    PROVE  \A p \in Phones : cred'[p].refresh \in {0, cred[p].refresh}
BY CredMoves

\* A code that was used stays used.
LEMMA UsesStay ==
    ASSUME Typed, [SessionNext]_sessionVars
    PROVE  \A c \in Code : tally.uses[c] # 0 => tally'.uses[c] # 0
<1> USE CounterTypes, TallySteps
<1>1. CASE Ask
  BY <1>1 DEF Ask
<1>2. CASE StoreCode
  BY <1>2 DEF StoreCode
<1>3. CASE StoreFails \/ CodeExpires \/ WindowExpires
  BY <1>3 DEF StoreFails, CodeExpires, WindowExpires
<1>4. ASSUME NEW v \in Verifiers, CheckCode(v)
      PROVE  \A c \in Code : tally.uses[c] # 0 => tally'.uses[c] # 0
  <2>1. \/ /\ otp.code \in Code
           /\ tally' = [tally EXCEPT !.uses = [tally.uses EXCEPT ![otp.code] = @ + 1]]
        \/ \E n \in Nat : tally' = [tally EXCEPT !.misses = n]
    BY <1>4, CheckOutcome
  <2>2. CASE \E n \in Nat : tally' = [tally EXCEPT !.misses = n]
    BY <2>2
  <2>3. CASE /\ otp.code \in Code
             /\ tally' = [tally EXCEPT !.uses = [tally.uses EXCEPT ![otp.code] = @ + 1]]
    <3>1. tally'.uses = [tally.uses EXCEPT ![otp.code] = @ + 1]
      BY <2>3
    <3> QED
      BY <2>3, <3>1
  <2> QED
    BY <2>1, <2>2, <2>3
<1>5. ASSUME NEW v \in Verifiers, CreateUser(v)
      PROVE  \A c \in Code : tally.uses[c] # 0 => tally'.uses[c] # 0
  BY <1>5, UserTally
<1> QED
  BY <1>1, <1>2, <1>3, <1>4, <1>5, CodeSteps

\* Every step keeps tokens with one holder.
LEMMA OwnedStep ==
    ASSUME Typed, CodesFresh, TokensOwned, [SessionNext]_sessionVars
    PROVE  TokensOwned'
<1> USE DEF TokensOwned, Token
<1>0. \A p \in Phones : cred[p].refresh \in {0} \cup Code
  BY RecordTypes
<1>00. \A v \in Verifiers : verify[v].token \in {0} \cup Code
  BY RecordTypes
<1>000. 0 \notin Code /\ Quiet.token = 0
  BY CounterTypes DEF Quiet
<1>1. ASSUME NEW v \in Verifiers, CheckCode(v) PROVE TokensOwned'
  <2>1. cred' = cred
    BY <1>1 DEF CheckCode, phoneVars
  <2>2. CASE verify' = verify
    BY <1>0, <1>00, <2>1, <2>2, UsesStay
  <2>3. CASE /\ otp.code \in Code
             /\ verify' = [verify EXCEPT ![v] = [at |-> "checked", acct |-> 0, token |-> otp.code]]
             /\ tally' = [tally EXCEPT !.uses[otp.code] = @ + 1]
    <3>1. tally.uses[otp.code] = 0
      BY <1>000, <2>3 DEF CodesFresh
    <3>2. tally'.uses[otp.code] # 0
      BY <2>3, <3>1, CounterTypes, TallySteps
    <3>3. /\ verify'[v].token = otp.code
          /\ \A w \in Verifiers \ {v} : verify'[w] = verify[w]
      BY <2>3 DEF Typed, SessionTypeOK
    <3>4. /\ \A w \in Verifiers : verify[w].token # otp.code
          /\ \A p \in Phones : cred[p].refresh # otp.code
      BY <1>000, <2>3, <3>1
    <3> QED
      BY <1>0, <1>00, <1>000, <2>1, <2>3, <3>2, <3>3, <3>4, UsesStay
  <2> QED
    BY <1>1, <2>2, <2>3, CheckOutcome
<1>2. ASSUME NEW p \in Phones, NEW v \in Verifiers, SignIn(p, v) PROVE TokensOwned'
  <2>1. verify[v] # Quiet /\ verify' = [verify EXCEPT ![v] = Quiet]
    BY <1>2 DEF SignIn, Quiet
  <2>3. /\ \A q \in Phones \ {p} : cred'[q] = cred[q]
        /\ cred'[p].refresh \in {cred[p].refresh, verify[v].token}
    BY <1>2, SignInRefresh
  <2>4. verify'[v] = Quiet /\ \A w \in Verifiers \ {v} : verify'[w] = verify[w]
    BY <2>1 DEF Typed, SessionTypeOK
  <2>5. tally' = tally
    BY <1>2 DEF SignIn
  <2> QED
    BY <1>0, <1>00, <1>000, <2>1, <2>3, <2>4, <2>5
<1>3. CASE /\ ~\E v \in Verifiers : CheckCode(v)
           /\ ~\E p \in Phones, v \in Verifiers : SignIn(p, v)
  <2>1. \A w \in Verifiers : \/ verify'[w] = Quiet
                             \/ verify[w] # Quiet /\ verify'[w].token = verify[w].token
    BY <1>3, SignInTokens
  <2>2. \A p \in Phones : cred'[p].refresh \in {0, cred[p].refresh}
    BY <1>3, RefreshTokens
  <2> QED
    BY <1>0, <1>00, <1>000, <2>1, <2>2, UsesStay
<1> QED
  BY <1>1, <1>2, <1>3

-----------------------------------------------------------------------------
(***************************************************************************)
(* What a step does to the clock and to a row.                             *)
(***************************************************************************)

\* A day passes on its own.
LEMMA DayMoves ==
    ASSUME [SessionNext]_sessionVars
    PROVE  day' = day \/ NextDay
BY DEF SessionNext, sessionVars, codeVars, phoneVars, Ask, StoreCode, StoreFails, SendCode,
       CodeExpires, WindowExpires, CheckCode, LookUp, CreateUser, InsertSession, VerifyFails,
       SignIn, Call, Resume, Authenticate, Handle, Refused, ReadSession, ExtendSession,
       Renewed, Rejected, CallFails, Kill, Launch, Gate, GateThrows,
       Discard, MakeKeys, PublishKeys, AskErase, Erase, FinishAccount

\* A session is inserted for its sign-in, extended for its phone, or goes.
LEMMA RowMoves ==
    ASSUME Typed, [SessionNext]_sessionVars
    PROVE  \A t \in Token :
             \/ sessions'[t] = sessions[t]
             \/ sessions'[t] = NoRow
             \/ /\ sessions'[t].exp = day + SessionTTL
                /\ \E v \in Verifiers : InsertSession(v) /\ t = verify[v].token
             \/ \E p \in Phones : ExtendSession(p) /\ t = cred[p].refresh
<1> DEFINE Kept == \A t \in Token :
             \/ sessions'[t] = sessions[t]
             \/ sessions'[t] = NoRow
             \/ /\ sessions'[t].exp = day + SessionTTL
                /\ \E v \in Verifiers : InsertSession(v) /\ t = verify[v].token
             \/ \E p \in Phones : ExtendSession(p) /\ t = cred[p].refresh
<1>1. ASSUME sessions' = sessions PROVE Kept
  BY <1>1
<1>2. ASSUME NEW v \in Verifiers, InsertSession(v) PROVE Kept
  <2>1. sessions \in [Token -> Rows]
    BY DEF Typed, SessionTypeOK
  <2>2. CASE UNCHANGED sessions
    BY <2>2
  <2>3. CASE sessions' = [sessions EXCEPT ![verify[v].token] =
                               [acct |-> verify[v].acct, exp |-> day + SessionTTL]]
    BY <1>2, <2>1, <2>3
  <2> QED
    BY <1>2, <2>2, <2>3 DEF InsertSession
<1>3. ASSUME FinishAccount \/ \E p \in Phones : Handle(p) PROVE Kept
  <2>1. \A t \in Token : sessions'[t] = sessions[t] \/ sessions'[t] = NoRow
    BY <1>3, RowsGo
  <2> QED
    BY <2>1
<1>4. ASSUME NEW p \in Phones, ExtendSession(p) PROVE Kept
  <2>1. sessions' = sessions \/ \A t \in Token \ {cred[p].refresh} : sessions'[t] = sessions[t]
    BY <1>4, ExtendOutcome
  <2> QED
    BY <1>4, <2>1
<1>5. ASSUME \/ \E v \in Verifiers : CheckCode(v) \/ LookUp(v) \/ CreateUser(v) \/ VerifyFails(v)
             \/ \E p \in Phones, v \in Verifiers : SignIn(p, v)
      PROVE  Kept
  BY <1>1, <1>5 DEF CheckCode, LookUp, CreateUser, VerifyFails, SignIn
<1> QED
  BY <1>1, <1>2, <1>3, <1>4, <1>5, AccountSteps

-----------------------------------------------------------------------------
(***************************************************************************)
(* Expiries and rejections, step by step.                                  *)
(***************************************************************************)

\* A phone's row is untouched by sign-ins under way and by other phones.
LEMMA OwnRow ==
    ASSUME Typed, TokensOwned, [SessionNext]_sessionVars, NEW p \in Phones,
           cred[p].refresh \in Token
    PROVE  \/ sessions'[cred[p].refresh] = sessions[cred[p].refresh]
           \/ sessions'[cred[p].refresh] = NoRow
           \/ ExtendSession(p)
<1> DEFINE r == cred[p].refresh
<1>1. r # 0
  BY RecordTypes
<1>2. ASSUME NEW v \in Verifiers, InsertSession(v) PROVE r # verify[v].token
  <2>1. verify[v] # Quiet
    BY <1>2 DEF InsertSession, Quiet
  <2> QED
    BY <2>1 DEF TokensOwned
<1>3. ASSUME NEW q \in Phones, q # p PROVE r # cred[q].refresh
  BY <1>1, <1>3 DEF TokensOwned
<1> QED
  BY <1>2, <1>3, RowMoves

\* Rows' expiries stay within a lifetime from now.
LEMMA RowsInTime ==
    ASSUME Typed, Expiries, [SessionNext]_sessionVars, day' = day
    PROVE  \A t \in Token : sessions'[t].exp <= day + SessionTTL
<1> SUFFICES ASSUME NEW t \in Token PROVE sessions'[t].exp <= day + SessionTTL
  OBVIOUS
<1>1. sessions[t].exp <= day + SessionTTL
  BY DEF Expiries
<1>2. ASSUME NEW p \in Phones, ExtendSession(p), t = cred[p].refresh
      PROVE  sessions'[t].exp <= day + SessionTTL
  <2>1. task[p].exp <= day + SessionTTL
    BY DEF Expiries
  <2>2. sessions'[t].exp = task[p].exp \/ sessions'[t] = sessions[t]
    BY <1>2, ExtendOutcome
  <2> QED
    BY <1>1, <2>1, <2>2
<1>3. CASE sessions'[t] = NoRow
  BY <1>3, RecordTypes DEF NoRow
<1>4. CASE sessions'[t].exp = day + SessionTTL
  BY <1>4, RecordTypes
<1> QED
  BY <1>1, <1>2, <1>3, <1>4, RowMoves

\* A sign-in answers after its session was inserted.
LEMMA SignInSteps ==
    ASSUME Typed, [SessionNext]_sessionVars, NEW v \in Verifiers, ~InsertSession(v),
           verify'[v].at = "answer"
    PROVE  verify'[v] = verify[v]
<1>0. verify \in [Verifiers -> SignIns] /\ Quiet.at # "answer"
  BY DEF Typed, SessionTypeOK, Quiet
<1>1. ASSUME NEW w \in Verifiers, NEW s, s.at # "answer", verify' = [verify EXCEPT ![w] = s]
      PROVE  verify'[v] = verify[v]
  BY <1>0, <1>1
<1>2. ASSUME NEW w \in Verifiers, CheckCode(w) PROVE verify'[v] = verify[v]
  BY <1>0, <1>2, CheckOutcome
<1>3. ASSUME NEW w \in Verifiers, LookUp(w) \/ CreateUser(w)
      PROVE  verify'[v] = verify[v]
  <2>1. \/ verify' = [verify EXCEPT ![w] = Quiet]
        \/ \E a : verify' = [verify EXCEPT ![w].at = "known", ![w].acct = a]
        \/ verify' = [verify EXCEPT ![w].at = "new"]
    BY <1>3 DEF LookUp, CreateUser
  <2> QED
    BY <1>0, <2>1 DEF SignIns
<1>4. ASSUME NEW w \in Verifiers, InsertSession(w) PROVE verify'[v] = verify[v]
  <2>1. w # v /\ \E s : verify' = [verify EXCEPT ![w] = s]
    BY <1>4 DEF InsertSession
  <2> QED
    BY <1>0, <2>1
<1>5. ASSUME NEW w \in Verifiers, VerifyFails(w) \/ \E p \in Phones : SignIn(p, w)
      PROVE  verify'[v] = verify[v]
  BY <1>0, <1>1, <1>5 DEF VerifyFails, SignIn
<1>6. ASSUME FinishAccount \/ \E p \in Phones : Handle(p) \/ ExtendSession(p)
      PROVE  verify'[v] = verify[v]
  BY <1>6 DEF FinishAccount, Handle, ExtendSession
<1> QED
  BY <1>2, <1>3, <1>4, <1>5, <1>6, AccountSteps

\* A sign-in answers with a row that was just inserted.
LEMMA AnswerFresh ==
    ASSUME Typed, Typed', TokensOwned, Expiries, [SessionNext]_sessionVars, day' = day,
           NEW v \in Verifiers, verify'[v].at = "answer"
    PROVE  LET t == verify'[v].token IN
           sessions'[t].acct # 0 => sessions'[t].exp = day + SessionTTL
<1> DEFINE t == verify'[v].token
<1>0. verify \in [Verifiers -> SignIns] /\ sessions \in [Token -> Rows]
  BY DEF Typed, SessionTypeOK
<1>1. ASSUME NEW w \in Verifiers, InsertSession(w), w = v
      PROVE  sessions'[t].acct # 0 => sessions'[t].exp = day + SessionTTL
  <2>1. /\ sessions' = [sessions EXCEPT ![verify[w].token] =
                            [acct |-> verify[w].acct, exp |-> day + SessionTTL]]
        /\ verify' = [verify EXCEPT ![w].at = "answer"]
    BY <1>0, <1>1 DEF InsertSession, Quiet
  <2>2. t = verify[w].token
    BY <1>0, <1>1, <2>1 DEF SignIns
  <2>3. t \in Token
    <3>1. verify[w] # Quiet
      BY <1>1 DEF InsertSession, Quiet
    <3> QED
      BY <2>2, <3>1, RecordTypes DEF TokensOwned
  <2>4. sessions'[t] = [acct |-> verify[w].acct, exp |-> day + SessionTTL]
    BY <1>0, <2>1, <2>2, <2>3
  <2> QED
    BY <2>4
<1>2. CASE ~InsertSession(v)
  <2>1. verify'[v] = verify[v]
    BY <1>0, <1>2, SignInSteps
  <2>2. verify[v] # Quiet
    BY <2>1 DEF Quiet
  <2>3. t \in Token
    BY <2>1, <2>2, RecordTypes DEF TokensOwned
  <2>4. sessions[t].acct # 0 => sessions[t].exp = day + SessionTTL
    BY <2>1, <2>3, RecordTypes DEF Expiries, Row
  <2>5. ASSUME NEW p \in Phones PROVE t # cred[p].refresh
    BY <2>1, <2>2 DEF TokensOwned
  <2>6. ASSUME NEW w \in Verifiers, w # v PROVE t # verify[w].token
    BY <2>1, <2>2, <2>6 DEF TokensOwned
  <2>7. sessions'[t] = sessions[t] \/ sessions'[t] = NoRow
    BY <1>2, <2>3, <2>5, <2>6, RowMoves
  <2> QED
    BY <2>4, <2>7 DEF NoRow
<1> QED
  BY <1>1, <1>2

\* A phone's belief and its renewal keep to the row.
LEMMA PhoneInTime ==
    ASSUME Typed, TokensOwned, Expiries, [SessionNext]_sessionVars, day' = day,
           NEW p \in Phones
    PROVE  /\ cred'[p].exp <= day + SessionTTL /\ task'[p].exp <= day + SessionTTL
           /\ cred'[p].refresh \in Token /\ sessions'[cred'[p].refresh].acct # 0 =>
                /\ cred'[p].exp <= sessions'[cred'[p].refresh].exp
                /\ task'[p].at = "extend" => sessions'[cred'[p].refresh].exp <= task'[p].exp
                /\ task'[p].at = "renewed" => task'[p].exp <= sessions'[cred'[p].refresh].exp
<1> DEFINE r == cred[p].refresh
           Fits(c, e, k, t) == /\ c <= e
                               /\ k = "extend" => e <= t
                               /\ k = "renewed" => t <= e
<1>0. /\ cred[p].exp <= day + SessionTTL /\ task[p].exp <= day + SessionTTL
      /\ r \in Token /\ sessions[r].acct # 0 =>
           Fits(cred[p].exp, sessions[r].exp, task[p].at, task[p].exp)
  <2>1. r \in Token => Row(r) = sessions[r]
    BY RecordTypes DEF Row
  <2> QED
    BY <2>1 DEF Expiries
<1>1. /\ cred[p].exp \in Int /\ task[p].exp \in Int /\ day + SessionTTL \in Nat
      /\ None <= day + SessionTTL /\ \A e \in Nat : None <= e
      /\ r \in Token => sessions[r].exp \in Nat
  BY RecordTypes DEF None
<1>2. ASSUME NEW v \in Verifiers, SignIn(p, v), cred'[p].refresh = verify[v].token,
             cred'[p].exp \in {cred[p].exp, Row(verify[v].token).exp}
      PROVE  /\ cred'[p].exp <= day + SessionTTL /\ task'[p].exp <= day + SessionTTL
             /\ verify[v].token \in Token /\ sessions'[verify[v].token].acct # 0 =>
                Fits(cred'[p].exp, sessions'[verify[v].token].exp, task'[p].at, task'[p].exp)
  <2>0. task'[p] \in {Killed, [Sent("keys") EXCEPT !.user = verify[v].acct]}
    BY <1>2, SignInRefresh
  <2>1. Over(task'[p]) /\ sessions' = sessions
    BY <1>2, <2>0, GivenOver DEF SignIn
  <2>2. Row(verify[v].token).exp <= day + SessionTTL /\ Row(verify[v].token).exp \in Int
    BY RecordTypes DEF Expiries, Row, NoRow
  <2>3. ASSUME verify[v].token \in Token, sessions[verify[v].token].acct # 0
        PROVE  sessions[verify[v].token].exp = day + SessionTTL
    <3>1. verify[v].at = "answer" /\ Row(verify[v].token) = sessions[verify[v].token]
      BY <1>2, <2>3, RecordTypes DEF SignIn, Row
    <3> QED
      BY <2>3, <3>1 DEF Expiries
  <2>4. task'[p].at \notin {"extend", "renewed"} /\ task'[p].exp = None
    BY <2>1 DEF Over
  <2> QED
    BY <1>0, <1>1, <1>2, <2>1, <2>2, <2>3, <2>4
<1>3. CASE ReadSession(p)
  <2>1. cred' = cred /\ sessions' = sessions
    BY <1>3 DEF ReadSession
  <2>2. \/ task'[p].at \notin {"extend", "renewed"} /\ task'[p].exp \in {None, task[p].exp}
        \/ task'[p].at = "extend" /\ task'[p].exp = day + SessionTTL
    BY <1>3, ReadOutcome DEF Over
  <2>3. r \in Token => sessions[r].exp <= day + SessionTTL
    BY DEF Expiries
  <2> QED
    BY <1>0, <1>1, <2>1, <2>2, <2>3
<1>4. CASE ExtendSession(p)
  <2>1. cred' = cred
    BY <1>4 DEF ExtendSession
  <2>2. \/ /\ r \in Token /\ sessions'[r].acct = sessions[r].acct
           /\ sessions'[r].exp = task[p].exp
           /\ task'[p].at = "renewed" /\ task'[p].exp = task[p].exp
        \/ /\ sessions' = sessions
           /\ task'[p].at \notin {"extend", "renewed"} /\ task'[p].exp \in {None, task[p].exp}
    BY <1>4, ExtendOutcome DEF Over
  <2>3. task[p].at = "extend"
    BY <1>4 DEF ExtendSession
  <2> QED
    BY <1>0, <1>1, <2>1, <2>2, <2>3
<1>5. ASSUME ~ReadSession(p), ~ExtendSession(p),
             \/ cred'[p].refresh = r /\ cred'[p].exp = cred[p].exp
             \/ Renewed(p) /\ cred'[p].refresh = r /\ cred'[p].exp = task[p].exp
             \/ cred'[p].refresh = 0 /\ cred'[p].exp \in {cred[p].exp, None}
      PROVE  /\ cred'[p].exp <= day + SessionTTL /\ task'[p].exp <= day + SessionTTL
             /\ cred'[p].refresh \in Token /\ sessions'[cred'[p].refresh].acct # 0 =>
                Fits(cred'[p].exp, sessions'[cred'[p].refresh].exp, task'[p].at, task'[p].exp)
  <2>1. \/ task'[p] = task[p]
        \/ /\ task'[p].at \notin {"extend", "renewed"}
           /\ task'[p].exp \in {None, task[p].exp}
    BY <1>5, TaskMoves
  <2>2. 0 \notin Token
    BY RecordTypes
  <2>3. r \in Token => sessions'[r] = sessions[r] \/ sessions'[r] = NoRow
    BY <1>5, OwnRow
  <2>4. Renewed(p) => task[p].at = "renewed"
    BY DEF Renewed
  <2>5. cred'[p].exp <= day + SessionTTL /\ task'[p].exp <= day + SessionTTL
    BY <1>0, <1>1, <1>5, <2>1
  <2>6. ASSUME r \in Token, sessions'[r].acct # 0, cred'[p].refresh = r
        PROVE  Fits(cred'[p].exp, sessions'[r].exp, task'[p].at, task'[p].exp)
    <3>1. sessions'[r] = sessions[r]
      BY <2>3, <2>6 DEF NoRow
    <3>2. Fits(cred[p].exp, sessions[r].exp, task[p].at, task[p].exp)
      BY <1>0, <2>6, <3>1
    <3>3. cred'[p].exp <= sessions[r].exp
      BY <1>5, <2>2, <2>4, <2>6, <3>2
    <3> QED
      BY <2>1, <3>1, <3>2, <3>3
  <2> QED
    BY <1>5, <2>2, <2>5, <2>6
<1> HIDE DEF Fits
<1>6. /\ cred'[p].exp <= day + SessionTTL /\ task'[p].exp <= day + SessionTTL
      /\ cred'[p].refresh \in Token /\ sessions'[cred'[p].refresh].acct # 0 =>
           Fits(cred'[p].exp, sessions'[cred'[p].refresh].exp, task'[p].at, task'[p].exp)
  <2>1. \/ cred'[p].refresh = r /\ cred'[p].exp = cred[p].exp
        \/ \E v \in Verifiers :
             /\ SignIn(p, v) /\ cred'[p].refresh = verify[v].token
             /\ cred'[p].exp \in {cred[p].exp, Row(verify[v].token).exp}
        \/ Renewed(p) /\ cred'[p].refresh = r /\ cred'[p].exp = task[p].exp
        \/ cred'[p].refresh = 0 /\ cred'[p].exp \in {cred[p].exp, None}
    BY CredMoves
  <2>2. CASE \E v \in Verifiers :
               /\ SignIn(p, v) /\ cred'[p].refresh = verify[v].token
               /\ cred'[p].exp \in {cred[p].exp, Row(verify[v].token).exp}
    BY <1>2, <2>2
  <2>3. CASE ReadSession(p) \/ ExtendSession(p)
    BY <1>3, <1>4, <2>3 DEF Fits
  <2> QED
    BY <1>5, <2>1, <2>2, <2>3
<1> QED
  BY <1>6 DEF Fits

\* Every step keeps expiries in time and honest.
LEMMA ExpiriesStep ==
    ASSUME Typed, Typed', TokensOwned, Expiries, [SessionNext]_sessionVars
    PROVE  Expiries'
<1>1. CASE NextDay
  <2>1. /\ day' = day + 1 /\ UNCHANGED <<sessions, cred, task>>
        /\ \A v \in Verifiers : verify'[v] = Quiet
    BY <1>1 DEF NextDay, phoneVars
  <2>2. Quiet.at = "idle"
    BY DEF Quiet
  <2>3. /\ \A t \in Token : sessions[t].exp <= day' + SessionTTL
        /\ \A p \in Phones : cred[p].exp <= day' + SessionTTL /\ task[p].exp <= day' + SessionTTL
    BY <2>1, RecordTypes DEF Expiries, None
  <2>4. \A p \in Phones : Row(cred[p].refresh)' = Row(cred[p].refresh)
    BY <2>1 DEF Row
  <2> QED
    BY <2>1, <2>2, <2>3, <2>4 DEF Expiries, Row
<1>2. CASE day' = day
  <2>1. \A t \in Token : sessions'[t].exp <= day + SessionTTL
    BY <1>2, RowsInTime
  <2>2. ASSUME NEW v \in Verifiers, verify'[v].at = "answer", Row(verify[v].token)'.acct # 0
        PROVE  Row(verify[v].token)'.exp = day + SessionTTL
    <3>1. verify'[v].token # 0
      BY <2>2 DEF Row, NoRow
    <3> QED
      BY <1>2, <2>2, <3>1, AnswerFresh DEF Row
  <2>3. ASSUME NEW p \in Phones
        PROVE  /\ cred'[p].exp <= day + SessionTTL /\ task'[p].exp <= day + SessionTTL
               /\ Row(cred[p].refresh)'.acct # 0 =>
                    /\ cred'[p].exp <= Row(cred[p].refresh)'.exp
                    /\ task'[p].at = "extend" => Row(cred[p].refresh)'.exp <= task'[p].exp
                    /\ task'[p].at = "renewed" => task'[p].exp <= Row(cred[p].refresh)'.exp
    <3>1. cred'[p].refresh \in {0} \cup Token
      BY DEF Typed, SessionTypeOK, Credentials
    <3>2. CASE cred'[p].refresh = 0
      <4>1. Row(cred[p].refresh)'.acct = 0
        BY <3>2 DEF Row, NoRow
      <4> QED
        BY <1>2, <4>1, PhoneInTime
    <3>3. CASE cred'[p].refresh \in Token
      <4>1. Row(cred[p].refresh)' = sessions'[cred'[p].refresh]
        BY <3>3, RecordTypes DEF Row
      <4> QED
        BY <1>2, <3>3, <4>1, PhoneInTime
    <3> QED
      BY <3>1, <3>2, <3>3
  <2> QED
    BY <1>2, <2>1, <2>2, <2>3 DEF Expiries
<1> QED
  BY <1>1, <1>2, DayMoves

\* An account that becomes live is one nothing refers to yet.
LEMMA LiveGrows ==
    ASSUME Typed, [SessionNext]_sessionVars
    PROVE  \A a \in users'.live : a \in users.live \/ a = tally.accounts + 1
<1>1. CASE UNCHANGED <<users.live, users.deleting>>
  BY <1>1
<1>2. CASE FinishAccount
  BY <1>2 DEF FinishAccount
<1>3. ASSUME NEW p \in Phones, Handle(p) PROVE users'.live \subseteq users.live
  BY <1>3, HandleUsers
<1>4. ASSUME NEW v \in Verifiers, CreateUser(v)
      PROVE  \A a \in users'.live : a \in users.live \/ a = tally.accounts + 1
  <2>1. \/ UNCHANGED users
        \/ users' = [users EXCEPT !.live = @ \cup {tally.accounts + 1}]
    BY <1>4 DEF CreateUser
  <2> QED
    BY <2>1, RecordTypes
<1>5. UNCHANGED <<users.live, users.deleting>> \/ FinishAccount \/ (\E p \in Phones : Handle(p))
                      \/ \E v \in Verifiers : CreateUser(v)
  BY AccountSteps DEF CheckCode, LookUp, InsertSession, VerifyFails, SignIn, ExtendSession
<1> QED
  BY <1>1, <1>2, <1>3, <1>4, <1>5

\* A session that is dead stays dead for the phone that holds it.
LEMMA DeadStays ==
    ASSUME Typed, AccountsCounted, TokensOwned, [SessionNext]_sessionVars, NEW p \in Phones,
           cred'[p].refresh = cred[p].refresh, ~ExtendSession(p),
           ~Found(cred[p].refresh) \/ Expired(cred[p].refresh)
    PROVE  (~Found(cred[p].refresh) \/ Expired(cred[p].refresh))'
<1> DEFINE r == cred[p].refresh
<1>4. r \in {0} \cup Token
  BY RecordTypes
<1>5. users'.live \subseteq users.live \cup {tally.accounts + 1} /\ 0 \notin users'.live
  BY LiveGrows, CounterTypes, RecordTypes
<1>6. CASE r = 0
  <2>1. Row(cred[p].refresh)'.acct = 0
    BY <1>6 DEF Row, NoRow
  <2> QED
    BY <1>5, <2>1 DEF Found
<1>7. CASE r \in Token
  <2>1. Row(r) = sessions[r] /\ Row(cred[p].refresh)' = sessions'[r]
    BY <1>7, RecordTypes DEF Row
  <2>2. CASE sessions'[r] = NoRow
    BY <1>5, <2>1, <2>2 DEF Found, NoRow
  <2>3. CASE sessions'[r] = sessions[r] /\ ~Found(r)
    <3>1. sessions[r].acct # tally.accounts + 1
      BY <1>7, RecordTypes, CounterTypes DEF AccountsCounted
    <3> QED
      BY <1>5, <2>1, <2>3, <3>1 DEF Found
  <2>4. CASE sessions'[r] = sessions[r] /\ Expired(r)
    <3>1. day' >= day /\ sessions[r].exp \in Nat /\ day' \in Nat
      BY <1>7, DayMoves, RecordTypes DEF NextDay
    <3> QED
      BY <2>1, <2>4, <3>1, RecordTypes DEF Expired
  <2> QED
    BY <1>7, <2>2, <2>3, <2>4, OwnRow
<1> QED
  BY <1>4, <1>6, <1>7

\* So does one for which a refresh was rejected.
LEMMA RejectedStep ==
    ASSUME Typed, AccountsCounted, TokensOwned, RejectedDead, [SessionNext]_sessionVars
    PROVE  RejectedDead'
<1> SUFFICES ASSUME NEW p \in Phones, task'[p].at = "rejected"
             PROVE  (~Found(cred[p].refresh) \/ Expired(cred[p].refresh))'
  BY DEF RejectedDead
<1> DEFINE r == cred[p].refresh
<1>1. CASE ReadSession(p)
  <2>1. Found(r) => Expired(r)
    BY <1>1, ReadOutcome DEF Over
  <2>2. UNCHANGED <<day, users, sessions, cred>>
    BY <1>1 DEF ReadSession
  <2> QED
    BY <2>1, <2>2 DEF Found, Expired, Row
<1>2. CASE ExtendSession(p)
  <2>1. ~Found(r) /\ sessions' = sessions
    BY <1>2, ExtendOutcome DEF Over
  <2>2. UNCHANGED <<users, cred>>
    BY <1>2 DEF ExtendSession
  <2> QED
    BY <2>1, <2>2 DEF Found, Row
<1>3. CASE ~ReadSession(p) /\ ~ExtendSession(p)
  <2>1. task'[p] = task[p] /\ task[p].at = "rejected"
    <3>1. task'[p] = task[p]
      BY <1>3, TaskMoves
    <3> QED
      BY <3>1
  <2>2. cred'[p].refresh = r
    <3>0. task[p] # Resting /\ task[p].at \notin {"shut", "unread", "erase"}
      BY <2>1 DEF Resting
    <3>1. ~Discard(p) /\ ~Erase(p) /\ ~\E v \in Verifiers : SignIn(p, v)
      BY <3>0 DEF Discard, Erase, SignIn
    <3>2. ASSUME Rejected(p) PROVE FALSE
      <4>1. CASE Fails(p)
        BY <2>1, <4>1, EndsLeaves DEF Over, Fails
      <4>2. CASE task'[p] \in {Killed, Shut, Resting, AtGate(task[p].user, "unavailable")}
        BY <2>1, <4>2, GivenOver DEF Over
      <4> QED
        BY <3>2, <4>1, <4>2, RejectedLeaves
    <3> QED
      BY <3>1, <3>2, CredMoves
  <2> QED
    BY <1>3, <2>1, <2>2, DeadStays DEF RejectedDead
<1> QED
  BY <1>1, <1>2, <1>3

-----------------------------------------------------------------------------
(***************************************************************************)
(* The gate, step by step.                                                 *)
(***************************************************************************)

\* Every step keeps the accounts of the rows known.
LEMMA RowsKnownStep ==
    ASSUME Typed, RowsKnown, [SessionNext]_sessionVars
    PROVE  RowsKnown'
<1> USE RecordTypes DEF RowsKnown, Known
<1>1. CASE UNCHANGED <<users.live, users.deleting>>
  <2>1. \A t \in Token : sessions'[t].acct \in {0, sessions[t].acct} \cup Known
    BY RowAccounts
  <2> QED
    BY <1>1, <2>1
<1>2. CASE FinishAccount
  <2>1. /\ users' = [users EXCEPT !.deleting = {}, !.identified = @ \ users.deleting]
        /\ sessions' = [t \in Token |-> IF sessions[t].acct \in users.deleting THEN NoRow
                                        ELSE sessions[t]]
    BY <1>2 DEF FinishAccount
  <2>2. users'.live = users.live /\ NoRow.acct = 0
    BY <2>1 DEF NoRow
  <2> SUFFICES ASSUME NEW t \in Token PROVE sessions'[t].acct \in {0} \cup users'.live
    OBVIOUS
  <2>3. sessions'[t] = IF sessions[t].acct \in users.deleting THEN NoRow ELSE sessions[t]
    BY <2>1
  <2>4. sessions[t].acct \in {0} \cup users.live \cup users.deleting
    OBVIOUS
  <2> QED
    BY <2>2, <2>3, <2>4
<1>3. ASSUME NEW p \in Phones, Handle(p) PROVE RowsKnown'
  <2>1. Known \subseteq users'.live \cup users'.deleting
    BY <1>3, HandleUsers
  <2>2. \A t \in Token : sessions'[t].acct \in {0, sessions[t].acct} \cup Known
    BY RowAccounts
  <2> QED
    BY <2>1, <2>2
<1>4. ASSUME NEW v \in Verifiers, CreateUser(v) PROVE RowsKnown'
  <2>1. sessions' = sessions /\ Known \subseteq users'.live \cup users'.deleting
    BY <1>4 DEF CreateUser
  <2> QED
    BY <2>1
<1>5. UNCHANGED <<users.live, users.deleting>> \/ FinishAccount \/ (\E p \in Phones : Handle(p))
                                              \/ \E v \in Verifiers : CreateUser(v)
  BY AccountSteps DEF CheckCode, LookUp, InsertSession, VerifyFails, SignIn, ExtendSession
<1> QED
  BY <1>1, <1>2, <1>3, <1>4, <1>5

\* The row of a phone's session keeps its account, or goes.
LEMMA RowKept ==
    ASSUME Typed, TokensOwned, [SessionNext]_sessionVars, NEW p \in Phones,
           cred'[p].refresh = cred[p].refresh
    PROVE  Row(cred[p].refresh)'.acct \in {0, Row(cred[p].refresh).acct}
<1> DEFINE r == cred[p].refresh
<1>0. r \in {0} \cup Token /\ 0 \notin Token
  BY RecordTypes
<1>1. CASE r = 0
  BY <1>1 DEF Row, NoRow
<1>2. CASE r \in Token
  <2>1. Row(r) = sessions[r] /\ Row(cred[p].refresh)' = sessions'[r]
    BY <1>0, <1>2 DEF Row
  <2>2. CASE ExtendSession(p)
    BY <2>1, <2>2, ExtendOutcome
  <2>3. CASE sessions'[r] = sessions[r] \/ sessions'[r] = NoRow
    BY <2>1, <2>3 DEF NoRow
  <2> QED
    BY <1>2, <2>2, <2>3, OwnRow
<1> QED
  BY <1>0, <1>1, <1>2

\* So a phone's vault becomes its session's only by the phone's own doing.
LEMMA AttributedStays ==
    ASSUME Typed, TokensOwned, [SessionNext]_sessionVars, NEW p \in Phones,
           vault'[p] = vault[p], cred'[p].refresh = cred[p].refresh,
           cred'[p].user = cred[p].user, Attributed(p)'
    PROVE  Attributed(p)
BY RowKept DEF Attributed

\* A call that goes on keeps what the gate goes by.
LEMMA GoesOn ==
    ASSUME Typed, TokensOwned, [SessionNext]_sessionVars, NEW p \in Phones, Knows(p),
           vault'[p] = vault[p], cred'[p].refresh = cred[p].refresh,
           cred'[p].user = cred[p].user,
           task'[p].at \notin {"shut", "gate", "admitted"},
           task'[p].kind = task[p].kind, task'[p].user = task[p].user
    PROVE  Knows(p)'
<1>1. Attributed(p)' => Attributed(p)
  BY AttributedStays
<1> QED
  BY <1>1 DEF Knows

\* A task that is neither at the gate nor on its way there needs nothing.
LEMMA KnowsNothing ==
    ASSUME NEW p \in Phones, task'[p].at \notin {"shut", "gate", "admitted"},
           task'[p].kind # "keys"
    PROVE  Knows(p)'
BY DEF Knows

\* Such tasks.
LEMMA GivenNothing ==
    /\ \A r \in {Resting, Killed, Sent("call"), Sent("delete"), Sent("me"),
                 [Resting EXCEPT !.at = "refresh", !.kind = "renew"],
                 [Resting EXCEPT !.at = "refresh", !.kind = "warm"],
                 [Resting EXCEPT !.at = "unread"], [Resting EXCEPT !.at = "erase"]} :
         r.at \notin {"shut", "gate", "admitted"} /\ r.kind # "keys"
    /\ Shut.at = "shut" /\ Shut.kind = "call"
    /\ \A u : LET r == [Sent("keys") EXCEPT !.user = u] IN
                r.at = "sent" /\ r.kind = "keys" /\ r.user = u
    /\ \A u, s : /\ AtGate(u, s).at = "gate" /\ AtGate(u, s).kind = "call"
                 /\ AtGate(u, s).user = u /\ AtGate(u, s).seen = s
BY DEF Resting, Killed, Sent, Shut, AtGate

\* A call that fails goes to the gate with the stored account, or with none.
LEMMA FailsKnows ==
    ASSUME Typed, TokensOwned, [SessionNext]_sessionVars, NEW p \in Phones, Knows(p),
           vault'[p] = vault[p], cred'[p] = cred[p], Fails(p)
    PROVE  Knows(p)'
<1>1. Attributed(p)' => Attributed(p)
  BY AttributedStays
<1>2. \/ task'[p] \in {Sent("me"), Resting}
      \/ task'[p] = [Sent("keys") EXCEPT !.user = cred[p].user]
      \/ cred[p].user = 0 /\ task'[p] = Shut
      \/ task[p].kind = "keys" /\ task'[p] = AtGate(task[p].user, "unavailable")
  BY EndsLeaves DEF Fails
<1>3. CASE task'[p] \in {Sent("me"), Resting}
  BY <1>3, GivenNothing, KnowsNothing
<1>4. CASE task'[p] = [Sent("keys") EXCEPT !.user = cred[p].user]
  <2>1. task'[p].at = "sent" /\ task'[p].user = cred[p].user
    BY <1>4, GivenNothing
  <2>2. Attributed(p) => cred[p].user = vault[p].owner
    BY DEF Attributed
  <2> QED
    BY <1>1, <2>1, <2>2 DEF Knows
<1>5. CASE cred[p].user = 0 /\ task'[p] = Shut
  <2>1. ~Attributed(p)'
    BY <1>1, <1>5 DEF Attributed
  <2>2. task'[p].at = "shut" /\ task'[p].kind = "call"
    BY <1>5, GivenNothing
  <2> QED
    BY <2>1, <2>2 DEF Knows
<1>6. CASE task[p].kind = "keys" /\ task'[p] = AtGate(task[p].user, "unavailable")
  <2>1. task'[p].at = "gate" /\ task'[p].user = task[p].user
    BY <1>6, GivenNothing
  <2> QED
    BY <1>1, <1>6, <2>1 DEF Knows
<1> QED
  BY <1>2, <1>3, <1>4, <1>5, <1>6

\* A request is admitted for the account of the phone's session.
LEMMA AuthenticateKnows ==
    ASSUME Typed, AccountsCounted, TokensOwned, RowsKnown, [SessionNext]_sessionVars,
           NEW p \in Phones, Knows(p), Authenticate(p)
    PROVE  Knows(p)'
<1>0. /\ task \in [Phones -> Tasks] /\ UNCHANGED <<cred, vault, sessions>>
  BY DEF Authenticate, Typed, SessionTypeOK
<1>1. CASE task' = [task EXCEPT ![p].at = "refused"]
  <2>1. task'[p].at = "refused" /\ task'[p].kind = task[p].kind /\ task'[p].user = task[p].user
    BY <1>0, <1>1 DEF Tasks
  <2> QED
    BY <1>0, <2>1, GoesOn
<1>2. CASE /\ Found(cred[p].token)
           /\ task' = [task EXCEPT ![p].at = "admitted", ![p].acct = Row(cred[p].token).acct]
  <2>1. /\ task'[p].at = "admitted" /\ task'[p].acct = Row(cred[p].token).acct
        /\ task'[p].kind = task[p].kind /\ task'[p].user = task[p].user
    BY <1>0, <1>2 DEF Tasks
  <2>2. Row(cred[p].refresh)' = Row(cred[p].refresh)
    BY <1>0 DEF Row
  <2>3. Row(cred[p].refresh).acct \in {0} \cup Known
    <3>1. cred[p].refresh \in {0} \cup Token
      BY RecordTypes
    <3> QED
      BY <3>1 DEF Row, NoRow, RowsKnown
  <2>4. Row(cred[p].token).acct \in Known
    BY <1>2 DEF Found, Known
  <2>5. Row(cred[p].refresh).acct \in {0, Row(cred[p].token).acct}
    BY <2>3, <2>4 DEF AccountsCounted
  <2>6. Attributed(p)' => Attributed(p)
    BY <1>0, AttributedStays
  <2> QED
    BY <1>0, <2>1, <2>2, <2>5, <2>6 DEF Knows
<1> QED
  BY <1>1, <1>2 DEF Authenticate

\* The account getMe tells is the session's.
LEMMA HandleKnows ==
    ASSUME Typed, TokensOwned, [SessionNext]_sessionVars,
           NEW p \in Phones, Knows(p), Handle(p)
    PROVE  Knows(p)'
<1> DEFINE a == task[p].acct
<1>0. /\ cred \in [Phones -> Credentials] /\ vault' = vault /\ task[p].at = "admitted"
      /\ Ends(p, a, ServerKeys(p, a))
  BY DEF Handle, Typed, SessionTypeOK
<1>1. /\ cred'[p].refresh = cred[p].refresh
      /\ \/ cred'[p].user = cred[p].user
         \/ task[p].kind = "me" /\ cred'[p].user = a
  BY <1>0 DEF Handle, Credentials
<1>2. Row(cred[p].refresh).acct \in {0, a}
  BY <1>0 DEF Knows
<1>3. Row(cred[p].refresh)'.acct \in {0, a}
  BY <1>1, <1>2, RowKept
<1>4. CASE task'[p] \in {Sent("me"), Resting}
  BY <1>4, GivenNothing, KnowsNothing
<1>5. CASE a # 0 /\ task'[p] = [Sent("keys") EXCEPT !.user = a]
  <2>1. task'[p].at = "sent" /\ task'[p].user = a
    BY <1>5, GivenNothing
  <2>2. Attributed(p)' => vault'[p].owner = a
    BY <1>3 DEF Attributed
  <2> QED
    BY <2>1, <2>2 DEF Knows
<1>6. CASE a = 0 /\ task'[p] = Shut
  <2>1. ~Attributed(p)'
    BY <1>3, <1>6 DEF Attributed
  <2>2. task'[p].at = "shut" /\ task'[p].kind = "call"
    BY <1>6, GivenNothing
  <2> QED
    BY <2>1, <2>2 DEF Knows
<1>7. CASE task[p].kind = "keys" /\ task'[p] = AtGate(task[p].user, ServerKeys(p, a))
  <2>1. task'[p].at = "gate" /\ task'[p].user = task[p].user
    BY <1>7, GivenNothing
  <2>2. cred'[p].user = cred[p].user
    BY <1>1, <1>7
  <2>3. Attributed(p)' => Attributed(p)
    BY <1>0, <1>1, <2>2, AttributedStays
  <2> QED
    BY <1>0, <1>7, <2>1, <2>3 DEF Knows
<1> QED
  BY <1>0, <1>4, <1>5, <1>6, <1>7, EndsLeaves

\* The gate admits a vault that is the session's.
LEMMA GateOpens ==
    ASSUME NEW v, NEW u, NEW seen, v.owner # 0, v.owner = u, v.keys = "whole"
    PROVE  Outcome(v, u, seen) # "refuse"
BY DEF Outcome, OpensOffline

\* So it refuses one only when it is not.
LEMMA GateRefuses ==
    ASSUME Typed, TokensOwned, [SessionNext]_sessionVars,
           NEW p \in Phones, Knows(p), Gate(p)
    PROVE  Knows(p)'
<1> DEFINE o == Outcome(vault[p], task[p].user, task[p].seen)
<1>0. /\ task \in [Phones -> Tasks] /\ cred' = cred /\ task[p].at = "gate"
      /\ task'[p] = IF o = "refuse" THEN Shut ELSE Resting
      /\ o # "bind" => vault' = vault
  BY DEF Gate, Typed, SessionTypeOK
<1>1. CASE o # "refuse"
  BY <1>0, <1>1, GivenNothing, KnowsNothing
<1>2. CASE o = "refuse"
  <2>1. vault' = vault /\ task'[p] = Shut
    BY <1>0, <1>2
  <2>2. Attributed(p)' => Attributed(p)
    BY <1>0, <2>1, AttributedStays
  <2>3. Attributed(p) => o # "refuse"
    BY <1>0, GateOpens DEF Knows, Attributed
  <2>4. task'[p].at = "shut" /\ task'[p].kind = "call"
    BY <2>1, GivenNothing
  <2> QED
    BY <1>2, <2>2, <2>3, <2>4 DEF Knows
<1> QED
  BY <1>1, <1>2

\* Renewing a session does not change what the gate goes by.
LEMMA RenewalKnows ==
    ASSUME Typed, TokensOwned, [SessionNext]_sessionVars, NEW p \in Phones, Knows(p),
           \/ Refused(p) \/ ReadSession(p) \/ ExtendSession(p) \/ Renewed(p) \/ Rejected(p)
           \/ CallFails(p)
    PROVE  Knows(p)'
<1>0. task \in [Phones -> Tasks]
  BY DEF Typed, SessionTypeOK
<1>v. vault' = vault
  BY DEF Refused, ReadSession, ExtendSession, Renewed, Rejected, CallFails
<1>k. /\ \A at : LET r == [task[p] EXCEPT !.at = at] IN r.kind = task[p].kind /\ r.user = task[p].user
      /\ \A at, exp : LET r == [task[p] EXCEPT !.at = at, !.exp = exp] IN
                        r.kind = task[p].kind /\ r.user = task[p].user
  BY <1>0 DEF Tasks
<1>1. CASE Fails(p) /\ cred' = cred
  BY <1>v, <1>1, FailsKnows
<1>2. ASSUME cred' = cred, NEW at \in {"refresh", "extend", "rejected", "renewed"},
             task'[p].at = at, task'[p].kind = task[p].kind, task'[p].user = task[p].user
      PROVE  Knows(p)'
  BY <1>v, <1>2, GoesOn
<1>3. CASE Refused(p)
  <2>1. CASE task' = [task EXCEPT ![p].at = "refresh"]
    <3>1. /\ cred' = cred /\ task'[p].at = "refresh"
          /\ task'[p].kind = task[p].kind /\ task'[p].user = task[p].user
      BY <1>0, <1>3, <2>1 DEF Refused, Tasks
    <3> QED
      BY <1>2, <3>1
  <2> QED
    BY <1>1, <1>3, <2>1 DEF Refused
<1>4. CASE ReadSession(p)
  <2>1. cred' = cred
    BY <1>4 DEF ReadSession
  <2>2. Fails(p) \/ \E at \in {"extend", "rejected"} :
          task'[p].at = at /\ task'[p].kind = task[p].kind /\ task'[p].user = task[p].user
    <3>1. CASE task' = [task EXCEPT ![p].at = "extend", ![p].exp = day + SessionTTL]
      BY <1>0, <3>1 DEF Tasks
    <3>2. CASE task' = [task EXCEPT ![p].at = "rejected"]
      BY <1>0, <3>2 DEF Tasks
    <3> QED
      BY <1>4, <3>1, <3>2 DEF ReadSession, Goes
  <2> QED
    BY <1>1, <1>2, <2>1, <2>2
<1>5. CASE ExtendSession(p)
  <2>1. cred' = cred
    BY <1>5 DEF ExtendSession
  <2>2. Fails(p) \/ \E at \in {"renewed", "rejected"} :
          task'[p].at = at /\ task'[p].kind = task[p].kind /\ task'[p].user = task[p].user
    <3>1. \/ Fails(p)
          \/ task'[p] = [task[p] EXCEPT !.at = "renewed"] /\ task'[p].at = "renewed"
          \/ task'[p] = [task[p] EXCEPT !.at = "rejected"] /\ task'[p].at = "rejected"
      BY <1>5, ExtendOutcome
    <3> QED
      BY <1>k, <3>1
  <2> QED
    BY <1>1, <1>2, <2>1, <2>2
<1>6. CASE Renewed(p)
  <2>1. CASE task'[p] \in {Killed, Resting, Sent("me")}
    BY <2>1, GivenNothing, KnowsNothing
  <2>2. CASE task'[p] = [task[p] EXCEPT !.at = "sent", !.exp = None, !.again = TRUE]
    <3>1. /\ task'[p].at = "sent" /\ task'[p].kind = task[p].kind
          /\ task'[p].user = task[p].user
      BY <1>0, <2>2 DEF Tasks
    <3>2. cred'[p].refresh = cred[p].refresh /\ cred'[p].user = cred[p].user
      BY <1>6, RenewedLeaves
    <3> QED
      BY <1>v, <3>1, <3>2, GoesOn
  <2> QED
    BY <1>6, <2>1, <2>2, RenewedLeaves
<1>7. CASE Rejected(p)
  <2>1. CASE task'[p] \in {Killed, Resting}
    BY <2>1, GivenNothing, KnowsNothing
  <2>2. CASE cred'[p].refresh = 0 /\ task'[p] \in {Shut, AtGate(task[p].user, "unavailable")}
    <3>1. ~Attributed(p)'
      BY <2>2 DEF Attributed, Row, NoRow
    <3>2. task'[p].at \in {"shut", "gate"}
      BY <2>2, GivenNothing
    <3> QED
      BY <3>1, <3>2 DEF Knows
  <2> QED
    BY <1>1, <1>7, <2>1, <2>2, RejectedLeaves
<1>8. CASE CallFails(p)
  BY <1>1, <1>8 DEF CallFails
<1> QED
  BY <1>3, <1>4, <1>5, <1>6, <1>7, <1>8

\* A sign-in goes to the gate with its own account.
LEMMA SignInKnows ==
    ASSUME Typed, NEW p \in Phones, NEW v \in Verifiers, SignIn(p, v)
    PROVE  Knows(p)'
<1>1. CASE task'[p] = Killed
  BY <1>1, GivenNothing, KnowsNothing
<1>2. CASE /\ task'[p] = [Sent("keys") EXCEPT !.user = verify[v].acct]
           /\ cred'[p].user = verify[v].acct
  <2>1. task'[p].at = "sent" /\ task'[p].user = cred'[p].user
    BY <1>2, GivenNothing
  <2> QED
    BY <2>1 DEF Knows, Attributed
<1> QED
  BY <1>1, <1>2, SignInRefresh

\* Every step keeps what the gate goes by.
LEMMA GateStep ==
    ASSUME Typed, AccountsCounted, TokensOwned, RowsKnown, GateKnows,
           [SessionNext]_sessionVars
    PROVE  GateKnows'
<1> SUFFICES ASSUME NEW p \in Phones PROVE Knows(p)'
  BY DEF GateKnows
<1>0. task \in [Phones -> Tasks] /\ Knows(p)
  BY DEF Typed, SessionTypeOK, GateKnows
<1>1. CASE ~PhoneStep(p)
  <2>1. UNCHANGED <<cred[p], vault[p], task[p]>> /\ ~ExtendSession(p)
    BY <1>1, Actors DEF PhoneStep
  <2>2. Attributed(p)' => Attributed(p)
    BY <2>1, AttributedStays
  <2>3. Row(cred[p].refresh)'.acct \in {0, Row(cred[p].refresh).acct}
    BY <2>1, RowKept
  <2>4. ~Found(cred[p].refresh) \/ Expired(cred[p].refresh)
          => (~Found(cred[p].refresh) \/ Expired(cred[p].refresh))'
    BY <2>1, DeadStays
  <2> QED
    BY <1>0, <2>1, <2>2, <2>3, <2>4 DEF Knows
<1>2. CASE Call(p) \/ Resume(p) \/ Launch(p) \/ Kill(p) \/ GateThrows(p) \/ Discard(p)
           \/ Erase(p) \/ AskErase(p) \/ MakeKeys(p) \/ PublishKeys(p)
  <2>1. task'[p] \in {Resting, Killed, Sent("call"), Sent("delete"), Sent("me"),
                      [Resting EXCEPT !.at = "refresh", !.kind = "renew"],
                      [Resting EXCEPT !.at = "refresh", !.kind = "warm"],
                      [Resting EXCEPT !.at = "unread"], [Resting EXCEPT !.at = "erase"]}
    <3>1. CASE Discard(p) \/ Erase(p)
      BY <3>1, DiscardLeaves
    <3> QED
      BY <1>0, <1>2, <3>1 DEF Call, Resume, Launch, Kill, GateThrows, AskErase, MakeKeys,
         PublishKeys
  <2> QED
    BY <2>1, GivenNothing, KnowsNothing
<1>3. CASE Authenticate(p) \/ Handle(p) \/ Gate(p)
  BY <1>0, <1>3, AuthenticateKnows, HandleKnows, GateRefuses
<1>4. CASE \/ Refused(p) \/ ReadSession(p) \/ ExtendSession(p) \/ Renewed(p) \/ Rejected(p)
           \/ CallFails(p)
  BY <1>0, <1>4, RenewalKnows
<1>5. CASE \E v \in Verifiers : SignIn(p, v)
  BY <1>5, SignInKnows
<1> QED
  BY <1>1, <1>2, <1>3, <1>4, <1>5 DEF PhoneStep

-----------------------------------------------------------------------------
(***************************************************************************)
(* The inductive invariant, and what follows from it.                      *)
(***************************************************************************)

\* It holds at the start.
LEMMA SInvInit == SessionInit => SInv
<1> SUFFICES ASSUME SessionInit PROVE SInv
  OBVIOUS
<1>1. Typed
  BY TypedInit
<1>2. CodesFresh
  BY Numbers DEF SessionInit, CodesFresh, Code
<1>3. Budget
  <2>1. MaxAttempts * 0 = 0 /\ MaxRequests * 0 = 0
    BY Numbers
  <2> QED
    BY <2>1 DEF SessionInit, Budget, GuessesLeft, RequestsLeft
<1>4. AccountsCounted
  BY Numbers DEF SessionInit, AccountsCounted, Known, NoRow, Quiet
<1>5. TokensOwned
  BY DEF SessionInit, TokensOwned, NoCred
<1>6. Expiries
  BY Numbers DEF SessionInit, Expiries, NoRow, NoCred, Resting, Quiet, Row, None
<1>7. RejectedDead
  BY DEF SessionInit, RejectedDead, Resting
<1>8. RowsKnown
  BY DEF SessionInit, RowsKnown, NoRow
<1>9. GateKnows
  BY DEF SessionInit, GateKnows, Knows, Resting
<1> QED
  BY <1>1, <1>2, <1>3, <1>4, <1>5, <1>6, <1>7, <1>8, <1>9 DEF SInv

\* Every step keeps it.
LEMMA SInvStep == ASSUME SInv, [SessionNext]_sessionVars PROVE SInv'
BY TypedStep, FreshStep, BudgetStep, AccountsStep, OwnedStep, ExpiriesStep, RejectedStep,
   RowsKnownStep, GateStep DEF SInv

\* It holds in every behaviour.
THEOREM SessionsInvariant == SessionSpec => []SInv
BY SInvInit, SInvStep, PTL DEF SessionSpec

\* No phone takes a session for longer lived than the server does, whatever
\* write of its three it was stopped after.
THEOREM SessionsExpiryHonest == SessionSpec => []ExpiryHonest
<1>1. SInv => ExpiryHonest
  BY DEF SInv, Expiries, ExpiryHonest
<1> QED
  BY <1>1, SessionsInvariant, PTL

\* Credentials are discarded only when the server cannot accept them any more,
\* or the vault is not the session's, or the key store cannot be read: the gate
\* was asked for the account whose keys the phone has, whatever the network told
\* of it or did not.
THEOREM SessionsDiscardDeadOnly == SessionSpec => DiscardsDeadOnly
<1> DEFINE Dead(p) == \/ ~Found(cred[p].refresh) \/ Expired(cred[p].refresh)
                      \/ task[p].at = "unread" \/ (task[p].at = "shut" /\ ~Attributed(p))
                      \/ task[p].at = "erase"
<1>1. ASSUME SInv, [SessionNext]_sessionVars,
             NEW p \in Phones, cred[p].refresh # 0, cred'[p].refresh = 0
      PROVE  Dead(p)
  <2>1. CASE Rejected(p)
    BY <1>1, <2>1 DEF SInv, RejectedDead, Rejected
  <2>2. CASE Discard(p)
    BY <1>1, <2>2 DEF SInv, GateKnows, Knows, Discard
  <2>3. CASE Erase(p)
    BY <2>3 DEF Erase
  <2>4. ASSUME NEW v \in Verifiers, SignIn(p, v) PROVE verify[v].token # 0
    <3>1. verify[v] # Quiet
      BY <2>4 DEF SignIn, Quiet
    <3> QED
      BY <1>1, <3>1 DEF SInv, TokensOwned
  <2> QED
    BY <1>1, <2>1, <2>2, <2>3, <2>4, CredMoves DEF SInv
<1>2. SInv /\ [SessionNext]_sessionVars =>
        [\A p \in Phones : cred[p].refresh # 0 /\ cred'[p].refresh = 0
                             => Dead(p)]_sessionVars
  BY <1>1
<1> QED
  BY <1>2, SessionsInvariant, PTL DEF SessionSpec, DiscardsDeadOnly

\* Only Authenticate admits a request, and only for an account that is not
\* being deleted.
THEOREM SessionsShutDeletedOut == SessionSpec => DeletedShutOut
<1>1. ASSUME SInv, [SessionNext]_sessionVars,
             NEW p \in Phones, task[p].at = "sent", task'[p].at = "admitted"
      PROVE  task'[p].acct \in users.live
  <2>0. task \in [Phones -> Tasks] /\ Typed
    BY <1>1 DEF SInv, Typed, SessionTypeOK
  <2>1. Authenticate(p)
    BY <1>1, <2>0, TaskMoves, ReadOutcome, ExtendOutcome DEF Over
  <2>2. \/ /\ Row(cred[p].token).acct \in users.live
           /\ task' = [task EXCEPT ![p].at = "admitted", ![p].acct = Row(cred[p].token).acct]
        \/ task' = [task EXCEPT ![p].at = "refused"]
    BY <2>1 DEF Authenticate, Found
  <2> QED
    BY <1>1, <2>0, <2>2 DEF Tasks
<1>2. SInv /\ [SessionNext]_sessionVars =>
        [\A p \in Phones : task[p].at = "sent" /\ task'[p].at = "admitted"
                             => task'[p].acct \in users.live]_sessionVars
  BY <1>1
<1> QED
  BY <1>2, SessionsInvariant, PTL DEF SessionSpec, DeletedShutOut

-----------------------------------------------------------------------------
(***************************************************************************)
(* Codes, sessions and accounts implement SignInPromise.                   *)
(***************************************************************************)

PromiseStep == [Promise!Next]_(Promise!promised)

\* What SignInPromise does not speak of may change.
LEMMA QuietInPromise ==
    ASSUME UNCHANGED <<tally.codes, otp.code, UnderWay, Owners, tally.accounts,
                        users.live, users.deleting>>
    PROVE  PromiseStep
BY DEF PromiseStep, Promise!promised, Promise!codes, Promise!accounts

\* Sign-ins that stay as they are.
LEMMA WayStays == ASSUME verify' = verify PROVE UnderWay' = UnderWay
BY DEF UnderWay

\* A sign-in that moves on keeps its code under way.
LEMMA WayGoesOn ==
    ASSUME Typed, NEW v \in Verifiers, verify[v].at \in {"checked", "new", "known"},
           verify'[v].at \in {"checked", "new", "known"}, verify'[v].token = verify[v].token,
           \A w \in Verifiers \ {v} : verify'[w] = verify[w]
    PROVE  UnderWay' = UnderWay
BY DEF UnderWay

\* One that ends, or has its session, takes its code and no other along.
LEMMA WayEnds ==
    ASSUME Typed, TokensOwned, NEW v \in Verifiers, verify[v] # Quiet,
           verify'[v].at \notin {"checked", "new", "known"},
           \A w \in Verifiers \ {v} : verify'[w] = verify[w]
    PROVE  /\ UnderWay' = UnderWay \ {verify[v].token}
           /\ verify[v].at \in {"checked", "new", "known"} <=> verify[v].token \in UnderWay
<1>1. \A w \in Verifiers \ {v} : verify[w].at \in {"checked", "new", "known"}
         => verify[w].token # verify[v].token
  BY DEF TokensOwned
<1> QED
  BY <1>1 DEF UnderWay

\* So a sign-in that ends is abandoned, or had its session.
LEMMA EndsInPromise ==
    ASSUME Typed, TokensOwned, NEW v \in Verifiers, verify[v] # Quiet,
           verify' = [verify EXCEPT ![v] = Quiet],
           UNCHANGED <<tally.codes, otp.code, Owners, tally.accounts, users>>
    PROVE  PromiseStep
<1>1. verify'[v].at \notin {"checked", "new", "known"} /\ \A w \in Verifiers \ {v} : verify'[w] = verify[w]
  BY DEF Typed, SessionTypeOK, Quiet
<1>2. /\ UnderWay' = UnderWay \ {verify[v].token}
      /\ verify[v].at \in {"checked", "new", "known"} <=> verify[v].token \in UnderWay
  BY <1>1, WayEnds
<1>3. CASE verify[v].token \in UnderWay
  <2>1. Promise!Abandon(verify[v].token)
    BY <1>2 DEF Promise!Abandon, Promise!codes, Promise!accounts
  <2> QED
    BY <1>3, <2>1 DEF PromiseStep, Promise!Next
<1>4. CASE verify[v].token \notin UnderWay
  BY <1>2, <1>4, QuietInPromise
<1> QED
  BY <1>3, <1>4

\* Asking for codes, storing and mailing them, and expiries.
LEMMA CodesInPromise ==
    ASSUME Typed, Ask \/ StoreCode \/ StoreFails \/ CodeExpires \/ WindowExpires
                  \/ \E c \in Code : SendCode(c)
    PROVE  PromiseStep
<1> USE CounterTypes, TallySteps
<1>0. UNCHANGED <<UnderWay, Owners, users>>
  BY WayStays DEF Ask, StoreCode, StoreFails, CodeExpires, WindowExpires, SendCode, Owners
<1>1. CASE StoreCode
  <2>1. otp'.code = tally.codes + 1 /\ tally'.codes = tally.codes + 1
        /\ tally'.accounts = tally.accounts
    BY <1>1 DEF StoreCode
  <2>2. Promise!Issue
    BY <1>0, <2>1 DEF Promise!Issue, Promise!accounts
  <2> QED
    BY <2>2 DEF PromiseStep, Promise!Next
<1>2. CASE CodeExpires
  <2>1. otp'.code = 0 /\ tally' = tally
    BY <1>2 DEF CodeExpires
  <2>2. Promise!Lapse
    BY <1>0, <2>1 DEF Promise!Lapse, Promise!accounts
  <2> QED
    BY <2>2 DEF PromiseStep, Promise!Next
<1>3. CASE Ask
  <2>1. otp' = otp /\ tally'.codes = tally.codes /\ tally'.accounts = tally.accounts
    BY <1>3 DEF Ask
  <2> QED
    BY <1>0, <2>1, QuietInPromise
<1>4. CASE StoreFails \/ WindowExpires \/ \E c \in Code : SendCode(c)
  <2>1. otp' = otp /\ tally' = tally
    BY <1>4 DEF StoreFails, WindowExpires, SendCode
  <2> QED
    BY <1>0, <2>1, QuietInPromise
<1> QED
  BY <1>1, <1>2, <1>3, <1>4

\* A guess takes the open code, burns it, or only counts.
LEMMA CheckInPromise ==
    ASSUME Typed, NEW v \in Verifiers, CheckCode(v)
    PROVE  PromiseStep
<1> USE CounterTypes
<1>0. UNCHANGED <<Owners, users>> /\ verify[v] = Quiet
  BY DEF CheckCode, Owners
<1>1. CASE /\ otp.code \in Code /\ otp' = Spent
           /\ verify' = [verify EXCEPT ![v] = [at |-> "checked", acct |-> 0, token |-> otp.code]]
           /\ tally' = [tally EXCEPT !.uses[otp.code] = @ + 1]
  <2>1. tally'.codes = tally.codes /\ tally'.accounts = tally.accounts
    <3>1. tally' = [tally EXCEPT !.uses = [tally.uses EXCEPT ![otp.code] = @ + 1]]
      BY <1>1
    <3> QED
      BY <3>1, TallySteps
  <2>2. UnderWay' = UnderWay \cup {otp.code}
    <3>1. /\ verify'[v].at = "checked" /\ verify'[v].token = otp.code
          /\ verify[v].at = "idle" /\ \A w \in Verifiers \ {v} : verify'[w] = verify[w]
      BY <1>0, <1>1 DEF Typed, SessionTypeOK, Quiet
    <3> QED
      BY <3>1 DEF UnderWay
  <2>3. Promise!Accept
    BY <1>0, <1>1, <2>1, <2>2 DEF Promise!Accept, Promise!accounts, Spent
  <2> QED
    BY <2>3 DEF PromiseStep, Promise!Next
<1>2. CASE /\ otp' = IF Burns THEN [code |-> 0, misses |-> 0]
                     ELSE [otp EXCEPT !.misses = @ + 1]
           /\ tally' = [tally EXCEPT !.misses = @ + 1]
           /\ UNCHANGED verify
  <2>1. tally'.codes = tally.codes /\ tally'.accounts = tally.accounts
    <3>1. tally' = [tally EXCEPT !.misses = tally.misses + 1] /\ tally.misses + 1 \in Nat
      BY <1>2
    <3> QED
      BY <3>1, TallySteps
  <2>2. UnderWay' = UnderWay
    BY <1>2, WayStays
  <2>3. CASE otp'.code = 0
    <3>1. Promise!Lapse
      BY <1>0, <2>1, <2>2, <2>3 DEF Promise!Lapse, Promise!accounts
    <3> QED
      BY <3>1 DEF PromiseStep, Promise!Next
  <2>4. CASE otp'.code = otp.code
    BY <1>0, <2>1, <2>2, <2>4, QuietInPromise
  <2> QED
    BY <1>2, <2>3, <2>4
<1> QED
  BY <1>1, <1>2, CheckOutcome

\* Looking the account up goes on or ends the sign-in.
LEMMA LookUpInPromise ==
    ASSUME Typed, TokensOwned, NEW v \in Verifiers, LookUp(v) \/ VerifyFails(v)
    PROVE  PromiseStep
<1>0. /\ UNCHANGED <<tally.codes, otp.code, Owners, tally.accounts, users>>
      /\ verify \in [Verifiers -> SignIns] /\ verify[v] # Quiet
  BY DEF LookUp, VerifyFails, codeVars, Owners, Typed, SessionTypeOK, Quiet
<1>1. CASE verify' = [verify EXCEPT ![v] = Quiet]
  BY <1>0, <1>1, EndsInPromise
<1>2. CASE verify[v].at = "checked"
           /\ \/ \E a \in users.live : verify' = [verify EXCEPT ![v].at = "known", ![v].acct = a]
              \/ verify' = [verify EXCEPT ![v].at = "new"]
  <2>1. /\ verify'[v].at \in {"checked", "new", "known"} /\ verify'[v].token = verify[v].token
        /\ \A w \in Verifiers \ {v} : verify'[w] = verify[w]
    BY <1>0, <1>2 DEF SignIns
  <2> QED
    BY <1>0, <1>2, <2>1, WayGoesOn, QuietInPromise
<1> QED
  BY <1>1, <1>2 DEF LookUp, VerifyFails

\* The one account of an address is registered when it has none.
LEMMA RegisterInPromise ==
    ASSUME Typed, TokensOwned, NEW v \in Verifiers, CreateUser(v)
    PROVE  PromiseStep
<1> USE CounterTypes
<1>0. /\ UNCHANGED <<otp, Owners, tally.codes>> /\ verify \in [Verifiers -> SignIns]
      /\ verify[v].at = "new" /\ verify[v] # Quiet
  BY UserTally DEF CreateUser, codeVars, Owners, Typed, SessionTypeOK, Quiet
<1>1. CASE ~EmailFree
  <2>1. verify' = [verify EXCEPT ![v] = Quiet] /\ UNCHANGED <<users, tally>>
    BY <1>1 DEF CreateUser
  <2> QED
    BY <1>0, <2>1, EndsInPromise
<1>2. CASE EmailFree
  <2>1. /\ users' = [users EXCEPT !.live = @ \cup {tally.accounts + 1}]
        /\ verify' = [verify EXCEPT ![v].at = "known", ![v].acct = tally.accounts + 1]
        /\ tally' = [tally EXCEPT !.accounts = tally.accounts + 1]
    BY <1>2 DEF CreateUser
  <2>2. UnderWay' = UnderWay
    <3>1. /\ verify'[v].at = "known" /\ verify'[v].token = verify[v].token
          /\ \A w \in Verifiers \ {v} : verify'[w] = verify[w]
      BY <1>0, <2>1 DEF SignIns
    <3> QED
      BY <1>0, <3>1, WayGoesOn
  <2>3. tally'.accounts = tally.accounts + 1
    BY <2>1, TallySteps
  <2>4. users.live = {} /\ users.deleting = {}
    BY <1>2 DEF EmailFree, Known
  <2>5. users'.live = {tally.accounts + 1} /\ users'.deleting = users.deleting
    BY <2>1, <2>4, RecordTypes
  <2>6. Promise!Register
    BY <1>0, <2>2, <2>3, <2>4, <2>5 DEF Promise!Register, Promise!codes
  <2> QED
    BY <2>6 DEF PromiseStep, Promise!Next
<1> QED
  BY <1>1, <1>2

\* The INSERT opens the session of a code under way.
LEMMA InsertInPromise ==
    ASSUME Typed, TokensOwned, NEW v \in Verifiers, InsertSession(v)
    PROVE  PromiseStep
<1>0. /\ UNCHANGED <<otp, tally, users>> /\ verify \in [Verifiers -> SignIns]
      /\ verify[v].at = "known" /\ verify[v] # Quiet /\ sessions \in [Token -> Rows]
  BY DEF InsertSession, codeVars, Typed, SessionTypeOK, Quiet
<1>1. CASE verify[v].acct \notin Known
  <2>1. verify' = [verify EXCEPT ![v] = Quiet] /\ Owners' = Owners
    BY <1>1 DEF InsertSession, Owners
  <2> QED
    BY <1>0, <2>1, EndsInPromise
<1>2. CASE verify[v].acct \in Known
  <2> DEFINE t == verify[v].token
             a == verify[v].acct
  <2>1. /\ sessions' = [sessions EXCEPT ![t] = [acct |-> a, exp |-> day + SessionTTL]]
        /\ verify' = [verify EXCEPT ![v].at = "answer"]
    BY <1>2 DEF InsertSession
  <2>2. /\ verify'[v].at \notin {"checked", "new", "known"}
        /\ \A w \in Verifiers \ {v} : verify'[w] = verify[w]
    BY <1>0, <2>1 DEF SignIns
  <2>3. UnderWay' = UnderWay \ {t} /\ t \in UnderWay
    BY <1>0, <2>2, WayEnds
  <2>4. Owners' = [Owners EXCEPT ![t] = a]
    <3>1. t \in Token
      BY <1>0, RecordTypes DEF TokensOwned
    <3> QED
      BY <1>0, <2>1, <3>1 DEF Owners
  <2>5. Promise!OpenSession(t, a)
    BY <1>0, <2>3, <2>4 DEF Promise!OpenSession, Promise!codes, Promise!accounts
  <2> QED
    BY <1>2, <2>3, <2>5 DEF PromiseStep, Promise!Next, Known
<1> QED
  BY <1>1, <1>2

\* Accepting a deletion ends the account's sessions, its end those opened since;
\* a refresh opens and ends none.
LEMMA RowsInPromise ==
    ASSUME Typed, FinishAccount \/ \E p \in Phones : Handle(p) \/ ExtendSession(p)
    PROVE  PromiseStep
<1>0. UNCHANGED <<otp, tally, verify>> /\ sessions \in [Token -> Rows]
  BY DEF FinishAccount, Handle, ExtendSession, codeVars, Typed, SessionTypeOK
<1>w. UnderWay' = UnderWay
  BY <1>0, WayStays
<1>t. Token = Code
  BY DEF Token
<1>1. CASE FinishAccount
  <2>1. users' = [users EXCEPT !.deleting = {}, !.identified = @ \ users.deleting]
        /\ sessions' = [t \in Token |-> IF sessions[t].acct \in users.deleting THEN NoRow ELSE sessions[t]]
    BY <1>1 DEF FinishAccount
  <2>2. users'.deleting = {} /\ users'.live = users.live
    BY <2>1, RecordTypes
  <2>3. Owners' = [c \in Code |-> IF Owners[c] \in users.deleting THEN 0 ELSE Owners[c]]
    BY <1>t, <2>1 DEF Owners, NoRow
  <2>4. Promise!Finish
    BY <1>0, <1>w, <2>2, <2>3 DEF Promise!Finish, Promise!Without, Promise!codes
  <2> QED
    BY <2>4 DEF PromiseStep, Promise!Next
<1>2. ASSUME NEW p \in Phones, Handle(p) PROVE PromiseStep
  <2> DEFINE a == task[p].acct
  <2>1. CASE UNCHANGED <<users, sessions>>
    BY <1>0, <1>w, <2>1, QuietInPromise DEF Owners
  <2>2. CASE /\ a \in users.live
             /\ users' = [live |-> users.live \ {a}, deleting |-> users.deleting \cup {a},
                          identified |-> users.identified]
             /\ sessions' = [t \in Token |-> IF sessions[t].acct = a THEN NoRow ELSE sessions[t]]
    <3>1. Owners' = [c \in Code |-> IF Owners[c] \in {a} THEN 0 ELSE Owners[c]]
      BY <1>t, <2>2 DEF Owners, NoRow
    <3>2. Promise!Delete(a)
      BY <1>0, <1>w, <2>2, <3>1 DEF Promise!Delete, Promise!Without, Promise!codes
    <3> QED
      BY <2>2, <3>2 DEF PromiseStep, Promise!Next
  <2> QED
    BY <1>2, <2>1, <2>2, RecordTypes DEF Handle
<1>3. ASSUME NEW p \in Phones, ExtendSession(p) PROVE PromiseStep
  <2>1. \A t \in Token : sessions'[t].acct = sessions[t].acct
    <3>1. CASE sessions' = sessions
      BY <3>1
    <3>2. CASE sessions' # sessions
      <4> DEFINE r == cred[p].refresh
      <4>1. /\ r \in Token
            /\ sessions'[r] = [acct |-> sessions[r].acct, exp |-> task[p].exp]
            /\ \A t \in Token \ {r} : sessions'[t] = sessions[t]
        BY <1>3, <3>2, RowExtended
      <4>2. sessions'[r].acct = sessions[r].acct
        BY <4>1
      <4> QED
        BY <4>1, <4>2
    <3> QED
      BY <3>1, <3>2
  <2>2. Owners' = Owners /\ users' = users
    BY <1>3, <2>1 DEF Owners, ExtendSession
  <2> QED
    BY <1>0, <1>w, <2>2, QuietInPromise
<1> QED
  BY <1>1, <1>2, <1>3

\* Signing in with codes keeps the promise, over any number of concurrent
\* sign-ins, phones and failures, and a deletion of the account among them.
THEOREM SessionsKeepSignInPromise == SessionSpec => KeepsSignInPromise
<1>1. SessionInit => Promise!Init
  <2> SUFFICES ASSUME SessionInit PROVE Promise!Init
    OBVIOUS
  <2>1. UnderWay = {} /\ Owners = [t \in Code |-> 0]
    BY DEF SessionInit, UnderWay, Owners, Quiet, NoRow, Token
  <2> QED
    BY <2>1 DEF SessionInit, Promise!Init
<1>2. SInv /\ [SessionNext]_sessionVars => PromiseStep
  <2> SUFFICES ASSUME Typed, TokensOwned, [SessionNext]_sessionVars PROVE PromiseStep
    BY DEF SInv
  <2>1. ASSUME NEW p \in Phones, NEW v \in Verifiers, SignIn(p, v) PROVE PromiseStep
    <3>1. /\ UNCHANGED <<tally.codes, otp.code, Owners, tally.accounts, users>>
          /\ verify[v] # Quiet /\ verify' = [verify EXCEPT ![v] = Quiet]
      BY <2>1 DEF SignIn, codeVars, Owners, Quiet
    <3> QED
      BY <3>1, EndsInPromise
  <2>2. ASSUME \/ \E p \in Phones : \/ Call(p) \/ Resume(p) \/ Authenticate(p) \/ Refused(p)
                                    \/ ReadSession(p) \/ Renewed(p) \/ Rejected(p)
                                    \/ CallFails(p) \/ Kill(p) \/ Launch(p) \/ Gate(p)
                                    \/ GateThrows(p) \/ Discard(p) \/ MakeKeys(p)
                                    \/ PublishKeys(p) \/ AskErase(p) \/ Erase(p)
               \/ NextDay \/ UNCHANGED sessionVars
        PROVE  PromiseStep
    <3>1. UNCHANGED <<otp, verify, users.live, users.deleting, sessions, tally>>
      BY <2>2, RecordTypes DEF Call, Resume, Authenticate, Refused, ReadSession, Renewed, Rejected,
         CallFails, Kill, Launch, Gate, GateThrows, Discard, MakeKeys, PublishKeys, AskErase,
         Erase, NextDay, sessionVars, codeVars, phoneVars
    <3> QED
      BY <3>1, WayStays, QuietInPromise DEF Owners
  <2> QED
    BY <2>1, <2>2, CodesInPromise, CheckInPromise, LookUpInPromise, RegisterInPromise,
       InsertInPromise, RowsInPromise DEF SessionNext
<1> QED
  BY <1>1, <1>2, SessionsInvariant, PTL
     DEF SessionSpec, KeepsSignInPromise, Promise!Spec, PromiseStep
=================================================================================
