-------------------------------- MODULE Sessions --------------------------------
(***************************************************************************)
(* Signing in with a mailed code, the sessions this creates, what phones   *)
(* do with theirs, and the gate between an account and the keys a phone    *)
(* holds: for one email address, several sign-ins at a time, and the       *)
(* deletion of the account among them.                                     *)
(*                                                                         *)
(* A step of the server is one Redis script or one SQL statement, and any  *)
(* of them may fail.  The minutes of codes and of the request window pass  *)
(* as expiry events, the days of sessions by the clock.  Codes, tokens and *)
(* accounts are numbers in the order of their creation; 0 is none, and a   *)
(* wrong code.  A phone does one thing at a time: its API calls share one  *)
(* refresh, and a renewal on resume is a call of its own.  Its process may *)
(* be killed between any two steps, and within the writes of one.          *)
(***************************************************************************)
EXTENDS Integers, FiniteSets

CONSTANTS Verifiers,     \* requests to verify a code, served concurrently
          Phones,        \* devices of the person who owns the address
          MaxAttempts,   \* wrong guesses that burn a code (5 in the code)
          MaxRequests,   \* codes allowed in a window (3)
          SessionTTL,    \* lifetime of a session (30 days)
          Window,        \* a session this close to its end is renewed (7 days)
          MaxDay,        \* bound: the clock
          MaxCodes,      \* bound: codes stored
          MaxWindows,    \* bound: request windows opened
          MaxAccounts    \* bound: accounts created

ASSUME CodeLimits == MaxAttempts \in Nat \ {0} /\ MaxRequests \in Nat \ {0}
ASSUME SessionTimes == SessionTTL \in Nat /\ Window \in Nat
ASSUME SessionBounds == {MaxDay, MaxCodes, MaxWindows, MaxAccounts} \subseteq Nat

Code == 1 .. MaxCodes
Token == Code                  \* a session is earned by a code
Account == 1 .. MaxAccounts
None == -1                     \* no expiry
Day == 0 .. MaxDay + SessionTTL

VARIABLES
    day,        \* for the server and for the phones
    otp,        \* otp:<email>, otp-attempts:<email>
    rate,       \* ratelimit:<email>: the count of the open window, or 0
    asking,     \* RequestOTP calls allowed, their code not yet stored
    mail,       \* codes by where they are: stored only, being mailed, mailed
    verify,     \* VerifyOTP calls
    users,      \* the users rows of this address: live, deleting; identified
                \* are those with a published identity
    sessions,   \* sessions rows by token
    cred,       \* miuchio's stored token, refresh token, expiry and user id
    vault,      \* the account a phone's keys are bound to, what is left of the
                \* keys, and the account they were published for
    screen,     \* the sign-in, the app, or the page of an account without keys
    task,       \* the phone's API call, renewal, launch or gate
    tally       \* history: windows, misses, uses of each code, accounts, tokens

codeVars == <<otp, rate, asking, mail>>
phoneVars == <<cred, vault, screen, task>>
sessionVars == <<day, codeVars, verify, users, sessions, phoneVars, tally>>

NoRow == [acct |-> 0, exp |-> 0]
NoCred == [token |-> 0, refresh |-> 0, exp |-> None, user |-> 0]
Resting == [at |-> "idle", kind |-> "call", acct |-> 0, exp |-> None, again |-> FALSE,
            user |-> 0, seen |-> "unavailable"]
Killed == [Resting EXCEPT !.at = "off"]
Sent(k) == [Resting EXCEPT !.at = "sent", !.kind = k]
Shut == [Resting EXCEPT !.at = "shut"]
AtGate(u, seen) == [Resting EXCEPT !.at = "gate", !.user = u, !.seen = seen]
NoVault == [owner |-> 0, keys |-> "none", pub |-> 0]
Seen == {"unavailable", "unpublished", "ours", "theirs"}
Quiet == [at |-> "idle", acct |-> 0, token |-> 0]

Row(t) == IF t = 0 THEN NoRow ELSE sessions[t]
Known == users.live \cup users.deleting

\* StorageService.isValid: what opens the app and not the sign-in.
Valid(c) == c.token # 0 /\ c.exp # None /\ day < c.exp

\* renewIfDue: the expiry is known, and within the window.
RenewalDue(c) == c.exp # None /\ c.exp < day + Window

-----------------------------------------------------------------------------
(***************************************************************************)
(* Conditions of the code.  No action uses a slip.                         *)
(***************************************************************************)

ChecksThenCounts == FALSE
\* CheckOTP counts every miss, and the last allowed one burns the code.
Burns == otp.misses + 1 >= MaxAttempts

\* CheckRateLimit: the count it left is at most the limit.
Allowed == rate + 1 <= MaxRequests

LeavesCode == otp
\* CheckOTP deletes code and count on a match.
Spent == [code |-> 0, misses |-> 0]

TakesAnyEmail == TRUE
\* The unique index on users.email_hmac.
EmailFree == Known = {}

AnyRow(t) == Row(t).acct # 0
\* GetByToken and ExtendByToken: the row, joined to a user not being deleted.
Found(t) == Row(t).acct \in users.live

KeepsRow(t, e) == sessions
\* ExtendByToken moves the expiry of the row.
Extended(t, e) == [sessions EXCEPT ![t].exp = e]

Expired(t) == day > Row(t).exp

NeverOffline(v, u) == FALSE
\* The owner marker lets an attributed vault open offline.
OpensOffline(v, u) == v.owner = u

-----------------------------------------------------------------------------
(***************************************************************************)
(* Asking for a code.                                                      *)
(***************************************************************************)

\* CheckRateLimit; the first count of a window starts it.
Ask ==
    /\ rate <= MaxRequests
    /\ rate = 0 => tally.windows < MaxWindows
    /\ rate' = rate + 1
    /\ asking' = IF Allowed THEN asking + 1 ELSE asking
    /\ tally' = [tally EXCEPT !.windows = IF rate = 0 THEN @ + 1 ELSE @]
    /\ UNCHANGED <<day, otp, mail, verify, users, sessions, phoneVars>>

\* SetOTP replaces the code and its misses; the answer may be lost.
StoreCode ==
    /\ asking > 0 /\ tally.codes < MaxCodes
    /\ LET c == tally.codes + 1 IN
       /\ otp' = [code |-> c, misses |-> 0]
       /\ \E m \in {"lost", "sending"} : mail' = [mail EXCEPT ![c] = m]
       /\ tally' = [tally EXCEPT !.codes = c]
    /\ asking' = asking - 1
    /\ UNCHANGED <<day, rate, verify, users, sessions, phoneVars>>

StoreFails ==
    /\ asking > 0
    /\ asking' = asking - 1
    /\ UNCHANGED <<day, otp, rate, mail, verify, users, sessions, phoneVars, tally>>

SendCode(c) ==
    /\ mail[c] = "sending"
    /\ \E m \in {"lost", "mailed"} : mail' = [mail EXCEPT ![c] = m]
    /\ UNCHANGED <<day, otp, rate, asking, verify, users, sessions, phoneVars, tally>>

CodeExpires ==
    /\ otp.code # 0
    /\ otp' = [code |-> 0, misses |-> 0]
    /\ UNCHANGED <<day, rate, asking, mail, verify, users, sessions, phoneVars, tally>>

WindowExpires ==
    /\ rate # 0
    /\ rate' = 0
    /\ UNCHANGED <<day, otp, asking, mail, verify, users, sessions, phoneVars, tally>>

-----------------------------------------------------------------------------
(***************************************************************************)
(* VerifyOTP.                                                              *)
(***************************************************************************)

\* Someone types a code they were mailed, or guesses.
CheckCode(v) ==
    /\ verify[v] = Quiet /\ otp.code # 0
    /\ \E c \in {x \in Code : mail[x] = "mailed"} \cup {0} :
        \/ /\ c = otp.code
           /\ otp' = Spent
           /\ verify' = [verify EXCEPT ![v] = [at |-> "checked", acct |-> 0, token |-> c]]
           /\ tally' = [tally EXCEPT !.uses[c] = @ + 1]
        \/ /\ c # otp.code
           /\ otp' = IF Burns THEN [code |-> 0, misses |-> 0]
                     ELSE [otp EXCEPT !.misses = @ + 1]
           /\ tally' = [tally EXCEPT !.misses = @ + 1]
           /\ UNCHANGED verify
    /\ UNCHANGED <<day, rate, asking, mail, users, sessions, phoneVars>>

\* GetByEmailHMAC and the test of deleting_at.
LookUp(v) ==
    /\ verify[v].at = "checked"
    /\ \/ \E a \in users.live :
            verify' = [verify EXCEPT ![v].at = "known", ![v].acct = a]
       \/ users.deleting # {} /\ verify' = [verify EXCEPT ![v] = Quiet]
       \/ Known = {} /\ verify' = [verify EXCEPT ![v].at = "new"]
    /\ UNCHANGED <<day, codeVars, users, sessions, phoneVars, tally>>

\* createWithMiuchioID redraws a taken miuchio id; another account of the
\* address is an error.
CreateUser(v) ==
    /\ verify[v].at = "new"
    /\ \/ /\ EmailFree /\ tally.accounts < MaxAccounts
          /\ LET a == tally.accounts + 1 IN
             /\ users' = [users EXCEPT !.live = @ \cup {a}]
             /\ verify' = [verify EXCEPT ![v].at = "known", ![v].acct = a]
             /\ tally' = [tally EXCEPT !.accounts = a]
       \/ /\ ~EmailFree
          /\ verify' = [verify EXCEPT ![v] = Quiet]
          /\ UNCHANGED <<users, tally>>
    /\ UNCHANGED <<day, codeVars, sessions, phoneVars>>

\* The session INSERT; its user_id references the users row.
InsertSession(v) ==
    /\ verify[v].at = "known"
    /\ \/ /\ verify[v].acct \in Known
          /\ sessions' = [sessions EXCEPT ![verify[v].token] =
                            [acct |-> verify[v].acct, exp |-> day + SessionTTL]]
          /\ verify' = [verify EXCEPT ![v].at = "answer"]
       \/ /\ verify[v].acct \notin Known
          /\ verify' = [verify EXCEPT ![v] = Quiet]
          /\ UNCHANGED sessions
    /\ UNCHANGED <<day, codeVars, users, phoneVars, tally>>

\* A statement fails, the answer is lost, or admits refuses the account.
VerifyFails(v) ==
    /\ verify[v] # Quiet
    /\ verify' = [verify EXCEPT ![v] = Quiet]
    /\ UNCHANGED <<day, codeVars, users, sessions, phoneVars, tally>>

-----------------------------------------------------------------------------
(***************************************************************************)
(* The phone, and the server's half of its calls.                          *)
(***************************************************************************)

\* The writes of saveAuth and then of saveUserId, and the deletes of deleteAuth,
\* after n of them.
Written(c, new, n) == [token   |-> IF n >= 1 THEN new.token ELSE c.token,
                       refresh |-> IF n >= 2 THEN new.refresh ELSE c.refresh,
                       exp     |-> IF n >= 3 THEN new.exp ELSE c.exp,
                       user    |-> IF n >= 4 THEN new.user ELSE c.user]

\* All of them, and what follows; or the process is killed after some.
Store(p, new, next, shown) ==
    \E n \in 1 .. 4 :
        /\ cred' = [cred EXCEPT ![p] = Written(@, new, n)]
        /\ task' = [task EXCEPT ![p] = IF n = 4 THEN next ELSE Killed]
        /\ screen' = [screen EXCEPT ![p] = IF n = 4 THEN shown ELSE "sign-in"]

\* commit, after the gate's admits; resolve then asks for the server's keys.
SignIn(p, v) ==
    /\ screen[p] # "app" /\ task[p] = Resting /\ verify[v].at = "answer"
    /\ vault[p].owner \in {0, verify[v].acct}
    /\ LET t == verify[v].token
           a == verify[v].acct IN
       Store(p, [token |-> t, refresh |-> t, exp |-> Row(t).exp, user |-> a],
             [Sent("keys") EXCEPT !.user = a], "sign-in")
    /\ verify' = [verify EXCEPT ![v] = Quiet]
    /\ UNCHANGED <<day, codeVars, users, sessions, vault, tally>>

\* The page of an account without keys only offers to delete it.
Call(p) ==
    /\ screen[p] # "sign-in" /\ task[p] = Resting /\ cred[p].token # 0
    /\ \E k \in {"call", "delete"} :
         /\ screen[p] = "lost" => k = "delete"
         /\ task' = [task EXCEPT ![p] = Sent(k)]
    /\ UNCHANGED <<day, codeVars, verify, users, sessions, cred, vault, screen, tally>>

\* renewIfDue, when the app is resumed, on whatever screen.
Resume(p) ==
    /\ task[p] = Resting /\ RenewalDue(cred[p])
    /\ task' = [task EXCEPT ![p] = [Resting EXCEPT !.at = "refresh", !.kind = "renew"]]
    /\ UNCHANGED <<day, codeVars, verify, users, sessions, cred, vault, screen, tally>>

\* A call is over.  A launch goes from its renewal to getMe, whose account or
\* else the stored one it takes to the gate; the gate asks for the server's keys.
Ends(p, user, seen) ==
    LET k == task[p].kind IN
    task' = [task EXCEPT ![p] =
        IF k = "warm" THEN Sent("me")
        ELSE IF k = "me" /\ user # 0 THEN [Sent("keys") EXCEPT !.user = user]
        ELSE IF k = "me" THEN Shut
        ELSE IF k = "keys" THEN AtGate(task[p].user, seen)
        ELSE Resting]

Fails(p) == Ends(p, cred[p].user, "unavailable")

\* The middleware answers 401 to a dead session, and to a failed lookup.
Authenticate(p) ==
    /\ task[p].at = "sent"
    /\ \/ /\ Found(cred[p].token) /\ ~Expired(cred[p].token)
          /\ task' = [task EXCEPT ![p].at = "admitted", ![p].acct = Row(cred[p].token).acct]
       \/ task' = [task EXCEPT ![p].at = "refused"]
    /\ UNCHANGED <<day, codeVars, verify, users, sessions, cred, vault, screen, tally>>

\* What fetchOwnKeys tells of account a, against the keys in the phone.
ServerKeys(p, a) == IF a \notin users.identified THEN "unpublished"
                    ELSE IF vault[p].pub = a THEN "ours" ELSE "theirs"

\* The handler of the call, and its answer.  Accept revokes the account's
\* sessions; the account getMe tells is stored without waiting for it.
Handle(p) ==
    /\ task[p].at = "admitted"
    /\ LET a == task[p].acct IN
       /\ IF task[p].kind = "delete" /\ a \in users.live
          THEN /\ users' = [users EXCEPT !.live = @ \ {a}, !.deleting = @ \cup {a}]
               /\ sessions' = [t \in Token |-> IF sessions[t].acct = a THEN NoRow ELSE sessions[t]]
          ELSE UNCHANGED <<users, sessions>>
       /\ \/ task[p].kind = "me" /\ cred' = [cred EXCEPT ![p].user = a]
          \/ cred' = cred
       /\ Ends(p, a, ServerKeys(p, a))
    /\ UNCHANGED <<day, codeVars, verify, vault, screen, tally>>

\* A 401 leads to one refresh; a second one is the caller's error.
Refused(p) ==
    /\ task[p].at = "refused"
    /\ IF task[p].again THEN Fails(p) ELSE task' = [task EXCEPT ![p].at = "refresh"]
    /\ UNCHANGED <<day, codeVars, verify, users, sessions, cred, vault, screen, tally>>

Goes(p, at) == task' = [task EXCEPT ![p].at = at]

\* RefreshSession reads the session; a refresh that failed is not a 401.
ReadSession(p) ==
    /\ task[p].at = "refresh"
    /\ \/ /\ Found(cred[p].refresh) /\ ~Expired(cred[p].refresh)
          /\ task' = [task EXCEPT ![p].at = "extend", ![p].exp = day + SessionTTL]
       \/ (Found(cred[p].refresh) => Expired(cred[p].refresh)) /\ Goes(p, "rejected")
       \/ Fails(p)
    /\ UNCHANGED <<day, codeVars, verify, users, sessions, cred, vault, screen, tally>>

\* And extends it.
ExtendSession(p) ==
    /\ task[p].at = "extend"
    /\ \/ /\ Found(cred[p].refresh)
          /\ sessions' = Extended(cred[p].refresh, task[p].exp)
          /\ Goes(p, "renewed")
       \/ ~Found(cred[p].refresh) /\ Goes(p, "rejected") /\ UNCHANGED sessions
       \/ Fails(p) /\ UNCHANGED sessions
    /\ UNCHANGED <<day, codeVars, verify, users, cred, vault, screen, tally>>

\* Save what was renewed, and send the call again.
Renewed(p) ==
    /\ task[p].at = "renewed"
    /\ Store(p, [cred[p] EXCEPT !.token = cred[p].refresh, !.exp = task[p].exp],
             IF task[p].kind = "renew" THEN Resting
             ELSE IF task[p].kind = "warm" THEN Sent("me")
             ELSE [task[p] EXCEPT !.at = "sent", !.exp = None, !.again = TRUE], screen[p])
    /\ UNCHANGED <<day, codeVars, verify, users, sessions, vault, tally>>

\* Only an API call discards the credentials the server rejected; getMe leaves
\* no account to go to the gate with.
Rejected(p) ==
    /\ task[p].at = "rejected"
    /\ IF task[p].kind \in {"renew", "warm"} THEN Fails(p) /\ UNCHANGED <<cred, screen>>
       ELSE Store(p, NoCred,
                  IF task[p].kind = "me" THEN Shut
                  ELSE IF task[p].kind = "keys" THEN AtGate(task[p].user, "unavailable")
                  ELSE Resting, screen[p])
    /\ UNCHANGED <<day, codeVars, verify, users, sessions, vault, tally>>

\* The network fails, before or after the server was done.
CallFails(p) ==
    /\ task[p].at \in {"sent", "admitted", "refresh", "extend", "renewed"}
    /\ Fails(p)
    /\ UNCHANGED <<day, codeVars, verify, users, sessions, cred, vault, screen, tally>>

Kill(p) ==
    /\ task[p] # Killed
    /\ task' = [task EXCEPT ![p] = Killed]
    /\ screen' = [screen EXCEPT ![p] = "sign-in"]
    /\ UNCHANGED <<day, codeVars, verify, users, sessions, cred, vault, tally>>

\* The landing page shows the app at once, and warms the session behind it.
Launch(p) ==
    /\ task[p] = Killed
    /\ IF Valid(cred[p])
       THEN /\ task' = [task EXCEPT ![p] =
                          IF RenewalDue(cred[p])
                          THEN [Resting EXCEPT !.at = "refresh", !.kind = "warm"]
                          ELSE Sent("me")]
            /\ screen' = [screen EXCEPT ![p] = "app"]
       ELSE /\ task' = [task EXCEPT ![p] = Resting]
            /\ screen' = screen
    /\ UNCHANGED <<day, codeVars, verify, users, sessions, cred, vault, tally>>

-----------------------------------------------------------------------------
(***************************************************************************)
(* The gate: which account may use the keys in the phone.                  *)
(***************************************************************************)

\* classify, for a vault v, the account u and what the server told; adopted and
\* new accounts are bound, and a bound one stays.
Outcome(v, u, seen) ==
    IF v.owner \notin {0, u} \/ (v.owner = 0 /\ v.keys = "residue") THEN "refuse"
    ELSE IF v.keys # "whole"
         THEN IF seen = "unpublished" THEN "bind"
              ELSE IF seen = "unavailable" THEN "refuse" ELSE "lost"
    ELSE IF seen = "unavailable" THEN IF OpensOffline(v, u) THEN "admit" ELSE "refuse"
    ELSE IF seen = "unpublished" THEN IF v.owner = u THEN "bind" ELSE "refuse"
    ELSE IF seen = "ours" THEN "bind" ELSE "lost"

\* A refusal discards the credentials, except where the deletion of the account
\* needs the session.
Gate(p) ==
    /\ task[p].at = "gate"
    /\ LET o == Outcome(vault[p], task[p].user, task[p].seen) IN
       /\ vault' = IF o = "bind" THEN [vault EXCEPT ![p].owner = task[p].user] ELSE vault
       /\ task' = [task EXCEPT ![p] = IF o = "refuse" THEN Shut ELSE Resting]
       /\ screen' = [screen EXCEPT ![p] = IF o = "lost" THEN "lost"
                                          ELSE IF o = "refuse" THEN @ ELSE "app"]
    /\ UNCHANGED <<day, codeVars, verify, users, sessions, cred, tally>>

\* resolve throws: a launch takes it for a refusal, a sign-in keeps what it has.
GateThrows(p) ==
    /\ task[p].at = "gate"
    /\ task' = [task EXCEPT ![p] = IF screen[p] = "app" THEN [Resting EXCEPT !.at = "unread"]
                                   ELSE Resting]
    /\ UNCHANGED <<day, codeVars, verify, users, sessions, cred, vault, screen, tally>>

Discard(p) ==
    /\ task[p].at \in {"shut", "unread"}
    /\ Store(p, NoCred, Resting, "sign-in")
    /\ UNCHANGED <<day, codeVars, verify, users, sessions, vault, tally>>

\* bootstrap: the keys are made, and published once; another identity of the
\* account stays.
MakeKeys(p) ==
    /\ screen[p] = "app" /\ task[p] = Resting
    /\ vault[p].keys # "whole"
    /\ vault' = [vault EXCEPT ![p].keys = "whole"]
    /\ UNCHANGED <<day, codeVars, verify, users, sessions, cred, screen, task, tally>>

PublishKeys(p) ==
    /\ screen[p] = "app" /\ task[p] = Resting
    /\ vault[p].keys = "whole" /\ vault[p].pub = 0
    /\ Found(cred[p].token) /\ ~Expired(cred[p].token)
    /\ LET a == Row(cred[p].token).acct IN
       /\ a \notin users.identified
       /\ users' = [users EXCEPT !.identified = @ \cup {a}]
       /\ vault' = [vault EXCEPT ![p].pub = a]
    /\ UNCHANGED <<day, codeVars, verify, sessions, cred, screen, task, tally>>

\* The user erases the installation, or an accepted deletion does.
AskErase(p) ==
    /\ task[p] = Resting
    /\ task' = [task EXCEPT ![p].at = "erase"]
    /\ UNCHANGED <<day, codeVars, verify, users, sessions, cred, vault, screen, tally>>

\* A step that fails may leave rows of the shelf.
Erase(p) ==
    /\ task[p].at = "erase"
    /\ cred' = [cred EXCEPT ![p] = NoCred]
    /\ \E k \in {"none", "residue"} : vault' = [vault EXCEPT ![p] = [NoVault EXCEPT !.keys = k]]
    /\ task' = [task EXCEPT ![p] = Killed]
    /\ screen' = [screen EXCEPT ![p] = "sign-in"]
    /\ UNCHANGED <<day, codeVars, verify, users, sessions, tally>>

\* FinishAccount deletes the row; its sessions go with it.
FinishAccount ==
    /\ users.deleting # {}
    /\ users' = [users EXCEPT !.deleting = {}, !.identified = @ \ users.deleting]
    /\ sessions' = [t \in Token |-> IF sessions[t].acct \in users.deleting THEN NoRow
                                    ELSE sessions[t]]
    /\ UNCHANGED <<day, codeVars, verify, phoneVars, tally>>

\* A sign-in does not wait a day for its answer; anything else may.
NextDay ==
    /\ day < MaxDay /\ \A v \in Verifiers : verify[v] = Quiet
    /\ day' = day + 1
    /\ UNCHANGED <<codeVars, verify, users, sessions, phoneVars, tally>>

-----------------------------------------------------------------------------
SessionInit ==
    /\ day = 0 /\ otp = [code |-> 0, misses |-> 0] /\ rate = 0 /\ asking = 0
    /\ mail = [c \in Code |-> "lost"]
    /\ verify = [v \in Verifiers |-> Quiet]
    /\ users = [live |-> {}, deleting |-> {}, identified |-> {}]
    /\ sessions = [t \in Token |-> NoRow]
    /\ cred = [p \in Phones |-> NoCred]
    /\ vault \in [Phones -> {NoVault, [NoVault EXCEPT !.keys = "residue"],
                            [NoVault EXCEPT !.keys = "whole"]}]
    /\ screen = [p \in Phones |-> "sign-in"]
    /\ task = [p \in Phones |-> Resting]
    /\ tally = [windows |-> 0, codes |-> 0, misses |-> 0, accounts |-> 0,
                uses |-> [c \in Code |-> 0]]

SessionNext ==
    \/ Ask \/ StoreCode \/ StoreFails \/ CodeExpires \/ WindowExpires
    \/ \E c \in Code : SendCode(c)
    \/ \E v \in Verifiers : CheckCode(v) \/ LookUp(v) \/ CreateUser(v)
                            \/ InsertSession(v) \/ VerifyFails(v)
    \/ \E p \in Phones, v \in Verifiers : SignIn(p, v)
    \/ \E p \in Phones :
         \/ Call(p) \/ Resume(p) \/ Authenticate(p) \/ Handle(p) \/ Refused(p)
         \/ ReadSession(p) \/ ExtendSession(p) \/ Renewed(p) \/ Rejected(p)
         \/ CallFails(p) \/ Kill(p) \/ Launch(p) \/ Gate(p) \/ GateThrows(p)
         \/ Discard(p) \/ MakeKeys(p) \/ PublishKeys(p) \/ AskErase(p) \/ Erase(p)
    \/ FinishAccount \/ NextDay

SessionSpec == SessionInit /\ [][SessionNext]_sessionVars

-----------------------------------------------------------------------------
(***************************************************************************)
(* Properties.                                                             *)
(***************************************************************************)

Codes == [code : {0} \cup Code, misses : 0 .. MaxAttempts - 1]
Rows == [acct : {0} \cup Account, exp : Day]
SignIns == [at : {"idle", "checked", "new", "known", "answer"},
            acct : {0} \cup Account, token : {0} \cup Token]
Credentials == [token : {0} \cup Token, refresh : {0} \cup Token, exp : {None} \cup Day,
                user : {0} \cup Account]
Vaults == [owner : {0} \cup Account, keys : {"none", "residue", "whole"},
           pub : {0} \cup Account]
Tasks == [at : {"idle", "sent", "admitted", "refused", "refresh", "extend", "renewed",
                "rejected", "gate", "shut", "unread", "erase", "off"},
          kind : {"call", "delete", "renew", "warm", "me", "keys"},
          exp : {None} \cup Day, again : BOOLEAN, acct : {0} \cup Account,
          user : {0} \cup Account, seen : Seen]
Tallies == [windows : 0 .. MaxWindows, codes : {0} \cup Code, misses : Nat,
            accounts : {0} \cup Account, uses : [Code -> Nat]]

SessionTypeOK ==
    /\ day \in 0 .. MaxDay
    /\ otp \in Codes
    /\ rate \in 0 .. MaxRequests + 1 /\ asking \in Nat
    /\ mail \in [Code -> {"lost", "sending", "mailed"}]
    /\ verify \in [Verifiers -> SignIns]
    /\ users \in [live : SUBSET Account, deleting : SUBSET Account,
                  identified : SUBSET Account]
    /\ sessions \in [Token -> Rows]
    /\ cred \in [Phones -> Credentials]
    /\ vault \in [Phones -> Vaults]
    /\ screen \in [Phones -> {"sign-in", "app", "lost"}]
    /\ task \in [Phones -> Tasks]
    /\ tally \in Tallies

\* Guessing is bounded by the rate of codes, whatever the order in which
\* guesses, requests and expiries meet: every window of requests buys at most
\* MaxRequests codes, and every code at most MaxAttempts misses
\* (auth_service.go:26, "Wrong guesses allowed per code before it is burned").
GuessBudget == tally.misses <= MaxAttempts * MaxRequests * tally.windows

\* However many sign-ins race with it, a code is accepted once
\* (otp_repo.go:30, "A match consumes the code").
CodeAcceptedOnce == \A c \in Code : tally.uses[c] <= 1

\* Accepted codes from their check to the INSERT of their session, and the
\* accounts of the sessions: the state in the words of SignInPromise.
UnderWay == {verify[v].token :
             v \in {w \in Verifiers : verify[w].at \in {"checked", "new", "known"}}}
Owners == [t \in Token |-> sessions[t].acct]

Promise == INSTANCE SignInPromise
           WITH Codes <- Code, issued <- tally.codes, open <- otp.code, accepted <- UnderWay,
                owner <- Owners, created <- tally.accounts,
                live <- users.live, deleting <- users.deleting

\* Guesses, expiries, lost answers, concurrent sign-ins, refreshes and a deletion
\* among them never use a code twice, open a second session with it, revive a
\* session that ended, or give the address a second account
\* (otp_repo.go:30, "A match consumes the code").
KeepsSignInPromise == Promise!Spec

\* Two first sign-ins of an address, or one racing a deletion, never leave it
\* with two accounts, one of them out of the reach of every later sign-in.
OneAccount == Cardinality(Known) <= 1

\* A phone never takes a session for longer lived than the server's row, or it
\* would miss the renewal window and lose a session that cannot be refreshed
\* once it has expired (session_refresher.dart:18).
ExpiryHonest ==
    \A p \in Phones : Row(cred[p].refresh).acct # 0
                        => cred[p].exp <= Row(cred[p].refresh).exp

\* Once the deletion of an account was accepted no request is admitted for it,
\* not even with a session a racing sign-in inserted after the others were
\* revoked (session_repo.go:44).
DeletedShutOut ==
    [][\A p \in Phones : task[p].at = "sent" /\ task'[p].at = "admitted"
                           => task'[p].acct \in users.live]_sessionVars

\* The phone's vault is the session's: bound to its account, which is also the
\* stored user id, with a whole identity.
Attributed(p) ==
    /\ vault[p].owner # 0 /\ vault[p].keys = "whole"
    /\ vault[p].owner = cred[p].user /\ vault[p].owner = Row(cred[p].refresh).acct

\* A phone throws its credentials away only when the server cannot accept them
\* any more, unless its key store cannot be read at a launch, or the gate refuses
\* a vault that is not attributed to the account; so once the keys are bound and
\* made, no failing database or network costs the session, at a launch or later
\* (auth.go:118, "Return 401 only when the client should discard credentials";
\* account_gate.dart:70, "The owner marker lets an attributed vault open offline").
DiscardsDeadOnly ==
    [][\A p \in Phones :
         cred[p].refresh # 0 /\ cred'[p].refresh = 0
           => \/ ~Found(cred[p].refresh) \/ Expired(cred[p].refresh)
              \/ task[p].at = "unread" \/ (task[p].at = "shut" /\ ~Attributed(p))
              \/ task[p].at = "erase"]_sessionVars
=============================================================================
