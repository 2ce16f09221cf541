----------------------------- MODULE PrekeysProofs -----------------------------
(***************************************************************************)
(* What is proved about Prekeys for every pool size, period and skew, and  *)
(* every number of keys, calls and fetches: no rollback, no OPK twice, and *)
(* nothing advertised that the device cannot open.                         *)
(***************************************************************************)
EXTENDS Prekeys, FiniteSetTheorems, TLAPS

-----------------------------------------------------------------------------
(***************************************************************************)
(* The invariant.                                                          *)
(***************************************************************************)

Stamps == Time \cup {Never}
ServerKeys == [ik : 0 .. gen, spk : 0 .. minted, ts : Stamps,
               sig : (0 .. minted) \X Stamps]
OpkRows == [Idx -> [ik : {0, srv.ik}, used : BOOLEAN]]
Bundles == [Fetchers -> [st : {"none", "read", "popped", "done"}, opk : Idx \cup {Never}]]
Marks == [spkTs : Stamps, conflictTs : Stamps, identityPublished : BOOLEAN,
          opksPublished : BOOLEAN]
Calls == [kind : {"upsert", "rotate", "opks"}, ik : 0 .. gen, spk : 0 .. minted,
          ts : Stamps, idx : SUBSET Idx, by : {"boot", "settle", "refill"},
          heard : BOOLEAN, admitted : BOOLEAN]
Bootings == [at : {"idle", "publish", "wait", "setSpkTs", "markIdentity", "opks", "markOpks"},
             round : {0}, key : 0 .. minted, ts : Stamps]
Settlings == [at : {"idle", "ensure", "fetch", "fetched", "archive", "wait", "demote",
                    "move", "stamp", "unpend", "clear"},
              round : 0 .. 3, key : 0 .. minted, ts : Stamps]
Refills == [at : {"idle", "count", "mint", "wait"}, round : Nat, key : Nat, ts : {0}]

Typed ==
    /\ now \in 0 .. MaxNow
    /\ gen \in 0 .. MaxGen /\ minted \in 0 .. MaxSpk /\ ik \in 0 .. gen
    /\ srv \in ServerKeys /\ replaced \in 0 .. minted /\ dropped \subseteq 1 .. minted
    /\ rows \in OpkRows /\ fetches \in Bundles
    /\ slot \in [Slots -> 0 .. minted] /\ opks \subseteq Idx
    /\ kept \in Marks /\ calls \subseteq Calls
    /\ boot \in Bootings /\ settle \in Settlings /\ refill \in Refills

\* The calls that carry an SPK the server has not heard of before.
Rotations == {c \in calls : c.kind = "rotate"}

\* States of settleSpkState that work on a pending key, and those of a
\* promotion, which the server's acceptance of that key has started.
OnPending == {"fetch", "fetched", "archive", "wait", "demote", "move", "stamp", "unpend"}
Promoting == {"demote", "move", "stamp", "unpend", "clear"}

\* From the first call on bootstrap never mints again: what it published is
\* all there, and every call is signed with the device's identity.
NeverMintsAgain ==
    /\ calls # {} \/ boot.at # "idle" \/ refill.at # "idle" \/ srv.ik # 0
          \/ kept.identityPublished => AllPresent
    /\ srv.ik \in {0, ik}
    /\ \A c \in calls : c.ik = ik /\ c.idx \subseteq opks
    /\ \A i \in Idx : rows[i].ik # 0 => i \in opks

\* Before the identity is published there is nothing to rotate.
FirstPublication ==
    IF srv.ik = 0
    THEN /\ srv.spk = 0 /\ srv.ts = Never
         /\ replaced = 0 /\ kept.spkTs = Never /\ slot["pending"] = 0
         /\ Rotations = {}
         /\ \A c \in calls : c.kind = "upsert" => c.spk = slot["current"]
         /\ boot.at = "publish" => boot.key = slot["current"]
         /\ boot.at # "setSpkTs" /\ settle.at \in {"idle", "ensure"}
    ELSE srv.spk # 0 /\ srv.ts # Never

\* Calls with a timestamp have one that was a time.
CallsDated ==
    \A c \in calls : /\ c.kind \in {"upsert", "rotate"} => c.ts # Never
                     /\ c.kind = "upsert" => c.by = "boot"
                     /\ c.kind = "rotate" => c.by = "settle" /\ c.spk # 0
                     /\ c.kind = "opks" => c.by # "settle"

\* The promotion, from the server's acceptance to the cleared conflict.
Promotion ==
    /\ slot["pending"] # 0 => slot["pending"] = minted
    /\ settle.at \in OnPending => slot["pending"] # 0
    /\ settle.at \in Promoting => srv.spk = minted
    /\ settle.at = "move" => slot["current"] \in {slot["previous"], slot["pending"]}
    /\ settle.at \in {"stamp", "unpend"} => slot["current"] = slot["pending"]
    /\ settle.at = "fetched" => settle.key <= srv.spk /\ settle.ts <= srv.ts
                                /\ kept.conflictTs <= settle.ts
    /\ kept.conflictTs <= srv.ts
    /\ \A c \in Rotations : c.heard => settle.at = "wait" /\ c.spk = slot["pending"]

\* Rotations in flight: each has its own key, which is not lost, and those
\* that may still be accepted are dated in the order of their minting.
RotationsOrdered ==
    /\ \A c \in Rotations :
          /\ c.spk \in {slot["pending"], slot["archived"]} \cup dropped
          /\ c.spk # srv.spk
          /\ c.spk < srv.spk => c.ts <= srv.ts
          /\ c.ts <= srv.ts \/ c.ts <= now \/ c.ts <= kept.conflictTs + 1
    /\ \A c, d \in Rotations :
          /\ c.spk = d.spk => c = d
          /\ c.spk < d.spk => c.ts <= d.ts \/ c.ts <= srv.ts

\* Where the advertised SPK and the one before are.
AdvertisedKept ==
    /\ srv.ik # 0 =>
          /\ srv.spk \in {slot["current"], slot["pending"], slot["archived"]} \cup dropped
          /\ srv.spk >= slot["current"]
          /\ srv.spk > slot["current"] => replaced >= slot["current"]
    /\ slot["previous"] <= slot["current"]
    /\ replaced # 0 => replaced \in Held \cup dropped
    /\ SignatureFits

\* A claimed OPK was published, and is in one bundle, which had none before.
OpksClaimed ==
    /\ \A f \in Fetchers : fetches[f].st \in {"none", "read"} => fetches[f].opk = Never
    /\ \A i \in Idx : rows[i].used => rows[i].ik # 0
    /\ \A f \in Fetchers : fetches[f].opk # Never => rows[fetches[f].opk].used
    /\ OpkGivenOnce

PInv == Typed /\ NeverMintsAgain /\ FirstPublication /\ CallsDated /\ Promotion
        /\ RotationsOrdered /\ AdvertisedKept /\ OpksClaimed

-----------------------------------------------------------------------------
(***************************************************************************)
(* Types.                                                                  *)
(***************************************************************************)

\* The constants are numbers, and the values things rest at are typed.
LEMMA Numbers ==
    /\ Boot \in Nat /\ Boot >= 1 /\ Target \in Nat /\ Low \in Nat
    /\ Period \in Nat /\ Skew \in Nat /\ Ahead \in Nat
    /\ MaxNow \in Nat /\ MaxGen \in Nat /\ MaxSpk \in Nat /\ MaxIdx \in Nat
    /\ BootIdx \subseteq Idx
    /\ Idle \in Refills
    /\ 0 \in Stamps /\ Never \in Stamps /\ Never \notin Time
    /\ \A t \in Stamps : t \in Int /\ t >= Never
<1>1. /\ Boot \in Nat /\ Boot >= 1 /\ Target \in Nat /\ Low \in Nat
      /\ Period \in Nat /\ Skew \in Nat /\ Ahead \in Nat
      /\ MaxNow \in Nat /\ MaxGen \in Nat /\ MaxSpk \in Nat /\ MaxIdx \in Nat
      /\ Boot <= MaxIdx + 1
  BY PoolSizes, Windows, PrekeyBounds
<1>2. BootIdx \subseteq Idx
  BY <1>1 DEF BootIdx, Idx
<1>3. /\ 0 \in Stamps /\ Never \in Stamps /\ Never \notin Time
      /\ \A t \in Stamps : t \in Int /\ t >= Never
  BY <1>1 DEF Stamps, Time, Never
<1>4. Idle \in Refills
  BY DEF Idle, Refills
<1> QED
  BY <1>1, <1>2, <1>3, <1>4

\* The numbers of a state.
LEMMA StateNumbers ==
    ASSUME Typed
    PROVE  /\ gen \in Nat /\ minted \in Nat /\ ik \in 0 .. gen /\ now \in Nat
           /\ now \in Time
           /\ Idle \in Bootings /\ Idle \in Settlings
<1>1. gen \in Nat /\ minted \in Nat /\ ik \in 0 .. gen /\ now \in Nat
  BY Numbers DEF Typed
<1>2. now \in Time
  BY Numbers DEF Typed, Time
<1>3. Idle \in Bootings /\ Idle \in Settlings
  BY <1>1, Numbers DEF Idle, Bootings, Settlings
<1> QED
  BY <1>1, <1>2, <1>3

\* Types only widen as keys are minted.
LEMMA TypesWiden ==
    ASSUME gen \in Nat, minted \in Nat, gen' \in Nat, minted' \in Nat,
           gen <= gen', minted <= minted'
    PROVE  /\ ServerKeys \subseteq ServerKeys' /\ Calls \subseteq Calls'
           /\ Bootings \subseteq Bootings' /\ Settlings \subseteq Settlings'
           /\ 0 .. gen \subseteq 0 .. gen' /\ 0 .. minted \subseteq 0 .. minted'
           /\ 1 .. minted \subseteq 1 .. minted'
<1>1. 0 .. gen \subseteq 0 .. gen' /\ 0 .. minted \subseteq 0 .. minted'
      /\ 1 .. minted \subseteq 1 .. minted'
  OBVIOUS
<1>2. ServerKeys \subseteq ServerKeys'
  BY <1>1 DEF ServerKeys
<1>3. Calls \subseteq Calls'
  BY <1>1 DEF Calls
<1>4. Bootings \subseteq Bootings'
  BY <1>1 DEF Bootings
<1>5. Settlings \subseteq Settlings'
  BY <1>1 DEF Settlings
<1> QED
  BY <1>1, <1>2, <1>3, <1>4, <1>5

\* A call given up, or admitted, is the same call otherwise.
LEMMA CallForms ==
    ASSUME NEW c \in Calls
    PROVE  /\ [c EXCEPT !.heard = FALSE] \in Calls /\ ~[c EXCEPT !.heard = FALSE].heard
           /\ [c EXCEPT !.admitted = TRUE] \in Calls
           /\ [c EXCEPT !.admitted = TRUE].heard = c.heard
           /\ \A d \in {[c EXCEPT !.heard = FALSE], [c EXCEPT !.admitted = TRUE]} :
                 /\ d.kind = c.kind /\ d.ik = c.ik /\ d.spk = c.spk /\ d.ts = c.ts
                 /\ d.idx = c.idx /\ d.by = c.by
BY DEF Calls

\* The initial state has the types.
LEMMA TypedInit == Init => Typed
<1> SUFFICES ASSUME Init PROVE Typed
  OBVIOUS
<1> USE Numbers
<1>1. gen = 0 /\ minted = 0
  BY DEF Init
<1>2. srv \in ServerKeys /\ srv.ik = 0
  BY <1>1 DEF Init, NoServerKeys, ServerKeys
<1>3. rows \in OpkRows
  BY <1>2 DEF Init, NoRow, OpkRows
<1>4. fetches \in Bundles
  BY DEF Init, NoBundle, Bundles
<1>5. kept \in Marks
  BY DEF Init, Marks
<1>6. boot \in Bootings /\ settle \in Settlings /\ refill \in Refills
  BY <1>1 DEF Init, Idle, Bootings, Settlings, Refills
<1>7. slot \in [Slots -> 0 .. minted]
  BY <1>1 DEF Init
<1> QED
  BY <1>1, <1>2, <1>3, <1>4, <1>5, <1>6, <1>7 DEF Init, Typed

\* The states settleSpkState starts its parts in.
LEMMA SettleForms ==
    ASSUME minted \in Nat, NEW r \in 0 .. 3, NEW t \in Stamps
    PROVE  /\ Idle.at = "idle"
           /\ Ensure(r) \in Settlings /\ Ensure(r).at = "ensure"
           /\ [Idle EXCEPT !.at = "fetch", !.round = r] \in Settlings
           /\ [Idle EXCEPT !.at = "fetch", !.round = r].at = "fetch"
           /\ [Idle EXCEPT !.at = "demote", !.round = r, !.ts = t] \in Settlings
           /\ [Idle EXCEPT !.at = "demote", !.round = r, !.ts = t].at = "demote"
<1>1. Idle \in Settlings /\ Idle.at = "idle"
  BY Numbers DEF Idle, Settlings
<1>2. /\ [Idle EXCEPT !.at = "ensure", !.round = r] \in Settlings
      /\ [Idle EXCEPT !.at = "fetch", !.round = r] \in Settlings
      /\ [Idle EXCEPT !.at = "demote", !.round = r, !.ts = t] \in Settlings
  BY <1>1 DEF Settlings
<1>3. /\ [Idle EXCEPT !.at = "ensure", !.round = r].at = "ensure"
      /\ [Idle EXCEPT !.at = "fetch", !.round = r].at = "fetch"
      /\ [Idle EXCEPT !.at = "demote", !.round = r, !.ts = t].at = "demote"
  BY DEF Idle
<1> QED
  BY <1>1, <1>2, <1>3 DEF Ensure

\* A task that gets its answer, or gives its call up, stays typed.
LEMMA AnswerTypes ==
    ASSUME Typed, NEW c \in calls, NEW ok, Answer(c, ok), minted' = minted
    PROVE  boot' \in Bootings /\ settle' \in Settlings /\ refill' \in Refills
<1>1. c.ts \in Stamps
  BY DEF Typed, Calls
<1>2. BootAfter(c, ok) \in Bootings
  <2>1. boot \in Bootings /\ Idle \in Bootings
    BY StateNumbers DEF Typed
  <2>2. [boot EXCEPT !.at = "setSpkTs", !.ts = c.ts] \in Bootings
    BY <1>1, <2>1 DEF Bootings
  <2>3. [boot EXCEPT !.at = "markOpks"] \in Bootings
    BY <2>1 DEF Bootings
  <2> QED
    BY <2>1, <2>2, <2>3 DEF BootAfter
<1>3. SettleAfter(c, ok) \in Settlings
  <2>1. minted \in Nat /\ Idle \in Settlings /\ 2 \in 0 .. 3
    BY StateNumbers
  <2> QED
    BY <1>1, <2>1, SettleForms DEF SettleAfter
<1>4. Bootings' = Bootings /\ Settlings' = Settlings
  BY DEF Bootings, Settlings
<1> QED
  BY <1>2, <1>3, Numbers DEF Answer, Typed

\* Nothing but calls and tasks changes.
LEMMA TypedCalls ==
    ASSUME Typed, UNCHANGED <<now, serverVars, deviceVars>>, calls' \subseteq Calls,
           boot' \in Bootings, settle' \in Settlings, refill' \in Refills
    PROVE  Typed'
<1>1. /\ UNCHANGED <<now, srv, replaced, rows, fetches, gen, minted, ik, slot, opks>>
      /\ UNCHANGED <<kept, dropped>>
  BY DEF serverVars, deviceVars
<1>2. ServerKeys' = ServerKeys /\ OpkRows' = OpkRows /\ Calls' = Calls
      /\ Bootings' = Bootings /\ Settlings' = Settlings
  BY <1>1 DEF ServerKeys, OpkRows, Calls, Bootings, Settlings
<1> QED
  BY <1>1, <1>2 DEF Typed

\* The server's keys change, and a call ends.
LEMMA TypedApply ==
    ASSUME Typed, NEW c \in calls, NEW keys \in ServerKeys, Apply(c, keys),
           srv.ik # 0 => keys.ik = srv.ik
    PROVE  Typed'
<1>1. /\ UNCHANGED <<now, rows, fetches, gen, minted, ik, slot, opks, kept, dropped>>
      /\ calls' \subseteq calls /\ srv' = keys
  BY DEF Apply, deviceVars
<1>2. ServerKeys' = ServerKeys /\ Calls' = Calls /\ Bootings' = Bootings
      /\ Settlings' = Settlings
  BY <1>1 DEF ServerKeys, Calls, Bootings, Settlings
<1>3. rows' \in OpkRows'
  <2>1. \A i \in Idx : rows[i] \in [ik : {0, keys.ik}, used : BOOLEAN]
    <3>1. \A i \in Idx : rows[i] \in [ik : {0, srv.ik}, used : BOOLEAN]
      BY DEF Typed, OpkRows
    <3>2. CASE srv.ik # 0
      BY <3>1, <3>2
    <3>3. CASE srv.ik = 0
      BY <3>1, <3>3
    <3> QED
      BY <3>2, <3>3
  <2>2. rows \in [Idx -> [ik : {0, keys.ik}, used : BOOLEAN]]
    BY <2>1 DEF Typed, OpkRows
  <2> QED
    BY <1>1, <2>2 DEF OpkRows
<1>4. replaced' \in 0 .. minted
  BY DEF Apply, Typed, ServerKeys
<1>5. boot' \in Bootings /\ settle' \in Settlings /\ refill' \in Refills
  BY <1>1, AnswerTypes DEF Apply
<1> QED
  BY <1>1, <1>2, <1>3, <1>4, <1>5 DEF Typed

\* Calls that fade: given up, lost, refused, admitted, or all at once by a kill.
LEMMA TypedFades ==
    ASSUME Typed,
           \/ Kill
           \/ \E c \in calls : GiveUp(c) \/ LoseCall(c) \/ Refuse(c) \/ Admit(c)
    PROVE  Typed'
<1> DEFINE Goal == Typed'
<1>0. calls \subseteq Calls /\ \A c \in calls : c \in Calls
  BY DEF Typed
<1>t. boot \in Bootings /\ settle \in Settlings /\ refill \in Refills
      /\ Idle \in Bootings /\ Idle \in Settlings /\ Idle \in Refills
  BY StateNumbers, Numbers DEF Typed
<1>1. ASSUME Kill PROVE Goal
  <2>1. calls' \subseteq Calls
    BY <1>0, <1>1, CallForms DEF Kill
  <2> QED
    BY <1>1, <1>t, <2>1, TypedCalls DEF Kill
<1>2. ASSUME NEW c \in calls, GiveUp(c) PROVE Goal
  <2>1. calls' \subseteq Calls
    <3>1. [c EXCEPT !.heard = FALSE] \in Calls
      BY <1>0, CallForms
    <3> QED
      BY <1>0, <1>2, <3>1 DEF GiveUp
  <2>2. boot' \in Bootings /\ settle' \in Settlings /\ refill' \in Refills
    BY <1>2, AnswerTypes DEF GiveUp, deviceVars
  <2> QED
    BY <1>2, <2>1, <2>2, TypedCalls DEF GiveUp
<1>3. ASSUME NEW c \in calls, LoseCall(c) PROVE Goal
  BY <1>0, <1>3, <1>t, TypedCalls DEF LoseCall, tasks
<1>4. ASSUME NEW c \in calls, Refuse(c) PROVE Goal
  <2>1. boot' \in Bootings /\ settle' \in Settlings /\ refill' \in Refills
    BY <1>4, AnswerTypes DEF Refuse, deviceVars
  <2> QED
    BY <1>0, <1>4, <2>1, TypedCalls DEF Refuse
<1>5. ASSUME NEW c \in calls, Admit(c) PROVE Goal
  <2>1. calls' \subseteq Calls
    BY <1>0, <1>5, CallForms DEF Admit
  <2> QED
    BY <1>5, <1>t, <2>1, TypedCalls DEF Admit, tasks
<1> HIDE DEF Goal
<1>6. Goal
  BY <1>1, <1>2, <1>3, <1>4, <1>5
<1> QED
  BY <1>6 DEF Goal

\* What the server writes for a publication, a refresh and a rotation.
LEMMA AppliedKeys ==
    ASSUME Typed, NEW c \in calls
    PROVE  /\ [ik |-> c.ik, spk |-> c.spk, ts |-> c.ts, sig |-> <<c.spk, c.ts>>] \in ServerKeys
           /\ Refreshed(c) \in ServerKeys /\ Refreshed(c).ik = srv.ik
           /\ IdenticalRetry(c) =>
                 /\ Refreshed(c).spk = srv.spk
                 /\ Refreshed(c).ts = IF c.ts > srv.ts THEN c.ts ELSE srv.ts
                 /\ Refreshed(c).sig = IF c.ts > srv.ts THEN <<srv.spk, c.ts>> ELSE srv.sig
           /\ [srv EXCEPT !.spk = c.spk, !.ts = c.ts, !.sig = <<c.spk, c.ts>>] \in ServerKeys
           /\ [srv EXCEPT !.spk = c.spk, !.ts = c.ts, !.sig = <<c.spk, c.ts>>].ik = srv.ik
           /\ [srv EXCEPT !.spk = c.spk, !.ts = c.ts, !.sig = <<c.spk, c.ts>>].spk = c.spk
           /\ [srv EXCEPT !.spk = c.spk, !.ts = c.ts, !.sig = <<c.spk, c.ts>>].ts = c.ts
           /\ [srv EXCEPT !.spk = c.spk, !.ts = c.ts, !.sig = <<c.spk, c.ts>>].sig = <<c.spk, c.ts>>
<1>1. srv \in ServerKeys /\ c.ik \in 0 .. gen /\ c.spk \in 0 .. minted /\ c.ts \in Stamps
      /\ <<c.spk, c.ts>> \in (0 .. minted) \X Stamps
  BY DEF Typed, Calls
<1>2. [ik |-> c.ik, spk |-> c.spk, ts |-> c.ts, sig |-> <<c.spk, c.ts>>] \in ServerKeys
  BY <1>1 DEF ServerKeys
<1>3. /\ [srv EXCEPT !.spk = c.spk, !.ts = c.ts, !.sig = <<c.spk, c.ts>>] \in ServerKeys
      /\ [srv EXCEPT !.spk = c.spk, !.ts = c.ts, !.sig = <<c.spk, c.ts>>].ik = srv.ik
      /\ [srv EXCEPT !.spk = c.spk, !.ts = c.ts, !.sig = <<c.spk, c.ts>>].spk = c.spk
      /\ [srv EXCEPT !.spk = c.spk, !.ts = c.ts, !.sig = <<c.spk, c.ts>>].ts = c.ts
      /\ [srv EXCEPT !.spk = c.spk, !.ts = c.ts, !.sig = <<c.spk, c.ts>>].sig = <<c.spk, c.ts>>
  BY <1>1 DEF ServerKeys
<1>4. /\ [srv EXCEPT !.sig = <<c.spk, c.ts>>, !.ts = c.ts] \in ServerKeys
      /\ [srv EXCEPT !.sig = <<c.spk, c.ts>>, !.ts = c.ts].ik = srv.ik
      /\ [srv EXCEPT !.sig = <<c.spk, c.ts>>, !.ts = c.ts].spk = srv.spk
      /\ [srv EXCEPT !.sig = <<c.spk, c.ts>>, !.ts = c.ts].ts = c.ts
      /\ [srv EXCEPT !.sig = <<c.spk, c.ts>>, !.ts = c.ts].sig = <<c.spk, c.ts>>
  BY <1>1 DEF ServerKeys
<1>5. Refreshed(c) \in ServerKeys /\ Refreshed(c).ik = srv.ik
  BY <1>1, <1>4 DEF Refreshed
<1>6. IdenticalRetry(c) =>
         /\ Refreshed(c).spk = srv.spk
         /\ Refreshed(c).ts = IF c.ts > srv.ts THEN c.ts ELSE srv.ts
         /\ Refreshed(c).sig = IF c.ts > srv.ts THEN <<srv.spk, c.ts>> ELSE srv.sig
  BY <1>4 DEF Refreshed, IdenticalRetry
<1> QED
  BY <1>2, <1>3, <1>5, <1>6

\* A publication: the first one, a refresh, or none.
Publishes(c) ==
    /\ c.kind = "upsert"
    /\ \/ /\ srv.ik = 0
          /\ Apply(c, [ik |-> c.ik, spk |-> c.spk, ts |-> c.ts, sig |-> <<c.spk, c.ts>>])
       \/ /\ srv.ik # 0 /\ IdenticalRetry(c)
          /\ Apply(c, Refreshed(c))

\* A rotation that is accepted.
Rotates(c) ==
    /\ c.kind = "rotate" /\ c.ts > srv.ts
    /\ Apply(c, [srv EXCEPT !.spk = c.spk, !.ts = c.ts, !.sig = <<c.spk, c.ts>>])

\* The server's and the network's steps on a call.
LEMMA ServerMoves ==
    ASSUME NEW c \in calls, ServerStep(c)
    PROVE  \/ GiveUp(c) \/ LoseCall(c) \/ Refuse(c) \/ Admit(c)
           \/ Publishes(c) \/ Rotates(c) \/ ReplenishOPKs(c)
BY DEF ServerStep, UpsertIdentity, PublishOrRefreshIdentity, RotateSPK, RotateSPKTx,
       Publishes, Rotates, Advances

\* A publication, a rotation and a batch of OPKs keep the types.
LEMMA TypedAccepted ==
    ASSUME Typed, NEW c \in calls, Publishes(c) \/ Rotates(c) \/ ReplenishOPKs(c)
    PROVE  Typed'
<1>1. CASE Publishes(c)
  BY <1>1, AppliedKeys, TypedApply DEF Publishes
<1>2. CASE Rotates(c)
  BY <1>2, AppliedKeys, TypedApply DEF Rotates
<1>3. CASE ReplenishOPKs(c)
  <2>1. PICK ok \in BOOLEAN :
           /\ ok <=> (srv.ik = c.ik /\ \A i \in c.idx : rows[i].ik \in {0, c.ik})
           /\ rows' = IF ok THEN [i \in Idx |-> IF i \in c.idx THEN RowAfter(c, i) ELSE rows[i]]
                            ELSE rows
           /\ Answer(c, ok)
    BY <1>3, Zenon DEF ReplenishOPKs
  <2>2. /\ UNCHANGED <<now, srv, replaced, fetches, gen, minted, ik, slot, opks, kept, dropped>>
        /\ calls' \subseteq calls
    BY <1>3 DEF ReplenishOPKs, deviceVars
  <2>3. boot' \in Bootings /\ settle' \in Settlings /\ refill' \in Refills
    BY <2>1, <2>2, AnswerTypes
  <2>4. rows' \in OpkRows
    <3>1. rows \in OpkRows
      BY DEF Typed
    <3>2. ok => \A i \in Idx : RowAfter(c, i) \in [ik : {0, srv.ik}, used : BOOLEAN]
      BY <2>1, <3>1 DEF RowAfter, OpkRows
    <3> QED
      BY <2>1, <3>1, <3>2 DEF OpkRows
  <2>5. ServerKeys' = ServerKeys /\ OpkRows' = OpkRows /\ Calls' = Calls
        /\ Bootings' = Bootings /\ Settlings' = Settlings
    BY <2>2 DEF ServerKeys, OpkRows, Calls, Bootings, Settlings
  <2> QED
    BY <2>2, <2>3, <2>4, <2>5 DEF Typed
<1> QED
  BY <1>1, <1>2, <1>3

\* Fetches, the clock and the replenishment keep the types.
LEMMA TypedOthers ==
    ASSUME Typed,
           \/ Tick
           \/ \E f \in Fetchers : ReadIdentity(f) \/ PopRandom(f) \/ WriteBundle(f)
           \/ ReplenishOpks \/ GetOPKCount
    PROVE  Typed'
<1> DEFINE Goal == Typed'
<1>i. boot \in Bootings /\ settle \in Settlings /\ refill \in Refills /\ fetches \in Bundles
      /\ rows \in OpkRows /\ calls \subseteq Calls
  BY DEF Typed
\* Only the fetches, the OPK rows, the clock and the replenishment change.
<1>u. ASSUME now' \in 0 .. MaxNow, rows' \in OpkRows, fetches' \in Bundles, refill' \in Refills,
             UNCHANGED <<srv, replaced, calls, deviceVars, boot, settle>>
      PROVE  Goal
  <2>1. UNCHANGED <<gen, minted, ik, slot, opks, kept, dropped>>
    BY <1>u DEF deviceVars
  <2>2. ServerKeys' = ServerKeys /\ OpkRows' = OpkRows /\ Calls' = Calls
        /\ Bootings' = Bootings /\ Settlings' = Settlings
    BY <1>u, <2>1 DEF ServerKeys, OpkRows, Calls, Bootings, Settlings
  <2> QED
    BY <1>u, <2>1, <2>2 DEF Typed
<1>f. [Idle EXCEPT !.at = "count", !.round = Low] \in Refills
      /\ [Idle EXCEPT !.at = "count", !.round = Target] \in Refills
  BY Numbers DEF Refills
<1>n. now \in 0 .. MaxNow
  BY DEF Typed
<1> HIDE DEF Goal
<1>1. ASSUME Tick PROVE Goal
  <2>1. now' \in 0 .. MaxNow
    BY <1>1, <1>n, Numbers DEF Tick
  <2> QED
    BY <1>1, <1>i, <1>u, <2>1 DEF Tick, serverVars, tasks
<1>2. ASSUME NEW f \in Fetchers, ReadIdentity(f) PROVE Goal
  <2>1. fetches' \in Bundles
    BY <1>2, <1>i DEF ReadIdentity, Bundles
  <2> QED
    BY <1>2, <1>i, <1>n, <1>u, <2>1 DEF ReadIdentity, tasks
<1>3. ASSUME NEW f \in Fetchers, PopRandom(f) PROVE Goal
  <2>1. fetches' \in Bundles
    BY <1>3, <1>i DEF PopRandom, Bundles, Free
  <2>2. rows' \in OpkRows
    BY <1>3, <1>i DEF PopRandom, Consumed, Free, OpkRows
  <2> QED
    BY <1>3, <1>i, <1>n, <1>u, <2>1, <2>2 DEF PopRandom, tasks
<1>4. ASSUME NEW f \in Fetchers, WriteBundle(f) PROVE Goal
  <2>1. fetches' \in Bundles
    BY <1>4, <1>i DEF WriteBundle, Bundles
  <2>2. refill' \in Refills
    BY <1>4, <1>i, <1>f DEF WriteBundle
  <2> QED
    BY <1>4, <1>i, <1>n, <1>u, <2>1, <2>2 DEF WriteBundle
<1>5. ASSUME ReplenishOpks PROVE Goal
  BY <1>5, <1>i, <1>n, <1>u, <1>f DEF ReplenishOpks, serverVars
<1>6. ASSUME GetOPKCount PROVE Goal
  <2>1. Cardinality(Free) \in Nat
    <3>1. IsFiniteSet(Idx)
      BY Numbers, FS_Interval DEF Idx
    <3>2. IsFiniteSet(Free)
      BY <3>1, FS_Subset DEF Free
    <3> QED
      BY <3>2, FS_CardinalityType
  <2>2. [refill EXCEPT !.at = "mint", !.key = Cardinality(Free)] \in Refills
    BY <1>i, <2>1 DEF Refills
  <2>3. refill' \in Refills
    BY <1>6, <2>2, Numbers DEF GetOPKCount
  <2> QED
    BY <1>6, <1>i, <1>n, <1>u, <2>3 DEF GetOPKCount, serverVars
<1>7. Goal
  BY <1>1, <1>2, <1>3, <1>4, <1>5, <1>6
<1> QED
  BY <1>7 DEF Goal

\* The three kinds of calls are calls.
LEMMA NewCalls ==
    ASSUME Typed, NEW spk \in 0 .. minted, NEW ts \in Stamps, NEW I \in SUBSET Idx
    PROVE  /\ UpsertCall(spk, ts) \in Calls
           /\ RotateCall(spk, ts) \in Calls
           /\ OpksCall(I, "boot") \in Calls
           /\ OpksCall(I, "refill") \in Calls
BY StateNumbers, Numbers DEF UpsertCall, RotateCall, OpksCall, Calls

\* Minting OPKs and bootstrap keep the types.
LEMMA TypedBoot ==
    ASSUME Typed,
           \/ \E n \in 0 .. Boot + 2 : GenerateKeys(n)
           \/ ReadKeysFromStore \/ PublishIdentity \/ SetSpkTs \/ MarkIdentityPublished
           \/ PublishInitialOpks \/ MarkInitialOpksPublished
           \/ \E n \in 0 .. Target : MintOpks(n)
    PROVE  Typed'
<1> DEFINE Goal == Typed'
<1>i. boot \in Bootings /\ settle \in Settlings /\ refill \in Refills /\ kept \in Marks
      /\ rows \in OpkRows /\ calls \subseteq Calls /\ opks \subseteq Idx
      /\ srv \in ServerKeys /\ slot \in [Slots -> 0 .. minted] /\ "current" \in Slots
  BY DEF Typed, Slots
<1>n. minted \in Nat /\ gen \in Nat /\ ik \in 0 .. gen /\ now \in Stamps
      /\ Idle \in Bootings /\ Idle \in Refills
  BY StateNumbers, Numbers DEF Stamps
\* The server, the minting and the settling stay as they are.
<1>u. ASSUME calls' \subseteq Calls, opks' \subseteq Idx, kept' \in Marks, boot' \in Bootings,
             refill' \in Refills,
             UNCHANGED <<now, serverVars, gen, minted, ik, slot, dropped, settle>>
      PROVE  Goal
  <2>1. UNCHANGED <<srv, replaced, rows, fetches>>
    BY <1>u DEF serverVars
  <2>2. ServerKeys' = ServerKeys /\ OpkRows' = OpkRows /\ Calls' = Calls
        /\ Bootings' = Bootings /\ Settlings' = Settlings
    BY <1>u, <2>1 DEF ServerKeys, OpkRows, Calls, Bootings, Settlings
  <2> QED
    BY <1>u, <2>1, <2>2 DEF Typed
<1>1. ASSUME NEW n \in 0 .. Boot + 2, GenerateKeys(n) PROVE Goal
  <2>1. gen' = gen + 1 /\ minted' = minted + 1 /\ gen' \in 0 .. MaxGen /\ minted' \in 0 .. MaxSpk
    BY <1>1, <1>n, Numbers DEF GenerateKeys, Typed
  <2>2. /\ ServerKeys \subseteq ServerKeys' /\ Calls \subseteq Calls'
        /\ Bootings \subseteq Bootings' /\ Settlings \subseteq Settlings'
        /\ 0 .. gen \subseteq 0 .. gen' /\ 0 .. minted \subseteq 0 .. minted'
        /\ 1 .. minted \subseteq 1 .. minted'
    BY <1>n, <2>1, TypesWiden
  <2>3. /\ UNCHANGED <<now, srv, replaced, rows, fetches, calls, settle, refill, dropped>>
        /\ ik' = IF n > 0 THEN gen' ELSE 0
        /\ slot' = [s \in Slots |-> IF s = "current" /\ n > 1 THEN minted' ELSE 0]
        /\ opks' = {i \in BootIdx : n > i + 2}
        /\ kept' = [spkTs |-> Never, conflictTs |-> Never,
                    identityPublished |-> FALSE, opksPublished |-> FALSE]
        /\ boot' = IF n = Boot + 2 THEN [Idle EXCEPT !.at = "publish", !.key = minted'] ELSE Idle
    BY <1>1 DEF GenerateKeys, serverVars
  <2>4. ik' \in 0 .. gen' /\ slot' \in [Slots -> 0 .. minted'] /\ opks' \subseteq Idx
    BY <1>n, <2>1, <2>3, Numbers
  <2>5. kept' \in Marks
    BY <2>3, Numbers DEF Marks
  <2>6. boot' \in Bootings'
    <3>1. Idle \in Bootings' /\ minted' \in 0 .. minted'
      BY <1>n, <2>1, <2>2
    <3>2. [Idle EXCEPT !.at = "publish", !.key = minted'] \in Bootings'
      BY <3>1 DEF Bootings
    <3> QED
      BY <2>3, <3>1, <3>2
  <2>7. OpkRows' = OpkRows
    BY <2>3 DEF OpkRows
  <2>8. /\ srv' \in ServerKeys' /\ calls' \subseteq Calls' /\ settle' \in Settlings'
        /\ replaced' \in 0 .. minted' /\ dropped' \subseteq 1 .. minted'
        /\ rows' \in OpkRows' /\ fetches' \in Bundles /\ refill' \in Refills
        /\ now' \in 0 .. MaxNow
    BY <1>i, <2>2, <2>3, <2>7 DEF Typed
  <2> QED
    BY <2>1, <2>4, <2>5, <2>6, <2>8 DEF Typed
<1>2. ASSUME ReadKeysFromStore PROVE Goal
  <2>1. [Idle EXCEPT !.at = "publish", !.key = slot["current"]] \in Bootings
    BY <1>i, <1>n DEF Bootings
  <2> QED
    BY <1>2, <1>i, <1>u, <2>1 DEF ReadKeysFromStore, deviceVars
<1>3. ASSUME PublishIdentity PROVE Goal
  <2>1. [boot EXCEPT !.at = "opks"] \in Bootings /\ [boot EXCEPT !.at = "wait"] \in Bootings
        /\ boot.key \in 0 .. minted
    BY <1>i DEF Bootings
  <2>2. UpsertCall(boot.key, now) \in Calls
    BY <1>n, <2>1, Numbers, NewCalls
  <2> QED
    BY <1>3, <1>i, <1>u, <2>1, <2>2 DEF PublishIdentity, deviceVars
<1>4. ASSUME SetSpkTs PROVE Goal
  <2>1. [boot EXCEPT !.at = "markIdentity"] \in Bootings /\ boot.ts \in Stamps
    BY <1>i DEF Bootings
  <2>2. [kept EXCEPT !.spkTs = boot.ts] \in Marks
    BY <1>i, <2>1 DEF Marks
  <2> QED
    BY <1>4, <1>i, <1>u, <2>1, <2>2 DEF SetSpkTs
<1>5. ASSUME MarkIdentityPublished PROVE Goal
  <2>1. [boot EXCEPT !.at = "opks"] \in Bootings
    BY <1>i DEF Bootings
  <2>2. [kept EXCEPT !.identityPublished = TRUE] \in Marks
    BY <1>i DEF Marks
  <2> QED
    BY <1>5, <1>i, <1>u, <2>1, <2>2 DEF MarkIdentityPublished
<1>6. ASSUME PublishInitialOpks PROVE Goal
  <2>1. [boot EXCEPT !.at = "wait"] \in Bootings
    BY <1>i DEF Bootings
  <2>2. OpksCall(BootIdx, "boot") \in Calls
    BY <1>n, Numbers, NewCalls
  <2> QED
    BY <1>6, <1>i, <1>u, <2>1, <2>2 DEF PublishInitialOpks, deviceVars
<1>7. ASSUME MarkInitialOpksPublished PROVE Goal
  <2>1. [kept EXCEPT !.opksPublished = TRUE] \in Marks
    BY <1>i DEF Marks
  <2> QED
    BY <1>7, <1>i, <1>n, <1>u, <2>1 DEF MarkInitialOpksPublished
<1>8. ASSUME NEW n \in 0 .. Target, MintOpks(n) PROVE Goal
  <2> DEFINE fresh == NextIdx .. NextIdx + n - 1
  <2>1. fresh \subseteq Idx /\ opks' = opks \cup fresh
        /\ UNCHANGED <<now, serverVars, gen, minted, ik, slot, kept, dropped, boot, settle>>
        /\ \/ /\ calls' = calls \cup {OpksCall(fresh, "refill")}
              /\ refill' = [refill EXCEPT !.at = "wait"]
           \/ refill' = Idle /\ calls' = calls
    BY <1>8 DEF MintOpks
  <2> HIDE DEF fresh
  <2>2. [refill EXCEPT !.at = "wait"] \in Refills
    BY <1>i DEF Refills
  <2>3. OpksCall(fresh, "refill") \in Calls
    BY <1>n, <2>1, Numbers, NewCalls
  <2>4. calls' \subseteq Calls /\ refill' \in Refills
    BY <1>i, <1>n, <2>1, <2>2, <2>3
  <2> QED
    BY <1>i, <1>u, <2>1, <2>4
<1> HIDE DEF Goal
<1>9. Goal
  BY <1>1, <1>2, <1>3, <1>4, <1>5, <1>6, <1>7, <1>8
<1> QED
  BY <1>9 DEF Goal

\* The steps of settleSpkState.
SettleStep ==
    \/ SettleSpkState \/ GetOwnKeys \/ FetchFails
    \/ FinishRotation \/ DiscardPending \/ RecordConflict \/ ArchivePending
    \/ EnsureSpkRotated
    \/ Demote \/ MoveCurrent \/ Stamp \/ Unpend \/ ClearConflict

\* Reconciliation and promotion keep the types.
LEMMA TypedSettle ==
    ASSUME Typed, Promotion, SettleStep
    PROVE  Typed'
<1> DEFINE Goal == Typed'
<1>i. settle \in Settlings /\ kept \in Marks /\ slot \in [Slots -> 0 .. minted]
      /\ calls \subseteq Calls /\ srv \in ServerKeys /\ dropped \subseteq 1 .. minted
      /\ {"current", "pending", "previous", "archived"} = Slots
  BY DEF Typed, Slots
<1>n. minted \in Nat /\ gen \in Nat /\ Idle \in Settlings /\ 1 \in 0 .. 3 /\ 3 \in 0 .. 3
      /\ 0 \in 0 .. minted /\ 0 \in Stamps /\ Never \in Stamps
  BY StateNumbers, Numbers
<1>r. Reconciled \in Settlings /\ Ensure(1) \in Settlings /\ Ensure(3) \in Settlings
      /\ [Idle EXCEPT !.at = "fetch", !.round = 1] \in Settlings
  BY <1>n, SettleForms DEF Reconciled
\* The server, the clock and the minting stay as they are.
<1>u. ASSUME calls' \subseteq Calls, kept' \in Marks, settle' \in Settlings,
             slot' \in [Slots -> 0 .. minted], dropped' \subseteq 1 .. minted,
             UNCHANGED <<now, serverVars, gen, minted, ik, opks, boot, refill>>
      PROVE  Goal
  <2>1. UNCHANGED <<srv, replaced, rows, fetches>>
    BY <1>u DEF serverVars
  <2>2. ServerKeys' = ServerKeys /\ OpkRows' = OpkRows /\ Calls' = Calls
        /\ Bootings' = Bootings /\ Settlings' = Settlings
    BY <1>u, <2>1 DEF ServerKeys, OpkRows, Calls, Bootings, Settlings
  <2> QED
    BY <1>u, <2>1, <2>2 DEF Typed
<1>a. \A a \in {"fetched", "demote", "archive", "wait", "move", "stamp", "unpend", "clear"} :
         [settle EXCEPT !.at = a] \in Settlings
  BY <1>i DEF Settlings
<1>s. /\ \A s \in Slots : slot[s] \in 0 .. minted
      /\ \A s, t \in Slots : [slot EXCEPT ![s] = slot[t]] \in [Slots -> 0 .. minted]
      /\ \A s \in Slots : [slot EXCEPT ![s] = 0] \in [Slots -> 0 .. minted]
      /\ [slot EXCEPT !["archived"] = slot["pending"], !["pending"] = 0] \in [Slots -> 0 .. minted]
  BY <1>i, <1>n
<1>1. ASSUME SettleSpkState PROVE Goal
  BY <1>1, <1>i, <1>r, <1>u DEF SettleSpkState, deviceVars
<1>2. ASSUME GetOwnKeys PROVE Goal
  <2>1. [settle EXCEPT !.at = "fetched", !.key = srv.spk, !.ts = srv.ts] \in Settlings
    BY <1>i DEF Settlings, ServerKeys
  <2> QED
    BY <1>2, <1>i, <1>u, <2>1 DEF GetOwnKeys, deviceVars
<1>3. ASSUME FetchFails PROVE Goal
  BY <1>3, <1>i, <1>r, <1>u DEF FetchFails, deviceVars
<1>4. ASSUME FinishRotation PROVE Goal
  BY <1>4, <1>i, <1>a, <1>u DEF FinishRotation, deviceVars
<1>5. ASSUME DiscardPending PROVE Goal
  <2>1. slot["pending"] \in 1 .. minted
    BY <1>5, <1>i, <1>n, <1>s DEF DiscardPending, Promotion, OnPending
  <2> QED
    BY <1>5, <1>i, <1>r, <1>s, <1>u, <2>1 DEF DiscardPending
<1>6. ASSUME RecordConflict PROVE Goal
  <2>1. [kept EXCEPT !.conflictTs = settle.ts] \in Marks
    BY <1>i DEF Marks, Settlings
  <2> QED
    BY <1>6, <1>i, <1>a, <1>u, <2>1 DEF RecordConflict
<1>7. ASSUME ArchivePending PROVE Goal
  <2>1. {slot["archived"]} \ {0} \subseteq 1 .. minted
    BY <1>i, <1>n, <1>s
  <2> QED
    BY <1>7, <1>i, <1>r, <1>s, <1>u, <2>1 DEF ArchivePending
<1>8. ASSUME EnsureSpkRotated PROVE Goal
  <2>1. CASE settle' = Idle /\ UNCHANGED <<minted, slot, calls>>
    BY <1>8, <1>i, <1>n, <1>u, <2>1 DEF EnsureSpkRotated
  <2>2. CASE /\ RotationTs - now <= Ahead /\ minted < MaxSpk /\ minted' = minted + 1
             /\ slot' = [slot EXCEPT !["pending"] = minted']
             /\ calls' = calls \cup {RotateCall(minted', RotationTs)}
             /\ settle' = [settle EXCEPT !.at = "wait"]
    <3>1. UNCHANGED <<now, srv, replaced, rows, fetches, gen, ik, opks, kept, dropped, boot, refill>>
      BY <1>8 DEF EnsureSpkRotated, serverVars
    <3>2. minted' \in 0 .. MaxSpk /\ gen' = gen
      BY <1>n, <2>2, <3>1, Numbers DEF Typed
    <3>3. /\ ServerKeys \subseteq ServerKeys' /\ Calls \subseteq Calls'
          /\ Bootings \subseteq Bootings' /\ Settlings \subseteq Settlings'
          /\ 0 .. minted \subseteq 0 .. minted' /\ 1 .. minted \subseteq 1 .. minted'
      BY <1>n, <2>2, <3>2, TypesWiden
    <3>4. RotationTs \in Time
      <4>1. kept.conflictTs \in Int /\ now \in 0 .. MaxNow
        BY <1>i, Numbers DEF Marks, Typed
      <4>2. RotationTs \in Int /\ RotationTs >= now
        BY <4>1 DEF RotationTs
      <4> QED
        BY <2>2, <4>1, <4>2, Numbers DEF Time
    <3>5. RotateCall(minted', RotationTs) \in Calls'
      <4>1. ik \in 0 .. gen' /\ minted' \in 0 .. minted' /\ RotationTs \in Stamps
        BY <1>n, <2>2, <3>2, <3>4, StateNumbers DEF Stamps
      <4> QED
        BY <4>1, Numbers DEF RotateCall, Calls
    <3>6. slot' \in [Slots -> 0 .. minted']
      BY <1>i, <1>n, <2>2, <3>3
    <3>7. OpkRows' = OpkRows
      BY <3>1 DEF OpkRows
    <3>8. /\ srv' \in ServerKeys' /\ replaced' \in 0 .. minted' /\ dropped' \subseteq 1 .. minted'
          /\ rows' \in OpkRows' /\ fetches' \in Bundles /\ boot' \in Bootings' /\ refill' \in Refills
          /\ kept' \in Marks /\ now' \in 0 .. MaxNow /\ gen' \in 0 .. MaxGen /\ ik' \in 0 .. gen'
          /\ opks' \subseteq Idx
      BY <1>i, <3>1, <3>3, <3>7 DEF Typed
    <3>9. calls' \subseteq Calls' /\ settle' \in Settlings'
      BY <1>i, <1>a, <2>2, <3>3, <3>5
    <3> QED
      BY <3>2, <3>6, <3>8, <3>9 DEF Typed
  <2> QED
    BY <1>8, <2>1, <2>2 DEF EnsureSpkRotated
<1>9. ASSUME Demote PROVE Goal
  BY <1>9, <1>i, <1>a, <1>s, <1>u DEF Demote
<1>10. ASSUME MoveCurrent PROVE Goal
  BY <1>10, <1>i, <1>a, <1>s, <1>u DEF MoveCurrent
<1>11. ASSUME Stamp PROVE Goal
  <2>1. [kept EXCEPT !.spkTs = settle.ts] \in Marks
    BY <1>i DEF Marks, Settlings
  <2> QED
    BY <1>11, <1>i, <1>a, <1>u, <2>1 DEF Stamp
<1>12. ASSUME Unpend PROVE Goal
  BY <1>12, <1>i, <1>a, <1>s, <1>u DEF Unpend
<1>13. ASSUME ClearConflict PROVE Goal
  <2>1. [kept EXCEPT !.conflictTs = Never] \in Marks
    BY <1>i, <1>n DEF Marks
  <2> QED
    BY <1>13, <1>i, <1>r, <1>u, <2>1 DEF ClearConflict
<1> HIDE DEF Goal
<1>14. Goal
  BY <1>1, <1>2, <1>3, <1>4, <1>5, <1>6, <1>7, <1>8, <1>9, <1>10, <1>11, <1>12, <1>13
     DEF SettleStep
<1> QED
  BY <1>14 DEF Goal

-----------------------------------------------------------------------------
(***************************************************************************)
(* One-time prekeys.                                                       *)
(***************************************************************************)

\* Claims mark their row used, batches never reset one.
LEMMA OpksClaimedStep ==
    ASSUME Typed, OpksClaimed,
           \/ UNCHANGED <<rows, fetches>>
           \/ \E c \in calls : ReplenishOPKs(c)
           \/ \E f \in Fetchers : ReadIdentity(f) \/ PopRandom(f) \/ WriteBundle(f)
    PROVE  OpksClaimed'
<1> DEFINE Goal == OpksClaimed'
<1>i. fetches \in Bundles /\ rows \in OpkRows
  BY DEF Typed
<1>n. Never \notin Idx
  BY Numbers DEF Idx, Never
<1>1. ASSUME UNCHANGED <<rows, fetches>> PROVE Goal
  BY <1>1 DEF OpksClaimed, OpkGivenOnce
<1>2. ASSUME NEW c \in calls, ReplenishOPKs(c) PROVE Goal
  <2>1. fetches' = fetches
    BY <1>2 DEF ReplenishOPKs
  <2>2. \A i \in Idx : rows'[i] = rows[i] \/ (rows[i].ik = 0 /\ rows'[i] = [ik |-> c.ik, used |-> FALSE])
    BY <1>2, <1>i DEF ReplenishOPKs, RowAfter, OpkRows
  <2>3. \A i \in Idx : rows[i].used => rows'[i] = rows[i]
    BY <2>2 DEF OpksClaimed
  <2>4. \A i \in Idx : rows'[i].used => rows'[i] = rows[i]
    BY <2>2
  <2>5. \A f \in Fetchers : fetches[f].opk # Never => fetches[f].opk \in Idx
    BY <1>i DEF Bundles
  <2> QED
    BY <2>1, <2>3, <2>4, <2>5 DEF OpksClaimed, OpkGivenOnce
<1>3. ASSUME NEW f \in Fetchers, ReadIdentity(f) PROVE Goal
  <2>1. \A g \in Fetchers : /\ fetches'[g].opk = fetches[g].opk
                            /\ fetches'[g].st \in {"none", "read"}
                                 => fetches[g].st \in {"none", "read"}
    BY <1>3, <1>i DEF ReadIdentity, Bundles
  <2>2. rows' = rows
    BY <1>3 DEF ReadIdentity
  <2> QED
    BY <2>1, <2>2 DEF OpksClaimed, OpkGivenOnce
<1>4. ASSUME NEW f \in Fetchers, PopRandom(f) PROVE Goal
  <2>1. CASE rows' = rows /\ fetches' = [fetches EXCEPT ![f].st = "done"]
    <3>1. \A g \in Fetchers : fetches'[g].opk = fetches[g].opk
      BY <1>i, <2>1 DEF Bundles
    <3> QED
      BY <2>1, <3>1 DEF OpksClaimed, OpkGivenOnce
  <2>2. ASSUME NEW i \in Free, rows' = Consumed(i),
               fetches' = [fetches EXCEPT ![f].st = "popped", ![f].opk = i]
        PROVE  Goal
    <3>1. i \in Idx /\ rows[i].ik # 0 /\ ~rows[i].used
      BY DEF Free
    <3>2. fetches'[f].opk = i /\ fetches'[f].st = "popped"
          /\ \A g \in Fetchers : g # f => fetches'[g] = fetches[g]
      BY <1>i, <2>2, <3>1 DEF Bundles
    <3>3. /\ \A j \in Idx : rows'[j].ik = rows[j].ik
          /\ \A j \in Idx : rows'[j].used <=> (j = i \/ rows[j].used)
      BY <1>i, <2>2, <3>1 DEF Consumed, OpkRows
    <3>4. \A g \in Fetchers : fetches[g].opk # Never =>
             fetches[g].opk \in Idx /\ fetches[g].opk # i
      BY <1>i, <3>1 DEF Bundles, OpksClaimed
    <3>5. i # Never /\ \A g \in Fetchers : g # f => fetches[g].opk # i
      BY <1>n, <3>1, <3>4
    <3> QED
      BY <3>1, <3>2, <3>3, <3>4, <3>5 DEF OpksClaimed, OpkGivenOnce
  <2> QED
    BY <1>4, <2>1, <2>2 DEF PopRandom
<1>5. ASSUME NEW f \in Fetchers, WriteBundle(f) PROVE Goal
  <2>1. \A g \in Fetchers : /\ fetches'[g].opk = fetches[g].opk
                            /\ fetches'[g].st \in {"none", "read"}
                                 => fetches[g].st \in {"none", "read"}
    BY <1>5, <1>i DEF WriteBundle, Bundles
  <2>2. rows' = rows
    BY <1>5 DEF WriteBundle
  <2> QED
    BY <2>1, <2>2 DEF OpksClaimed, OpkGivenOnce
<1> HIDE DEF Goal
<1>6. Goal
  BY <1>1, <1>2, <1>3, <1>4, <1>5
<1> QED
  BY <1>6 DEF Goal

-----------------------------------------------------------------------------
(***************************************************************************)
(* Keys, calls and promotion, by kind of step.                             *)
(***************************************************************************)

KeysInv == NeverMintsAgain /\ FirstPublication /\ CallsDated /\ Promotion
           /\ RotationsOrdered /\ AdvertisedKept

\* The call is the same, and nobody new waits for it.
Same(d, c) == /\ d.kind = c.kind /\ d.ik = c.ik /\ d.spk = c.spk /\ d.ts = c.ts
              /\ d.idx = c.idx /\ d.by = c.by
              /\ d.heard => c.heard

\* Calls go, or are given up; the tasks that waited for them stop, or
\* reconcile once more.
Fading ==
    /\ UNCHANGED <<now, serverVars, deviceVars>>
    /\ \A d \in calls' : \E c \in calls : Same(d, c)
    /\ \A d, e \in Rotations' : d.spk = e.spk => d = e
    /\ boot' \in {boot, Idle} /\ refill' \in {refill, Idle}
    /\ \/ settle' = settle
       \/ /\ settle'.at = "idle" \/ (settle'.at = "fetch" /\ settle.at = "wait")
          /\ \A d \in Rotations' : ~d.heard

\* Kills, timeouts, losses, refusals and admissions are fadings.
LEMMA FadesFade ==
    ASSUME Typed, KeysInv,
           \/ Kill
           \/ \E c \in calls : GiveUp(c) \/ LoseCall(c) \/ Refuse(c) \/ Admit(c)
    PROVE  Fading
<1> DEFINE Goal == Fading
<1>0. \A c \in calls : c \in Calls
  BY DEF Typed
<1>f. \A c \in calls : /\ Same([c EXCEPT !.heard = FALSE], c) /\ Same([c EXCEPT !.admitted = TRUE], c)
                       /\ ~[c EXCEPT !.heard = FALSE].heard /\ Same(c, c)
  BY <1>0, CallForms DEF Same
<1>q. \A c, d \in Rotations : c.spk = d.spk => c = d
  BY DEF KeysInv, RotationsOrdered
<1>w. \A c \in Rotations : c.heard => settle.at = "wait" /\ c.spk = slot["pending"]
  BY DEF KeysInv, Promotion
<1>i. Idle.at = "idle" /\ [Idle EXCEPT !.at = "fetch", !.round = 2].at = "fetch"
  BY DEF Idle
\* Calls that replace one another one by one stay apart.
<1>r. ASSUME NEW c \in calls, NEW d, Same(d, c), calls' = (calls \ {c}) \cup {d}
      PROVE  \A x, y \in Rotations' : x.spk = y.spk => x = y
  <2>1. ASSUME NEW x \in Rotations'
        PROVE  \/ x = d /\ c \in Rotations /\ x.spk = c.spk
               \/ x # c /\ x \in Rotations
    <3>1. x \in calls' /\ x.kind = "rotate"
      BY DEF Rotations
    <3>2. CASE x = d
      BY <1>r, <3>1, <3>2 DEF Rotations, Same
    <3>3. CASE x # d
      <4>1. x \in calls \ {c}
        BY <1>r, <3>1, <3>3
      <4> QED
        BY <3>1, <4>1 DEF Rotations
    <3> QED
      BY <3>2, <3>3
  <2> QED
    BY <1>q, <2>1
<1>s. ASSUME calls' \subseteq calls PROVE \A x, y \in Rotations' : x.spk = y.spk => x = y
  <2>1. Rotations' \subseteq Rotations
    BY <1>s DEF Rotations
  <2> QED
    BY <1>q, <2>1
\* A task that gives up its call.
<1>a. ASSUME NEW c \in calls, Answer(c, FALSE),
             \A x \in calls' : x.heard => x \in calls \ {c}
      PROVE  /\ boot' \in {boot, Idle} /\ refill' \in {refill, Idle}
             /\ \/ settle' = settle
                \/ /\ settle'.at = "idle" \/ (settle'.at = "fetch" /\ settle.at = "wait")
                   /\ \A x \in Rotations' : ~x.heard
  <2>1. boot' \in {boot, Idle} /\ refill' \in {refill, Idle}
    BY <1>a DEF Answer, BootAfter
  <2>2. CASE ~(c.heard /\ c.by = "settle")
    BY <1>a, <2>1, <2>2 DEF Answer
  <2>3. CASE c.heard /\ c.by = "settle"
    <3>1. c.kind = "rotate"
      BY <1>0, <2>3 DEF Calls, KeysInv, CallsDated
    <3>2. c \in Rotations /\ settle.at = "wait" /\ c.spk = slot["pending"]
      BY <1>w, <2>3, <3>1 DEF Rotations
    <3>3. \A x \in Rotations' : ~x.heard
      <4> SUFFICES ASSUME NEW x \in Rotations', x.heard PROVE FALSE
        OBVIOUS
      <4>1. x \in Rotations /\ x # c
        BY <1>a DEF Rotations
      <4> QED
        BY <1>q, <1>w, <3>2, <4>1
    <3>4. settle' \in {Idle, [Idle EXCEPT !.at = "fetch", !.round = 2]}
      BY <1>a, <2>3 DEF Answer, SettleAfter
    <3> QED
      BY <1>i, <2>1, <3>2, <3>3, <3>4
  <2> QED
    BY <2>2, <2>3
<1>1. ASSUME Kill PROVE Goal
  <2>1. calls' = {[c EXCEPT !.heard = FALSE] : c \in calls}
    BY <1>1 DEF Kill
  <2>2. \A d \in calls' : ~d.heard
    BY <1>f, <2>1
  <2>3. \A d, e \in Rotations' : d.spk = e.spk => d = e
    <3> SUFFICES ASSUME NEW d \in Rotations', NEW e \in Rotations', d.spk = e.spk PROVE d = e
      OBVIOUS
    <3>1. PICK x \in calls : d = [x EXCEPT !.heard = FALSE]
      BY <2>1 DEF Rotations
    <3>2. PICK y \in calls : e = [y EXCEPT !.heard = FALSE]
      BY <2>1 DEF Rotations
    <3>3. x \in Rotations /\ y \in Rotations /\ x.spk = y.spk
      BY <1>f, <3>1, <3>2 DEF Rotations, Same
    <3> QED
      BY <1>q, <3>1, <3>2, <3>3
  <2>4. \A d \in calls' : \E c \in calls : Same(d, c)
    BY <1>f, <2>1
  <2>5. \A d \in Rotations' : ~d.heard
    BY <2>2 DEF Rotations
  <2> QED
    BY <1>1, <1>i, <2>3, <2>4, <2>5 DEF Kill, Fading
<1>2. ASSUME NEW c \in calls, GiveUp(c) PROVE Goal
  <2>1. calls' = (calls \ {c}) \cup {[c EXCEPT !.heard = FALSE]} /\ Answer(c, FALSE)
        /\ UNCHANGED <<now, serverVars, deviceVars>>
    BY <1>2 DEF GiveUp
  <2>2. \A x \in calls' : x.heard => x \in calls \ {c}
    BY <1>f, <2>1
  <2>3. \A d \in calls' : \E x \in calls : Same(d, x)
    BY <1>f, <2>1
  <2> QED
    BY <1>a, <1>f, <1>r, <2>1, <2>2, <2>3 DEF Fading
<1>3. ASSUME NEW c \in calls, LoseCall(c) PROVE Goal
  <2>1. \A d \in calls' : \E x \in calls : Same(d, x)
    BY <1>3, <1>f DEF LoseCall
  <2> QED
    BY <1>3, <1>s, <2>1 DEF LoseCall, Fading, tasks
<1>4. ASSUME NEW c \in calls, Refuse(c) PROVE Goal
  <2>1. \A d \in calls' : \E x \in calls : Same(d, x)
    BY <1>4, <1>f DEF Refuse
  <2> QED
    BY <1>4, <1>a, <1>s, <2>1 DEF Refuse, Fading
<1>5. ASSUME NEW c \in calls, Admit(c) PROVE Goal
  <2>1. calls' = (calls \ {c}) \cup {[c EXCEPT !.admitted = TRUE]}
        /\ UNCHANGED <<now, serverVars, deviceVars, boot, settle, refill>>
    BY <1>5 DEF Admit, tasks
  <2>2. \A d \in calls' : \E x \in calls : Same(d, x)
    BY <1>f, <2>1
  <2> QED
    BY <1>f, <1>r, <2>1, <2>2 DEF Fading
<1> HIDE DEF Goal
<1>6. Goal
  BY <1>1, <1>2, <1>3, <1>4, <1>5
<1> QED
  BY <1>6 DEF Goal

\* Fading calls change nothing that the keys rest on.
LEMMA FadingKeeps ==
    ASSUME Typed, KeysInv, Fading
    PROVE  KeysInv'
<1> USE DEF KeysInv
<1>1. /\ UNCHANGED <<now, srv, replaced, rows, fetches, gen, minted, ik, slot, opks>>
      /\ UNCHANGED <<kept, dropped>>
  BY DEF Fading, serverVars, deviceVars
<1>2. \A d \in calls' : \E c \in calls : Same(d, c)
  BY DEF Fading
<1>3. \A d \in Rotations' : \E c \in Rotations : Same(d, c)
  BY <1>2 DEF Rotations, Same
<1>i. Idle.at = "idle"
  BY DEF Idle
<1>4. NeverMintsAgain'
  <2>1. AllPresent' <=> AllPresent
    BY <1>1 DEF AllPresent
  <2>2. calls' # {} => calls # {}
    BY <1>2
  <2>3. \A c \in calls' : c.ik = ik /\ c.idx \subseteq opks
    BY <1>2 DEF NeverMintsAgain, Same
  <2> QED
    BY <1>1, <1>i, <2>1, <2>2, <2>3 DEF NeverMintsAgain, Fading
<1>5. FirstPublication'
  <2>1. Rotations = {} => Rotations' = {}
    BY <1>3
  <2>2. srv.ik = 0 => \A c \in calls' : c.kind = "upsert" => c.spk = slot["current"]
    BY <1>2 DEF FirstPublication, Same
  <2>3. settle.at \in {"idle", "ensure"} => settle'.at \in {"idle", "ensure"}
    BY DEF Fading
  <2> QED
    BY <1>1, <1>i, <2>1, <2>2, <2>3 DEF FirstPublication, Fading
<1>6. CallsDated'
  BY <1>2 DEF CallsDated, Same
<1>7. Promotion'
  <2>1. CASE settle' = settle
    BY <1>1, <1>3, <2>1 DEF Promotion, Same
  <2>2. CASE /\ settle'.at = "idle" \/ (settle'.at = "fetch" /\ settle.at = "wait")
             /\ \A d \in Rotations' : ~d.heard
    <3>1. settle'.at \in OnPending => slot["pending"] # 0
      BY <2>2 DEF Promotion, OnPending
    <3> QED
      BY <1>1, <2>2, <3>1 DEF Promotion, Promoting
  <2> QED
    BY <2>1, <2>2 DEF Fading
<1>8. RotationsOrdered'
  <2>1. \A c \in Rotations' :
           /\ c.spk \in {slot["pending"], slot["archived"]} \cup dropped
           /\ c.spk # srv.spk
           /\ c.spk < srv.spk => c.ts <= srv.ts
           /\ c.ts <= srv.ts \/ c.ts <= now \/ c.ts <= kept.conflictTs + 1
    BY <1>3 DEF RotationsOrdered, Same
  <2>2. \A c, d \in Rotations' : c.spk < d.spk => c.ts <= d.ts \/ c.ts <= srv.ts
    BY <1>3 DEF RotationsOrdered, Same
  <2>3. \A d, e \in Rotations' : d.spk = e.spk => d = e
    BY DEF Fading
  <2> QED
    BY <1>1, <2>1, <2>2, <2>3 DEF RotationsOrdered
<1>9. AdvertisedKept'
  BY <1>1 DEF AdvertisedKept, SignatureFits, Held
<1> QED
  BY <1>4, <1>5, <1>6, <1>7, <1>8, <1>9

\* The clock, the fetches and the start of a replenishment change nothing that
\* the keys rest on.
LEMMA OthersKeep ==
    ASSUME Typed, KeysInv,
           \/ Tick
           \/ \E f \in Fetchers : ReadIdentity(f) \/ PopRandom(f) \/ WriteBundle(f)
           \/ ReplenishOpks \/ GetOPKCount
    PROVE  KeysInv'
<1> DEFINE Goal == KeysInv'
<1>i. refill \in Refills /\ rows \in OpkRows /\ Idle.at = "idle" /\ now \in Nat
  BY StateNumbers DEF Typed, Idle
\* Time may pass, OPKs be used up and a replenishment start.
<1>u. ASSUME UNCHANGED <<srv, replaced, calls, deviceVars, boot, settle>>,
             now' \in Int, now' >= now, \A i \in Idx : rows'[i].ik = rows[i].ik,
             refill'.at = "idle" \/ refill.at # "idle" \/ Bootstrapped
      PROVE  Goal
  <2>1. UNCHANGED <<gen, minted, ik, slot, opks, kept, dropped>>
    BY <1>u DEF deviceVars
  <2>2. Rotations' = Rotations
    BY <1>u DEF Rotations
  <2>3. NeverMintsAgain'
    <3>1. AllPresent' <=> AllPresent
      BY <2>1 DEF AllPresent
    <3> QED
      BY <1>u, <2>1, <3>1 DEF KeysInv, NeverMintsAgain, Bootstrapped
  <2>4. FirstPublication' /\ CallsDated' /\ Promotion'
    BY <1>u, <2>1, <2>2 DEF KeysInv, FirstPublication, CallsDated, Promotion
  <2>5. RotationsOrdered'
    <3>1. \A c \in Rotations : c.ts \in Int
      BY Numbers DEF Typed, Calls, Rotations
    <3>2. \A c \in Rotations : c.ts <= now => c.ts <= now'
      BY <1>i, <1>u, <3>1
    <3> QED
      BY <1>u, <2>1, <2>2, <3>2 DEF KeysInv, RotationsOrdered
  <2>6. AdvertisedKept'
    BY <1>u, <2>1 DEF KeysInv, AdvertisedKept, SignatureFits, Held
  <2> QED
    BY <2>3, <2>4, <2>5, <2>6 DEF KeysInv
<1> HIDE DEF Goal
<1>1. ASSUME Tick PROVE Goal
  BY <1>1, <1>i, <1>u DEF Tick, serverVars, tasks
<1>2. ASSUME NEW f \in Fetchers, ReadIdentity(f) PROVE Goal
  BY <1>2, <1>i, <1>u DEF ReadIdentity, tasks
<1>3. ASSUME NEW f \in Fetchers, PopRandom(f) PROVE Goal
  <2>1. \A i \in Idx : rows'[i].ik = rows[i].ik
    BY <1>3, <1>i DEF PopRandom, Consumed, Free, OpkRows
  <2> QED
    BY <1>3, <1>i, <1>u, <2>1 DEF PopRandom, tasks
<1>4. ASSUME NEW f \in Fetchers, WriteBundle(f) PROVE Goal
  BY <1>4, <1>i, <1>u DEF WriteBundle
<1>5. ASSUME ReplenishOpks PROVE Goal
  BY <1>5, <1>i, <1>u DEF ReplenishOpks, serverVars
<1>6. ASSUME GetOPKCount PROVE Goal
  BY <1>6, <1>i, <1>u DEF GetOPKCount, serverVars
<1>7. Goal
  BY <1>1, <1>2, <1>3, <1>4, <1>5, <1>6
<1> QED
  BY <1>7 DEF Goal

\* A published identity: the first time it is the device's whole set of keys,
\* later it only refreshes the timestamp.
LEMMA PublicationKeeps ==
    ASSUME Typed, KeysInv, NEW c \in calls, Publishes(c)
    PROVE  KeysInv'
<1> USE DEF KeysInv
<1>1. /\ UNCHANGED <<now, rows, fetches, gen, minted, ik, slot, opks, kept, dropped>>
      /\ calls' = calls \ {c}
      /\ Answer(c, TRUE)
      /\ replaced' = IF srv'.spk # srv.spk THEN srv.spk ELSE replaced
  BY DEF Publishes, Apply, deviceVars
<1>2. AllPresent /\ c.ik = ik /\ c.by = "boot" /\ c.ts # Never
  BY DEF Publishes, NeverMintsAgain, CallsDated
<1>3. c \in Calls /\ srv \in ServerKeys /\ c.ts \in Int /\ c.ts >= Never /\ srv.ts \in Int
      /\ srv.spk \in Int /\ Never \in Int
  BY Numbers DEF Typed, Calls, ServerKeys, Never
<1>4. settle' = settle /\ refill' = refill
  BY <1>1, <1>2 DEF Answer
<1>5. Rotations' = Rotations
  BY <1>1 DEF Publishes, Rotations
<1>6. NeverMintsAgain'
  <2>1. AllPresent'
    BY <1>1, <1>2 DEF AllPresent
  <2>2. srv'.ik \in {0, ik}
    <3>1. srv' = [ik |-> c.ik, spk |-> c.spk, ts |-> c.ts, sig |-> <<c.spk, c.ts>>]
          \/ srv' = Refreshed(c)
      BY DEF Publishes, Apply
    <3>2. Refreshed(c).ik = srv.ik /\ srv.ik \in {0, ik}
      BY AppliedKeys DEF NeverMintsAgain
    <3> QED
      BY <1>2, <3>1, <3>2
  <2> QED
    BY <1>1, <2>1, <2>2 DEF NeverMintsAgain
<1>7. CallsDated'
  BY <1>1 DEF CallsDated
<1>8. CASE srv.ik = 0
  <2>1. srv' = [ik |-> c.ik, spk |-> c.spk, ts |-> c.ts, sig |-> <<c.spk, c.ts>>]
    BY <1>8 DEF Publishes, Apply
  <2>2. c.spk = slot["current"] /\ slot["current"] # 0 /\ ik # 0
    BY <1>2, <1>8 DEF Publishes, FirstPublication, AllPresent
  <2>3. replaced' = 0 /\ slot["pending"] = 0 /\ Rotations = {} /\ settle.at \in {"idle", "ensure"}
        /\ kept.conflictTs <= Never
    BY <1>1, <1>8 DEF FirstPublication, Promotion
  <2>4. FirstPublication'
    BY <1>2, <2>1, <2>2 DEF FirstPublication
  <2>5. Promotion'
    <3>1. kept.conflictTs <= c.ts
      <4>1. kept.conflictTs \in Int
        BY Numbers DEF Typed, Marks
      <4> QED
        BY <1>3, <2>3, <4>1
    <3> QED
      BY <1>1, <1>4, <1>5, <2>1, <2>3, <3>1 DEF Promotion, OnPending, Promoting
  <2>6. RotationsOrdered'
    BY <1>5, <2>3 DEF RotationsOrdered
  <2>7. AdvertisedKept'
    BY <1>1, <1>3, <2>1, <2>2, <2>3 DEF AdvertisedKept, SignatureFits, Calls
  <2> QED
    BY <1>6, <1>7, <2>4, <2>5, <2>6, <2>7
<1>9. CASE srv.ik # 0
  <2>1. /\ srv'.ik = srv.ik /\ srv'.spk = srv.spk
        /\ srv'.ts = IF c.ts > srv.ts THEN c.ts ELSE srv.ts
        /\ srv'.sig = IF c.ts > srv.ts THEN <<srv.spk, c.ts>> ELSE srv.sig
    BY <1>9, AppliedKeys DEF Publishes, Apply
  <2>2. replaced' = replaced
    BY <1>1, <2>1
  <2>3. srv'.ts \in Int /\ srv'.ts >= srv.ts
    BY <1>3, <2>1
  <2>4. FirstPublication'
    BY <1>2, <1>9, <2>1 DEF FirstPublication
  <2>5. Promotion'
    <3>1. kept.conflictTs \in Int /\ settle.ts \in Int
      BY Numbers DEF Typed, Marks, Settlings
    <3>2. /\ kept.conflictTs <= srv'.ts
          /\ settle.at = "fetched" => settle.ts <= srv'.ts
      BY <1>3, <2>3, <3>1 DEF Promotion
    <3> QED
      BY <1>1, <1>4, <1>5, <2>1, <3>2 DEF Promotion
  <2>6. RotationsOrdered'
    <3>1. \A d \in Rotations : d.ts \in Int
      BY Numbers DEF Typed, Calls, Rotations
    <3>2. \A d \in Rotations : d.ts <= srv.ts => d.ts <= srv'.ts
      BY <1>3, <2>3, <3>1
    <3> QED
      BY <1>1, <1>5, <2>1, <3>2 DEF RotationsOrdered
  <2>7. AdvertisedKept'
    BY <1>1, <2>1, <2>2 DEF AdvertisedKept, SignatureFits, Held
  <2> QED
    BY <1>6, <1>7, <2>4, <2>5, <2>6, <2>7
<1> QED
  BY <1>8, <1>9

\* An accepted rotation advertises a younger key, and is the last of those
\* sent before it that can be.
LEMMA RotationKeeps ==
    ASSUME Typed, KeysInv, NEW c \in calls, Rotates(c)
    PROVE  KeysInv'
<1> USE DEF KeysInv
<1>1. /\ UNCHANGED <<now, rows, fetches, gen, minted, ik, slot, opks, kept, dropped>>
      /\ calls' = calls \ {c}
      /\ Answer(c, TRUE)
      /\ replaced' = IF srv'.spk # srv.spk THEN srv.spk ELSE replaced
  BY DEF Rotates, Apply, deviceVars
<1>2. srv'.ik = srv.ik /\ srv'.spk = c.spk /\ srv'.ts = c.ts /\ srv'.sig = <<c.spk, c.ts>>
  BY AppliedKeys DEF Rotates, Apply
<1>3. c \in Rotations /\ c.by = "settle" /\ c.spk # 0 /\ c.ts # Never /\ AllPresent
  BY DEF Rotates, Rotations, CallsDated, NeverMintsAgain
<1>4. srv.ik # 0 /\ srv.spk # 0
  BY <1>3 DEF FirstPublication
<1>5. /\ c.ts \in Int /\ srv.ts \in Int /\ c.ts > srv.ts
      /\ c.spk \in 0 .. minted /\ srv.spk \in 0 .. minted /\ minted \in Nat
      /\ \A s \in Slots : slot[s] \in Int
      /\ \A d \in Rotations : d.ts \in Int /\ d.spk \in Int
      /\ kept.conflictTs \in Int /\ settle.ts \in Int /\ settle.key \in Int
  BY StateNumbers, Numbers DEF Typed, Calls, ServerKeys, Rotations, Rotates, Marks, Settlings
<1>6. c.spk > srv.spk /\ replaced' = srv.spk
  BY <1>1, <1>2, <1>3, <1>5 DEF RotationsOrdered
<1>7. boot' = boot /\ refill' = refill
  BY <1>1, <1>3 DEF Answer
<1>8. Rotations' = Rotations \ {c} /\ \A d \in Rotations' : d.spk # c.spk
  <2>1. Rotations' = Rotations \ {c}
    BY <1>1 DEF Rotations
  <2> QED
    BY <1>3, <2>1 DEF RotationsOrdered
<1>9. NeverMintsAgain'
  <2>1. AllPresent'
    BY <1>1, <1>3 DEF AllPresent
  <2> QED
    BY <1>1, <1>2, <2>1 DEF NeverMintsAgain
<1>10. FirstPublication' /\ CallsDated'
  BY <1>1, <1>2, <1>3, <1>4 DEF FirstPublication, CallsDated
<1>11. Promotion'
  <2>1. kept.conflictTs <= c.ts
    BY <1>5 DEF Promotion
  <2>2. CASE ~c.heard
    <3>1. settle' = settle
      BY <1>1, <2>2 DEF Answer
    <3>2. settle.at \notin Promoting
      BY <1>5, <1>6 DEF Promotion
    <3>3. settle.at = "fetched" => settle.key <= c.spk /\ settle.ts <= c.ts
      BY <1>5, <1>6 DEF Promotion
    <3> QED
      BY <1>1, <1>2, <1>8, <2>1, <3>1, <3>2, <3>3 DEF Promotion, Promoting
  <2>3. CASE c.heard
    <3>1. settle' = [Idle EXCEPT !.at = "demote", !.round = 2, !.ts = c.ts]
      BY <1>1, <1>3, <2>3 DEF Answer, SettleAfter
    <3>2. settle'.at = "demote"
      BY <3>1 DEF Idle
    <3>3. c.spk = slot["pending"] /\ slot["pending"] # 0 /\ slot["pending"] = minted
      BY <1>3, <2>3 DEF Promotion
    <3>4. \A d \in Rotations' : ~d.heard
      BY <1>8, <3>3 DEF Promotion
    <3> QED
      BY <1>1, <1>2, <2>1, <3>2, <3>3, <3>4 DEF Promotion
  <2> QED
    BY <2>2, <2>3
<1>12. RotationsOrdered'
  <2>1. ASSUME NEW d \in Rotations'
        PROVE  /\ d.spk \in {slot["pending"], slot["archived"]} \cup dropped
               /\ d.spk # c.spk
               /\ d.spk < c.spk => d.ts <= c.ts
               /\ d.ts <= c.ts \/ d.ts <= now \/ d.ts <= kept.conflictTs + 1
    <3>1. d \in Rotations /\ d.spk # c.spk
      BY <1>8
    <3>2. d.ts <= srv.ts => d.ts <= c.ts
      BY <1>5, <3>1
    <3> QED
      BY <1>3, <3>1, <3>2 DEF RotationsOrdered
  <2>2. \A d, e \in Rotations' : /\ d.spk = e.spk => d = e
                                 /\ d.spk < e.spk => d.ts <= e.ts \/ d.ts <= c.ts
    <3> SUFFICES ASSUME NEW d \in Rotations', NEW e \in Rotations'
                 PROVE  /\ d.spk = e.spk => d = e
                        /\ d.spk < e.spk => d.ts <= e.ts \/ d.ts <= c.ts
      OBVIOUS
    <3>1. d \in Rotations /\ e \in Rotations
      BY <1>8
    <3>2. d.ts <= srv.ts => d.ts <= c.ts
      BY <1>5, <3>1
    <3> QED
      BY <3>1, <3>2 DEF RotationsOrdered
  <2> QED
    BY <1>1, <1>2, <2>1, <2>2 DEF RotationsOrdered
<1>13. AdvertisedKept'
  <2>1. c.spk >= slot["current"] /\ srv.spk >= slot["current"]
    BY <1>4, <1>5, <1>6 DEF AdvertisedKept, Slots
  <2>2. srv.spk \in Held \cup dropped
    BY <1>4 DEF AdvertisedKept, Held, Slots
  <2> QED
    BY <1>1, <1>2, <1>3, <1>6, <2>1, <2>2
       DEF AdvertisedKept, SignatureFits, Held, RotationsOrdered
<1> QED
  BY <1>9, <1>10, <1>11, <1>12, <1>13

\* A published batch of OPKs is the device's own.
LEMMA BatchKeeps ==
    ASSUME Typed, KeysInv, NEW c \in calls, ReplenishOPKs(c)
    PROVE  KeysInv'
<1> USE DEF KeysInv
<1>1. /\ UNCHANGED <<now, srv, replaced, fetches, gen, minted, ik, slot, opks, kept, dropped>>
      /\ calls' = calls \ {c} /\ c.kind = "opks"
  BY DEF ReplenishOPKs, deviceVars
<1>2. c.by # "settle" /\ c.idx \subseteq opks /\ AllPresent
  BY <1>1 DEF CallsDated, NeverMintsAgain
<1>3. PICK ok \in BOOLEAN :
         /\ rows' = IF ok THEN [i \in Idx |-> IF i \in c.idx THEN RowAfter(c, i) ELSE rows[i]]
                          ELSE rows
         /\ Answer(c, ok)
  BY Zenon DEF ReplenishOPKs
<1>4. settle' = settle
  BY <1>2, <1>3 DEF Answer
<1>5. boot' = boot \/ boot' = Idle \/ boot' = [boot EXCEPT !.at = "markOpks"]
  BY <1>1, <1>3 DEF Answer, BootAfter
<1>6. /\ boot'.at = "publish" => boot' = boot
      /\ boot'.at = "setSpkTs" => boot' = boot
  <2>1. boot \in Bootings
    BY DEF Typed
  <2>2. [boot EXCEPT !.at = "markOpks"].at = "markOpks" /\ Idle.at = "idle"
    BY <2>1 DEF Bootings, Idle
  <2> QED
    BY <1>5, <2>2
<1>7. Rotations' = Rotations
  BY <1>1 DEF Rotations
<1>8. NeverMintsAgain'
  <2>1. AllPresent'
    BY <1>1, <1>2 DEF AllPresent
  <2>2. \A i \in Idx : rows'[i].ik # 0 => i \in opks
    BY <1>2, <1>3 DEF RowAfter, NeverMintsAgain
  <2> QED
    BY <1>1, <2>1, <2>2 DEF NeverMintsAgain
<1>9. FirstPublication' /\ CallsDated' /\ Promotion' /\ RotationsOrdered'
  BY <1>1, <1>4, <1>6, <1>7 DEF FirstPublication, CallsDated, Promotion, RotationsOrdered
<1>10. AdvertisedKept'
  BY <1>1 DEF AdvertisedKept, SignatureFits, Held
<1> QED
  BY <1>8, <1>9, <1>10

\* Bootstrap mints while nothing is published; from then on it adds marks and
\* calls, all of its one set of keys, and a replenishment adds OPKs.
LEMMA BootKeeps ==
    ASSUME Typed, KeysInv,
           \/ \E n \in 0 .. Boot + 2 : GenerateKeys(n)
           \/ ReadKeysFromStore \/ PublishIdentity \/ SetSpkTs \/ MarkIdentityPublished
           \/ PublishInitialOpks \/ MarkInitialOpksPublished
           \/ \E n \in 0 .. Target : MintOpks(n)
    PROVE  KeysInv'
<1> DEFINE Goal == KeysInv'
<1>i. /\ boot \in Bootings /\ refill \in Refills /\ kept \in Marks /\ srv \in ServerKeys
      /\ slot \in [Slots -> 0 .. minted] /\ Slots = {"current", "pending", "previous", "archived"}
      /\ Idle.at = "idle" /\ minted \in Nat /\ gen \in Nat /\ now \in Nat
      /\ rows \in OpkRows /\ now # Never
  BY StateNumbers DEF Typed, Slots, Idle, Never
\* The whole set of keys is there, and stays.
<1>u. ASSUME UNCHANGED <<now, serverVars, gen, minted, ik, slot, dropped, settle>>,
             AllPresent, opks \subseteq opks', calls \subseteq calls',
             kept'.conflictTs = kept.conflictTs, kept'.spkTs = kept.spkTs \/ srv.ik # 0,
             boot'.at = "publish" => boot' = boot \/ boot'.key = slot["current"],
             boot'.at = "setSpkTs" => boot.at = "setSpkTs",
             \A c \in calls' : \/ c \in calls
                               \/ /\ c.ik = ik /\ c.idx \subseteq opks'
                                  /\ c.by # "settle"
                                  /\ \/ c.kind = "opks"
                                     \/ /\ c.kind = "upsert" /\ c.by = "boot" /\ c.ts # Never
                                        /\ c.spk = slot["current"] \/ srv.ik # 0
      PROVE  Goal
  <2>1. UNCHANGED <<srv, replaced, rows, fetches>>
    BY <1>u DEF serverVars
  <2>2. Rotations' = Rotations
    BY <1>u DEF Rotations
  <2>3. NeverMintsAgain'
    <3>1. AllPresent'
      BY <1>u DEF AllPresent
    <3>2. \A c \in calls' : c.ik = ik /\ c.idx \subseteq opks'
      BY <1>u DEF KeysInv, NeverMintsAgain
    <3> QED
      BY <1>u, <2>1, <3>1, <3>2 DEF KeysInv, NeverMintsAgain
  <2>4. FirstPublication'
    <3>1. CASE srv.ik = 0
      <4>1. \A c \in calls' : c.kind = "upsert" => c.spk = slot["current"]
        BY <1>u, <3>1 DEF KeysInv, FirstPublication
      <4> QED
        BY <1>u, <2>1, <2>2, <3>1, <4>1 DEF KeysInv, FirstPublication
    <3>2. CASE srv.ik # 0
      BY <2>1, <3>2 DEF KeysInv, FirstPublication
    <3> QED
      BY <3>1, <3>2
  <2>5. CallsDated'
    BY <1>u DEF KeysInv, CallsDated
  <2>6. Promotion' /\ RotationsOrdered' /\ AdvertisedKept'
    BY <1>u, <2>1, <2>2
       DEF KeysInv, Promotion, RotationsOrdered, AdvertisedKept, SignatureFits, Held
  <2> QED
    BY <2>3, <2>4, <2>5, <2>6 DEF KeysInv
<1>p. boot.at # "idle" \/ refill.at # "idle" => AllPresent
  BY DEF KeysInv, NeverMintsAgain
<1>a. \A a \in {"opks", "wait", "markIdentity"} : [boot EXCEPT !.at = a].at = a
  BY <1>i DEF Bootings
<1> HIDE DEF Goal
<1>1. ASSUME NEW n \in 0 .. Boot + 2, GenerateKeys(n) PROVE Goal
  <2>1. /\ UNCHANGED <<now, srv, replaced, rows, fetches, calls, settle, refill, dropped>>
        /\ gen' = gen + 1 /\ minted' = minted + 1
        /\ ik' = IF n > 0 THEN gen' ELSE 0
        /\ slot' = [s \in Slots |-> IF s = "current" /\ n > 1 THEN minted' ELSE 0]
        /\ opks' = {i \in BootIdx : n > i + 2}
        /\ kept' = [spkTs |-> Never, conflictTs |-> Never,
                    identityPublished |-> FALSE, opksPublished |-> FALSE]
        /\ boot' = IF n = Boot + 2 THEN [Idle EXCEPT !.at = "publish", !.key = minted'] ELSE Idle
        /\ ~AllPresent
    BY <1>1 DEF GenerateKeys, serverVars
  <2>2. calls = {} /\ refill.at = "idle" /\ srv.ik = 0 /\ Rotations' = {}
    BY <2>1 DEF KeysInv, NeverMintsAgain, Rotations
  <2>3. srv.spk = 0 /\ srv.ts = Never /\ replaced = 0 /\ settle.at \in {"idle", "ensure"}
    BY <2>2 DEF KeysInv, FirstPublication
  <2>4. \/ boot'.at = "idle"
        \/ n = Boot + 2 /\ boot'.at = "publish" /\ boot'.key = slot'["current"]
    <3>1. CASE n = Boot + 2
      <4>1. n > 1
        BY <3>1, Numbers
      <4>2. slot'["current"] = minted'
        BY <1>i, <2>1, <4>1
      <4>3. PICK m : m = minted'
        OBVIOUS
      <4>4. boot' = [Idle EXCEPT !.at = "publish", !.key = m]
        BY <2>1, <3>1, <4>3
      <4>5. boot'.at = "publish" /\ boot'.key = m
        BY <4>4 DEF Idle
      <4> QED
        BY <3>1, <4>2, <4>3, <4>5
    <3>2. CASE n # Boot + 2
      BY <1>i, <2>1, <3>2
    <3> QED
      BY <3>1, <3>2
  <2>5. n = Boot + 2 => AllPresent'
    <3> SUFFICES ASSUME n = Boot + 2 PROVE AllPresent'
      OBVIOUS
    <3>1. ik' # 0 /\ slot'["current"] # 0
      BY <1>i, <2>1, Numbers
    <3>2. BootIdx \subseteq opks'
      BY <2>1, Numbers DEF BootIdx
    <3> QED
      BY <3>1, <3>2 DEF AllPresent
  <2>6. NeverMintsAgain'
    <3>1. \A i \in Idx : rows[i].ik = 0
      BY <1>i, <2>2 DEF OpkRows
    <3> QED
      BY <2>1, <2>2, <2>4, <2>5, <3>1 DEF NeverMintsAgain
  <2>7. slot'["pending"] = 0 /\ slot'["previous"] = 0 /\ slot'["current"] \in Nat
    BY <1>i, <2>1
  <2>8. FirstPublication' /\ CallsDated'
    BY <2>1, <2>2, <2>3, <2>4, <2>7 DEF FirstPublication, CallsDated
  <2>9. Promotion' /\ RotationsOrdered'
    <3>1. kept'.conflictTs <= srv'.ts
      BY <2>1, <2>3 DEF Never
    <3> QED
      BY <2>1, <2>2, <2>3, <2>7, <3>1 DEF Promotion, RotationsOrdered, OnPending, Promoting
  <2>10. AdvertisedKept'
    BY <2>1, <2>2, <2>3, <2>7 DEF AdvertisedKept, SignatureFits
  <2> QED
    BY <2>6, <2>8, <2>9, <2>10 DEF KeysInv, Goal
<1>2. ASSUME ReadKeysFromStore PROVE Goal
  <2>1. boot'.at = "publish" /\ boot'.key = slot["current"]
    BY <1>2 DEF ReadKeysFromStore, Idle
  <2> QED
    BY <1>2, <1>u, <2>1 DEF ReadKeysFromStore, deviceVars
<1>3. ASSUME PublishIdentity PROVE Goal
  <2>1. boot.at = "publish" /\ AllPresent /\ boot'.at \in {"opks", "wait"}
        /\ UNCHANGED <<now, serverVars, deviceVars, settle, refill>>
    BY <1>3, <1>a, <1>i, <1>p DEF PublishIdentity
  <2>2. boot.key = slot["current"] \/ srv.ik # 0
    BY <2>1 DEF KeysInv, FirstPublication
  <2>3. calls' = calls \/ calls' = calls \cup {UpsertCall(boot.key, now)}
    BY <1>3 DEF PublishIdentity
  <2>4. \A c \in calls' : \/ c \in calls
                          \/ /\ c.ik = ik /\ c.idx \subseteq opks /\ c.kind = "upsert"
                             /\ c.by = "boot" /\ c.ts # Never /\ c.spk = boot.key
    BY <1>i, <2>3 DEF UpsertCall
  <2> QED
    BY <1>u, <2>1, <2>2, <2>3, <2>4 DEF deviceVars
<1>4. ASSUME SetSpkTs PROVE Goal
  <2>1. AllPresent /\ srv.ik # 0
    BY <1>4, <1>p DEF SetSpkTs, KeysInv, FirstPublication
  <2>2. kept'.conflictTs = kept.conflictTs /\ boot'.at = "markIdentity"
    BY <1>4, <1>a, <1>i DEF SetSpkTs, Marks
  <2> QED
    BY <1>4, <1>u, <2>1, <2>2 DEF SetSpkTs
<1>5. ASSUME MarkIdentityPublished PROVE Goal
  <2>1. AllPresent
    BY <1>5, <1>p DEF MarkIdentityPublished
  <2>2. kept'.conflictTs = kept.conflictTs /\ kept'.spkTs = kept.spkTs /\ boot'.at = "opks"
    BY <1>5, <1>a, <1>i DEF MarkIdentityPublished, Marks
  <2> QED
    BY <1>5, <1>u, <2>1, <2>2 DEF MarkIdentityPublished
<1>6. ASSUME PublishInitialOpks PROVE Goal
  <2>1. AllPresent /\ BootIdx \subseteq opks /\ boot'.at = "wait"
    BY <1>6, <1>a, <1>p DEF PublishInitialOpks, AllPresent
  <2>2. \A c \in calls' : \/ c \in calls
                          \/ /\ c.ik = ik /\ c.idx \subseteq opks /\ c.kind = "opks"
                             /\ c.by = "boot"
    BY <1>6, <2>1 DEF PublishInitialOpks, OpksCall
  <2> QED
    BY <1>6, <1>u, <2>1, <2>2 DEF PublishInitialOpks, deviceVars
<1>7. ASSUME MarkInitialOpksPublished PROVE Goal
  <2>1. AllPresent
    BY <1>7, <1>p DEF MarkInitialOpksPublished
  <2>2. kept'.conflictTs = kept.conflictTs /\ kept'.spkTs = kept.spkTs /\ boot'.at = "idle"
    BY <1>7, <1>i DEF MarkInitialOpksPublished, Marks
  <2> QED
    BY <1>7, <1>u, <2>1, <2>2 DEF MarkInitialOpksPublished
<1>8. ASSUME NEW n \in 0 .. Target, MintOpks(n) PROVE Goal
  <2> DEFINE fresh == NextIdx .. NextIdx + n - 1
  <2>1. /\ AllPresent /\ opks' = opks \cup fresh
        /\ UNCHANGED <<now, serverVars, gen, minted, ik, slot, kept, dropped, boot, settle>>
        /\ calls' = calls \/ calls' = calls \cup {OpksCall(fresh, "refill")}
    BY <1>8, <1>p DEF MintOpks
  <2> HIDE DEF fresh
  <2>2. \A c \in calls' : \/ c \in calls
                          \/ /\ c.ik = ik /\ c.idx \subseteq opks' /\ c.kind = "opks"
                             /\ c.by = "refill"
    BY <2>1 DEF OpksCall
  <2> QED
    BY <1>u, <2>1, <2>2
<1>9. Goal
  BY <1>1, <1>2, <1>3, <1>4, <1>5, <1>6, <1>7, <1>8
<1> QED
  BY <1>9 DEF Goal

\* Steps of settleSpkState that write nothing: the start, the fetch and its
\* failure, the recognition of a key the server accepted, and no rotation due.
LEMMA LookingKeeps ==
    ASSUME Typed, KeysInv,
           \/ SettleSpkState \/ GetOwnKeys \/ FetchFails \/ FinishRotation
           \/ EnsureSpkRotated /\ settle' = Idle /\ UNCHANGED <<minted, slot, calls>>
    PROVE  KeysInv'
<1> DEFINE Goal == KeysInv'
<1>i. /\ settle \in Settlings /\ srv \in ServerKeys /\ slot \in [Slots -> 0 .. minted]
      /\ "pending" \in Slots /\ minted \in Nat
      /\ Idle.at = "idle" /\ Reconciled.at \in {"ensure", "idle"} /\ Ensure(1).at = "ensure"
  BY StateNumbers DEF Typed, Slots, Idle, Reconciled, Ensure
<1>w. settle.at # "wait" => \A c \in Rotations : ~c.heard
  BY DEF KeysInv, Promotion
\* Only settleSpkState moves.
<1>u. ASSUME UNCHANGED <<now, serverVars, calls, deviceVars, boot, refill>>,
             settle'.at \in {"idle", "ensure"} \/ srv.ik # 0, Promotion'
      PROVE  Goal
  <2>1. UNCHANGED <<srv, replaced, rows, fetches, gen, minted, ik, slot, opks, kept, dropped>>
    BY <1>u DEF serverVars, deviceVars
  <2>2. Rotations' = Rotations
    BY <1>u DEF Rotations
  <2>3. AllPresent' <=> AllPresent
    BY <2>1 DEF AllPresent
  <2> QED
    BY <1>u, <2>1, <2>2, <2>3 DEF KeysInv, NeverMintsAgain, FirstPublication, CallsDated,
       RotationsOrdered, AdvertisedKept, SignatureFits, Held
\* What the promotion needs of it.
<1>p. ASSUME UNCHANGED <<now, serverVars, calls, deviceVars, boot, refill>>,
             settle.at # "wait",
             \/ settle'.at \in {"idle", "ensure"}
             \/ settle'.at = "fetch" /\ slot["pending"] # 0
             \/ /\ settle'.at = "fetched" /\ slot["pending"] # 0
                /\ settle'.key = srv.spk /\ settle'.ts = srv.ts
             \/ settle'.at = "demote" /\ slot["pending"] # 0 /\ srv.spk = minted
      PROVE  Promotion'
  <2>1. UNCHANGED <<srv, minted, slot, kept>> /\ Rotations' = Rotations
    BY <1>p DEF serverVars, deviceVars, Rotations
  <2>2. srv.spk <= srv.spk /\ srv.ts <= srv.ts
    BY <1>i, Numbers DEF ServerKeys
  <2> QED
    BY <1>p, <1>w, <2>1, <2>2 DEF KeysInv, Promotion, OnPending, Promoting
<1>o. settle.at \notin {"idle", "ensure"} => srv.ik # 0
  BY DEF KeysInv, FirstPublication
<1>z. slot["pending"] # 0 => srv.ik # 0
  BY DEF KeysInv, FirstPublication
<1> HIDE DEF Goal
<1>1. ASSUME SettleSpkState PROVE Goal
  <2>1. settle.at # "wait" /\ UNCHANGED <<now, serverVars, calls, deviceVars, boot, refill>>
    BY <1>1, <1>i DEF SettleSpkState
  <2>2. \/ settle'.at = "ensure"
        \/ settle'.at = "fetch" /\ slot["pending"] # 0
    BY <1>1, <1>i DEF SettleSpkState, Idle
  <2> QED
    BY <1>p, <1>u, <1>z, <2>1, <2>2
<1>2. ASSUME GetOwnKeys PROVE Goal
  <2>1. settle.at = "fetch" /\ UNCHANGED <<now, serverVars, calls, deviceVars, boot, refill>>
    BY <1>2 DEF GetOwnKeys
  <2>2. settle'.at = "fetched" /\ settle'.key = srv.spk /\ settle'.ts = srv.ts
    BY <1>2, <1>i DEF GetOwnKeys, Settlings
  <2>3. slot["pending"] # 0
    BY <2>1 DEF KeysInv, Promotion, OnPending
  <2> QED
    BY <1>p, <1>u, <1>z, <2>1, <2>2, <2>3
<1>3. ASSUME FetchFails PROVE Goal
  BY <1>3, <1>i, <1>p, <1>u DEF FetchFails
<1>4. ASSUME FinishRotation PROVE Goal
  <2>1. settle.at = "fetched" /\ settle.key = slot["pending"]
        /\ UNCHANGED <<now, serverVars, calls, deviceVars, boot, refill>>
    BY <1>4 DEF FinishRotation
  <2>2. settle'.at = "demote"
    BY <1>4, <1>i DEF FinishRotation, Settlings
  <2>3. slot["pending"] # 0 /\ slot["pending"] = minted /\ settle.key <= srv.spk
    BY <2>1 DEF KeysInv, Promotion, OnPending
  <2>4. srv.spk = minted
    BY <1>i, <2>1, <2>3 DEF ServerKeys
  <2> QED
    BY <1>p, <1>u, <1>z, <2>1, <2>2, <2>3, <2>4
<1>5. ASSUME EnsureSpkRotated, settle' = Idle, UNCHANGED <<minted, slot, calls>> PROVE Goal
  <2>1. settle.at = "ensure" /\ UNCHANGED <<now, serverVars, calls, deviceVars, boot, refill>>
    BY <1>5 DEF EnsureSpkRotated, deviceVars
  <2> QED
    BY <1>5, <1>i, <1>p, <1>u, <2>1
<1>6. Goal
  BY <1>1, <1>2, <1>3, <1>4, <1>5
<1> QED
  BY <1>6 DEF Goal

\* A new rotation: its key has a slot of its own, and no call the server may
\* still accept is dated after it.
LEMMA NewRotationKeeps ==
    ASSUME Typed, KeysInv, EnsureSpkRotated, settle' # Idle \/ ~UNCHANGED <<minted, slot, calls>>
    PROVE  KeysInv'
<1> USE DEF KeysInv
<1> DEFINE c0 == RotateCall(minted + 1, RotationTs)
<1>1. /\ settle.at = "ensure" /\ RotationDue /\ slot["pending"] = 0
      /\ minted' = minted + 1
      /\ slot' = [slot EXCEPT !["pending"] = minted + 1]
      /\ calls' = calls \cup {c0}
      /\ settle' = [settle EXCEPT !.at = "wait"]
      /\ UNCHANGED <<now, srv, replaced, rows, fetches, gen, ik, opks, kept, dropped, boot, refill>>
  BY DEF EnsureSpkRotated, NothingPending, serverVars
<1>2. /\ settle \in Settlings /\ srv \in ServerKeys /\ slot \in [Slots -> 0 .. minted]
      /\ Slots = {"current", "pending", "previous", "archived"}
      /\ minted \in Nat /\ now \in Nat /\ kept.conflictTs \in Int /\ srv.ts \in Int
      /\ kept.conflictTs \in Stamps
      /\ \A c \in Rotations : c.ts \in Int /\ c.spk \in 0 .. minted /\ c.spk # 0
  BY StateNumbers, Numbers DEF Typed, Slots, Marks, ServerKeys, Calls, Rotations, CallsDated
<1>3. srv.ik # 0 /\ srv.spk # 0 /\ AllPresent
  BY <1>1 DEF RotationDue, FirstPublication, NeverMintsAgain
<1>4. /\ c0.kind = "rotate" /\ c0.ik = ik /\ c0.spk = minted + 1 /\ c0.ts = RotationTs
      /\ c0.idx = {} /\ c0.by = "settle"
  BY DEF RotateCall
<1> HIDE DEF c0
<1>5. Rotations' = Rotations \cup {c0}
  BY <1>1, <1>4 DEF Rotations
<1>6. RotationTs \in Int /\ RotationTs >= now /\ RotationTs > kept.conflictTs
      /\ (RotationTs <= now \/ RotationTs <= kept.conflictTs + 1)
  BY <1>2 DEF RotationTs
<1>7. /\ slot'["pending"] = minted + 1
      /\ \A s \in {"current", "previous", "archived"} : slot'[s] = slot[s]
      /\ settle'.at = "wait"
  BY <1>1, <1>2 DEF Settlings
<1>8. NeverMintsAgain'
  <2>1. AllPresent'
    BY <1>1, <1>3, <1>7 DEF AllPresent
  <2> QED
    BY <1>1, <1>4, <2>1 DEF NeverMintsAgain
<1>9. FirstPublication'
  BY <1>1, <1>3 DEF FirstPublication
<1>10. CallsDated'
  <2>1. c0.ts # Never /\ c0.spk # 0
    BY <1>2, <1>4, <1>6 DEF Never
  <2> QED
    BY <1>1, <1>4, <2>1 DEF CallsDated
<1>11. Promotion'
  <2>1. \A c \in Rotations : ~c.heard
    BY <1>1 DEF Promotion
  <2>2. minted + 1 # 0
    BY <1>2
  <2> QED
    BY <1>1, <1>4, <1>5, <1>7, <2>1, <2>2 DEF Promotion, Promoting
<1>12. RotationsOrdered'
  <2>1. \A c \in Rotations :
           /\ c.spk \in {slot'["pending"], slot'["archived"]} \cup dropped
           /\ c.spk # minted + 1
           /\ ~(minted + 1 < c.spk)
           /\ c.ts <= c0.ts \/ c.ts <= srv.ts
    <3> SUFFICES ASSUME NEW c \in Rotations
                 PROVE  /\ c.spk \in {slot'["pending"], slot'["archived"]} \cup dropped
                        /\ c.spk # minted + 1
                        /\ ~(minted + 1 < c.spk)
                        /\ c.ts <= c0.ts \/ c.ts <= srv.ts
      OBVIOUS
    <3>1. c.spk \in {slot'["pending"], slot'["archived"]} \cup dropped
      BY <1>1, <1>2, <1>7 DEF RotationsOrdered
    <3>2. c.ts \in Int /\ c.spk \in 0 .. minted
      BY <1>2
    <3>3. c.ts <= srv.ts \/ c.ts <= now \/ c.ts <= kept.conflictTs + 1
      BY DEF RotationsOrdered
    <3>4. c.ts <= c0.ts \/ c.ts <= srv.ts
      BY <1>2, <1>4, <1>6, <3>2, <3>3
    <3> QED
      BY <1>2, <3>1, <3>2, <3>4
  <2>2. c0.spk # srv.spk /\ ~(c0.spk < srv.spk)
    BY <1>2, <1>4 DEF ServerKeys
  <2>3. \A c \in Rotations' :
           /\ c.spk \in {slot'["pending"], slot'["archived"]} \cup dropped
           /\ c.spk # srv.spk
           /\ c.spk < srv.spk => c.ts <= srv.ts
           /\ c.ts <= srv.ts \/ c.ts <= now \/ c.ts <= kept.conflictTs + 1
    BY <1>4, <1>5, <1>6, <1>7, <2>1, <2>2 DEF RotationsOrdered
  <2>4. \A c, d \in Rotations' : /\ c.spk = d.spk => c = d
                                 /\ c.spk < d.spk => c.ts <= d.ts \/ c.ts <= srv.ts
    <3>1. ASSUME NEW c \in Rotations, NEW d \in Rotations
          PROVE  /\ c.spk = d.spk => c = d
                 /\ c.spk < d.spk => c.ts <= d.ts \/ c.ts <= srv.ts
      BY DEF RotationsOrdered
    <3>2. ~(c0.spk < c0.spk)
      BY <1>2, <1>4
    <3> QED
      BY <1>4, <1>5, <2>1, <3>1, <3>2
  <2> QED
    BY <1>1, <2>3, <2>4 DEF RotationsOrdered
<1>13. AdvertisedKept'
  <2>1. srv.spk \in {slot'["current"], slot'["pending"], slot'["archived"]} \cup dropped
    BY <1>1, <1>3, <1>7 DEF AdvertisedKept
  <2>2. replaced # 0 => replaced \in Held' \cup dropped
    <3>1. Held \subseteq Held'
      BY <1>1, <1>2, <1>7 DEF Held
    <3> QED
      BY <3>1 DEF AdvertisedKept
  <2> QED
    BY <1>1, <1>7, <2>1, <2>2 DEF AdvertisedKept, SignatureFits
<1> QED
  BY <1>8, <1>9, <1>10, <1>11, <1>12, <1>13

\* The marks: a conflict is dated by what the server said, and forgotten when
\* the server advertises the youngest key.
LEMMA MarkingKeeps ==
    ASSUME Typed, KeysInv, RecordConflict \/ Stamp \/ ClearConflict
    PROVE  KeysInv'
<1> DEFINE Goal == KeysInv'
<1>i. /\ settle \in Settlings /\ srv \in ServerKeys /\ kept \in Marks
      /\ settle.ts \in Int /\ srv.ts \in Int /\ kept.conflictTs \in Int /\ Never <= srv.ts
      /\ Reconciled.at \in {"ensure", "idle"} /\ minted \in Nat /\ srv.spk \in 0 .. minted
      /\ \A c \in Rotations : c.ts \in Int /\ c.spk \in 0 .. minted
  BY StateNumbers, Numbers
     DEF Typed, Settlings, ServerKeys, Marks, Calls, Rotations, Reconciled, Ensure, Idle
<1>n. settle.at \notin {"idle", "ensure"} => srv.ik # 0
  BY DEF KeysInv, FirstPublication
<1>w. settle.at # "wait" => \A c \in Rotations : ~c.heard
  BY DEF KeysInv, Promotion
<1>u. ASSUME UNCHANGED <<now, serverVars, calls, gen, minted, ik, slot, opks, dropped, boot, refill>>,
             srv.ik # 0, kept'.identityPublished = kept.identityPublished, Promotion',
             \A c \in Rotations : c.ts <= kept.conflictTs + 1 =>
                c.ts <= kept'.conflictTs + 1 \/ c.ts <= srv.ts
      PROVE  Goal
  <2>1. UNCHANGED <<srv, replaced, rows, fetches>>
    BY <1>u DEF serverVars
  <2>2. Rotations' = Rotations
    BY <1>u DEF Rotations
  <2>3. NeverMintsAgain'
    <3>1. AllPresent' <=> AllPresent
      BY <1>u DEF AllPresent
    <3> QED
      BY <1>u, <2>1, <3>1 DEF KeysInv, NeverMintsAgain
  <2>4. FirstPublication' /\ CallsDated' /\ AdvertisedKept'
    BY <1>u, <2>1 DEF KeysInv, FirstPublication, CallsDated, AdvertisedKept, SignatureFits, Held
  <2>5. RotationsOrdered'
    <3>1. \A c \in Rotations :
             c.ts <= srv.ts \/ c.ts <= now \/ c.ts <= kept'.conflictTs + 1
      BY <1>u DEF KeysInv, RotationsOrdered
    <3> QED
      BY <1>u, <2>1, <2>2, <3>1 DEF KeysInv, RotationsOrdered
  <2> QED
    BY <1>u, <2>3, <2>4, <2>5 DEF KeysInv
<1> HIDE DEF Goal
<1>1. ASSUME RecordConflict PROVE Goal
  <2>1. /\ settle.at = "fetched" /\ slot["pending"] # 0
        /\ UNCHANGED <<now, serverVars, calls, gen, minted, ik, slot, opks, dropped, boot, refill>>
    BY <1>1 DEF RecordConflict, KeysInv, Promotion, OnPending
  <2>2. /\ kept'.conflictTs = settle.ts /\ kept'.identityPublished = kept.identityPublished
        /\ settle'.at = "archive"
    BY <1>1, <1>i DEF RecordConflict, Marks, Settlings
  <2>3. settle.ts <= srv.ts /\ kept.conflictTs <= settle.ts
    BY <2>1 DEF KeysInv, Promotion
  <2>4. \A c \in Rotations : c.ts <= kept.conflictTs + 1 => c.ts <= settle.ts + 1
    BY <1>i, <2>3
  <2>5. Promotion'
    <3>1. Rotations' = Rotations /\ UNCHANGED <<srv, slot, minted>>
      BY <2>1 DEF Rotations, serverVars
    <3> QED
      BY <1>w, <2>1, <2>2, <2>3, <3>1 DEF KeysInv, Promotion, Promoting
  <2> QED
    BY <1>n, <1>u, <2>1, <2>2, <2>4, <2>5
<1>2. ASSUME Stamp PROVE Goal
  <2>1. /\ settle.at = "stamp"
        /\ UNCHANGED <<now, serverVars, calls, gen, minted, ik, slot, opks, dropped, boot, refill>>
    BY <1>2 DEF Stamp
  <2>2. /\ kept'.conflictTs = kept.conflictTs /\ kept'.identityPublished = kept.identityPublished
        /\ settle'.at = "unpend"
    BY <1>2, <1>i DEF Stamp, Marks, Settlings
  <2>3. Promotion'
    <3>1. Rotations' = Rotations /\ UNCHANGED <<srv, slot, minted>>
      BY <2>1 DEF Rotations, serverVars
    <3> QED
      BY <1>w, <2>1, <2>2, <3>1 DEF KeysInv, Promotion, OnPending, Promoting
  <2> QED
    BY <1>n, <1>u, <2>1, <2>2, <2>3
<1>3. ASSUME ClearConflict PROVE Goal
  <2>1. /\ settle.at = "clear" /\ srv.spk = minted
        /\ UNCHANGED <<now, serverVars, calls, gen, minted, ik, slot, opks, dropped, boot, refill>>
    BY <1>3 DEF ClearConflict, KeysInv, Promotion, Promoting
  <2>2. /\ kept'.conflictTs = Never /\ kept'.identityPublished = kept.identityPublished
        /\ settle'.at \in {"ensure", "idle"}
    BY <1>3, <1>i DEF ClearConflict, Marks
  <2>3. \A c \in Rotations : c.ts <= srv.ts
    <3> SUFFICES ASSUME NEW c \in Rotations PROVE c.ts <= srv.ts
      OBVIOUS
    <3>1. c.spk # srv.spk /\ (c.spk < srv.spk => c.ts <= srv.ts)
      BY DEF KeysInv, RotationsOrdered
    <3> QED
      BY <1>i, <2>1, <3>1
  <2>4. Promotion'
    <3>1. Rotations' = Rotations /\ UNCHANGED <<srv, slot, minted>>
      BY <2>1 DEF Rotations, serverVars
    <3> QED
      BY <1>i, <1>w, <2>1, <2>2, <3>1 DEF KeysInv, Promotion, OnPending, Promoting
  <2> QED
    BY <1>n, <1>u, <2>1, <2>2, <2>3, <2>4
<1>4. Goal
  BY <1>1, <1>2, <1>3
<1> QED
  BY <1>4 DEF Goal

\* Keys move between the slots: no key the server advertises, or may still
\* accept, is left without one, unless reconciliation gives it up.
LEMMA MovingKeeps ==
    ASSUME Typed, KeysInv,
           DiscardPending \/ ArchivePending \/ Demote \/ MoveCurrent \/ Unpend
    PROVE  KeysInv'
<1> DEFINE Goal == KeysInv'
<1>i. /\ settle \in Settlings /\ srv \in ServerKeys /\ slot \in [Slots -> 0 .. minted]
      /\ Slots = {"current", "pending", "previous", "archived"}
      /\ minted \in Nat /\ srv.spk \in 0 .. minted /\ replaced \in 0 .. minted
      /\ \A s \in Slots : slot[s] \in 0 .. minted
      /\ Reconciled.at \in {"ensure", "idle"} /\ \A r : Ensure(r).at = "ensure"
  BY StateNumbers DEF Typed, Slots, ServerKeys, Reconciled, Ensure, Idle
<1>o. /\ settle.at \in OnPending /\ settle.at \notin {"idle", "ensure", "wait"}
      /\ UNCHANGED <<now, serverVars, calls, gen, minted, ik, opks, kept, boot, refill>>
  BY DEF DiscardPending, ArchivePending, Demote, MoveCurrent, Unpend, OnPending
<1>p. slot["pending"] # 0 /\ slot["pending"] = minted
  BY <1>o DEF KeysInv, Promotion
<1>n. srv.ik # 0 /\ srv.spk # 0
  BY <1>o DEF KeysInv, FirstPublication
<1>w. Rotations' = Rotations /\ \A c \in Rotations : ~c.heard /\ c.spk # 0
  BY <1>o DEF KeysInv, Promotion, Rotations, CallsDated
<1>s. UNCHANGED <<srv, replaced, rows, fetches, minted, kept>>
  BY <1>o DEF serverVars
\* What is left to show, step by step: where the keys are now.
<1>u. ASSUME slot["current"] # 0 => slot'["current"] # 0,
             Promotion',
             \A c \in Rotations : c.spk \in {slot'["pending"], slot'["archived"]} \cup dropped',
             srv.spk \in {slot'["current"], slot'["pending"], slot'["archived"]} \cup dropped',
             srv.spk >= slot'["current"],
             srv.spk > slot'["current"] => replaced >= slot'["current"],
             slot'["previous"] <= slot'["current"],
             replaced # 0 => replaced \in Held' \cup dropped'
      PROVE  Goal
  <2>1. NeverMintsAgain'
    <3>1. AllPresent => AllPresent'
      BY <1>o, <1>u DEF AllPresent
    <3> QED
      BY <1>o, <1>s, <3>1 DEF KeysInv, NeverMintsAgain
  <2>2. FirstPublication' /\ CallsDated'
    BY <1>n, <1>o, <1>s DEF KeysInv, FirstPublication, CallsDated
  <2>3. RotationsOrdered'
    BY <1>o, <1>s, <1>u, <1>w DEF KeysInv, RotationsOrdered
  <2>4. AdvertisedKept'
    BY <1>s, <1>u DEF KeysInv, AdvertisedKept, SignatureFits
  <2> QED
    BY <1>u, <2>1, <2>2, <2>3, <2>4 DEF KeysInv
<1>a. \A a \in {"move", "stamp", "clear"} : [settle EXCEPT !.at = a].at = a
  BY <1>i DEF Settlings
\* As things are before the step.
<1>b. /\ \A c \in Rotations : c.spk \in {slot["pending"], slot["archived"]} \cup dropped
      /\ srv.spk \in {slot["current"], slot["pending"], slot["archived"]} \cup dropped
      /\ srv.spk >= slot["current"]
      /\ srv.spk > slot["current"] => replaced >= slot["current"]
      /\ slot["previous"] <= slot["current"]
      /\ replaced # 0 =>
            replaced \in {slot["current"], slot["pending"], slot["previous"], slot["archived"]}
                         \cup dropped
      /\ kept.conflictTs <= srv.ts
  BY <1>i, <1>n DEF KeysInv, AdvertisedKept, RotationsOrdered, Promotion, Held
<1>h. Held' = {slot'["current"], slot'["pending"], slot'["previous"], slot'["archived"]} \ {0}
  BY DEF Held, Slots
<1> HIDE DEF Goal
<1>1. ASSUME DiscardPending PROVE Goal
  <2>1. /\ slot' = [slot EXCEPT !["pending"] = 0]
        /\ dropped' = dropped \cup {slot["pending"]} /\ settle'.at \in {"ensure", "idle"}
    BY <1>1, <1>i DEF DiscardPending
  <2>2. slot'["pending"] = 0 /\ \A s \in {"current", "previous", "archived"} : slot'[s] = slot[s]
    BY <1>i, <2>1
  <2>3. Promotion'
    BY <1>b, <1>s, <1>w, <2>1, <2>2 DEF Promotion, OnPending, Promoting
  <2> QED
    BY <1>b, <1>h, <1>u, <2>1, <2>2, <2>3
<1>2. ASSUME ArchivePending PROVE Goal
  <2>1. /\ slot' = [slot EXCEPT !["archived"] = slot["pending"], !["pending"] = 0]
        /\ dropped' = dropped \cup ({slot["archived"]} \ {0}) /\ settle'.at = "ensure"
    BY <1>2, <1>i DEF ArchivePending
  <2>2. /\ slot'["pending"] = 0 /\ slot'["archived"] = slot["pending"]
        /\ \A s \in {"current", "previous"} : slot'[s] = slot[s]
    BY <1>i, <2>1
  <2>3. Promotion'
    BY <1>b, <1>s, <1>w, <2>1, <2>2 DEF Promotion, OnPending, Promoting
  <2>4. \A c \in Rotations : c.spk \in {slot'["pending"], slot'["archived"]} \cup dropped'
    BY <1>b, <1>w, <2>1, <2>2
  <2> QED
    BY <1>b, <1>h, <1>n, <1>u, <2>1, <2>2, <2>3, <2>4
<1>3. ASSUME Demote PROVE Goal
  <2>1. /\ slot' = IF AlreadyMoved THEN slot ELSE [slot EXCEPT !["previous"] = slot["current"]]
        /\ settle'.at = "move" /\ srv.spk = minted /\ dropped' = dropped
    BY <1>3, <1>a DEF Demote, KeysInv, Promotion, Promoting
  <2>2. /\ \A s \in {"current", "pending", "archived"} : slot'[s] = slot[s]
        /\ slot["current"] = slot["pending"] => slot'["previous"] = slot["previous"]
        /\ slot["current"] # slot["pending"] => slot'["previous"] = slot["current"]
    BY <1>i, <2>1 DEF AlreadyMoved
  <2>3. Promotion'
    BY <1>b, <1>p, <1>s, <1>w, <2>1, <2>2 DEF Promotion, OnPending, Promoting
  <2>4. slot'["previous"] <= slot'["current"]
    BY <1>b, <1>i, <2>2
  <2>5. replaced # 0 => replaced \in Held' \cup dropped'
    <3>1. CASE slot["current"] = slot["pending"]
      BY <1>b, <1>h, <2>1, <2>2, <3>1
    <3>2. CASE slot["current"] # slot["pending"]
      <4>1. replaced >= slot["current"]
        BY <1>b, <1>i, <1>p, <2>1, <3>2
      <4>2. replaced = slot["previous"] => replaced = slot["current"]
        BY <1>b, <1>i, <4>1
      <4> QED
        BY <1>b, <1>h, <2>1, <2>2, <4>2
    <3> QED
      BY <3>1, <3>2
  <2> QED
    BY <1>b, <1>u, <2>1, <2>2, <2>3, <2>4, <2>5
<1>4. ASSUME MoveCurrent PROVE Goal
  <2>1. /\ slot' = [slot EXCEPT !["current"] = slot["pending"]] /\ dropped' = dropped
        /\ settle'.at = "stamp" /\ srv.spk = minted
        /\ slot["current"] \in {slot["previous"], slot["pending"]}
    BY <1>4, <1>a DEF MoveCurrent, KeysInv, Promotion, Promoting
  <2>2. /\ slot'["current"] = slot["pending"]
        /\ \A s \in {"pending", "previous", "archived"} : slot'[s] = slot[s]
    BY <1>i, <2>1
  <2>3. Promotion'
    BY <1>b, <1>p, <1>s, <1>w, <2>1, <2>2 DEF Promotion, OnPending, Promoting
  <2>4. /\ slot'["current"] # 0 /\ srv.spk = slot'["current"]
        /\ slot'["previous"] <= slot'["current"]
        /\ srv.spk >= slot'["current"] /\ ~(srv.spk > slot'["current"])
    BY <1>i, <1>p, <2>1, <2>2
  <2>5. replaced # 0 => replaced \in Held' \cup dropped'
    BY <1>b, <1>h, <2>1, <2>2
  <2> QED
    BY <1>b, <1>u, <2>1, <2>2, <2>3, <2>4, <2>5
<1>5. ASSUME Unpend PROVE Goal
  <2>1. /\ slot' = [slot EXCEPT !["pending"] = 0] /\ dropped' = dropped
        /\ settle'.at = "clear" /\ srv.spk = minted /\ slot["current"] = slot["pending"]
    BY <1>5, <1>a DEF Unpend, KeysInv, Promotion, Promoting
  <2>2. slot'["pending"] = 0 /\ \A s \in {"current", "previous", "archived"} : slot'[s] = slot[s]
    BY <1>i, <2>1
  <2>3. Promotion'
    BY <1>b, <1>s, <1>w, <2>1, <2>2 DEF Promotion, OnPending, Promoting
  <2>4. \A c \in Rotations : c.spk \in {slot'["pending"], slot'["archived"]} \cup dropped'
    BY <1>b, <1>p, <2>1, <2>2 DEF KeysInv, RotationsOrdered
  <2> QED
    BY <1>b, <1>h, <1>u, <2>1, <2>2, <2>3, <2>4
<1>6. Goal
  BY <1>1, <1>2, <1>3, <1>4, <1>5
<1> QED
  BY <1>6 DEF Goal

-----------------------------------------------------------------------------
(***************************************************************************)
(* The invariant holds.                                                    *)
(***************************************************************************)

\* Nothing is published, minted or in flight at first.
LEMMA PInvInit == Init => PInv
<1> SUFFICES ASSUME Init PROVE PInv
  OBVIOUS
<1>1. Typed
  BY TypedInit
<1>2. /\ srv.ik = 0 /\ srv.spk = 0 /\ srv.ts = Never /\ calls = {} /\ replaced = 0
      /\ boot.at = "idle" /\ settle.at = "idle" /\ refill.at = "idle"
      /\ ~kept.identityPublished /\ kept.spkTs = Never /\ kept.conflictTs = Never
      /\ \A s \in Slots : slot[s] = 0
      /\ \A i \in Idx : rows[i].ik = 0 /\ ~rows[i].used
      /\ \A f \in Fetchers : fetches[f].opk = Never
  BY DEF Init, NoServerKeys, Idle, NoRow, NoBundle
<1>3. Rotations = {}
  BY <1>2 DEF Rotations
<1>4. Never <= Never /\ 0 <= 0
  BY DEF Never
<1>5. NeverMintsAgain /\ FirstPublication /\ CallsDated
  BY <1>2, <1>3 DEF NeverMintsAgain, FirstPublication, CallsDated, Slots
<1>6. Promotion /\ RotationsOrdered
  BY <1>2, <1>3, <1>4 DEF Promotion, RotationsOrdered, OnPending, Promoting, Slots
<1>7. AdvertisedKept /\ OpksClaimed
  BY <1>2, <1>4 DEF AdvertisedKept, SignatureFits, OpksClaimed, OpkGivenOnce, Slots
<1> QED
  BY <1>1, <1>5, <1>6, <1>7 DEF PInv

\* Every step keeps it.
LEMMA PInvStep == PInv /\ [Next]_vars => PInv'
<1> SUFFICES ASSUME Typed, KeysInv, OpksClaimed, [Next]_vars PROVE PInv'
  BY DEF PInv, KeysInv
<1> DEFINE Goal == Typed' /\ KeysInv' /\ OpksClaimed'
<1>p. Promotion
  BY DEF KeysInv
<1>1. ASSUME \/ Kill
             \/ \E c \in calls : GiveUp(c) \/ LoseCall(c) \/ Refuse(c) \/ Admit(c)
      PROVE  Goal
  <2>1. UNCHANGED <<rows, fetches>>
    BY <1>1 DEF Kill, GiveUp, LoseCall, Refuse, Admit, serverVars
  <2>2. Typed'
    BY <1>1, TypedFades
  <2>3. KeysInv'
    BY <1>1, FadesFade, FadingKeeps
  <2>4. OpksClaimed'
    BY <2>1, OpksClaimedStep
  <2> QED
    BY <2>2, <2>3, <2>4
<1>2. ASSUME NEW c \in calls, Publishes(c) \/ Rotates(c) PROVE Goal
  <2>1. UNCHANGED <<rows, fetches>>
    BY <1>2 DEF Publishes, Rotates, Apply
  <2> QED
    BY <1>2, <2>1, TypedAccepted, PublicationKeeps, RotationKeeps, OpksClaimedStep
<1>3. ASSUME NEW c \in calls, ReplenishOPKs(c) PROVE Goal
  BY <1>3, TypedAccepted, BatchKeeps, OpksClaimedStep
<1>4. ASSUME \/ Tick
             \/ \E f \in Fetchers : ReadIdentity(f) \/ PopRandom(f) \/ WriteBundle(f)
             \/ ReplenishOpks \/ GetOPKCount
      PROVE  Goal
  <2>1. Tick \/ ReplenishOpks \/ GetOPKCount => UNCHANGED <<rows, fetches>>
    BY DEF Tick, ReplenishOpks, GetOPKCount, serverVars
  <2> QED
    BY <1>4, <2>1, TypedOthers, OthersKeep, OpksClaimedStep
<1>5. ASSUME \/ \E n \in 0 .. Boot + 2 : GenerateKeys(n)
             \/ ReadKeysFromStore \/ PublishIdentity \/ SetSpkTs \/ MarkIdentityPublished
             \/ PublishInitialOpks \/ MarkInitialOpksPublished
             \/ \E n \in 0 .. Target : MintOpks(n)
      PROVE  Goal
  <2>1. UNCHANGED <<rows, fetches>>
    BY <1>5 DEF GenerateKeys, ReadKeysFromStore, PublishIdentity, SetSpkTs,
       MarkIdentityPublished, PublishInitialOpks, MarkInitialOpksPublished, MintOpks, serverVars
  <2> QED
    BY <1>5, <2>1, TypedBoot, BootKeeps, OpksClaimedStep
<1>6. ASSUME SettleStep PROVE Goal
  <2>1. UNCHANGED <<rows, fetches>>
    BY <1>6 DEF SettleStep, SettleSpkState, GetOwnKeys, FetchFails, FinishRotation,
       DiscardPending, RecordConflict, ArchivePending, EnsureSpkRotated, Demote, MoveCurrent,
       Stamp, Unpend, ClearConflict, serverVars
  <2>2. Typed' /\ OpksClaimed'
    BY <1>6, <1>p, <2>1, TypedSettle, OpksClaimedStep
  <2>3. KeysInv'
    BY <1>6, LookingKeeps, NewRotationKeeps, MarkingKeeps, MovingKeeps DEF SettleStep
  <2> QED
    BY <2>2, <2>3
<1>7. ASSUME UNCHANGED vars PROVE Goal
  <2>1. /\ UNCHANGED <<now, srv, replaced, rows, fetches, calls, gen, minted, ik, slot, opks>>
        /\ UNCHANGED <<kept, boot, settle, refill, dropped>>
    BY <1>7 DEF vars, serverVars, deviceVars, tasks
  <2>2. Typed'
    BY <2>1 DEF Typed, ServerKeys, OpkRows, Calls, Bootings, Settlings
  <2>3. NeverMintsAgain' /\ FirstPublication' /\ CallsDated'
    BY <2>1 DEF KeysInv, NeverMintsAgain, AllPresent, FirstPublication, CallsDated, Rotations
  <2>4. Promotion' /\ RotationsOrdered' /\ AdvertisedKept'
    BY <2>1 DEF KeysInv, Promotion, RotationsOrdered, Rotations, AdvertisedKept, SignatureFits, Held
  <2>5. OpksClaimed'
    BY <2>1, OpksClaimedStep
  <2> QED
    BY <2>2, <2>3, <2>4, <2>5 DEF KeysInv
<1> HIDE DEF Goal
<1>8. ASSUME NEW c \in calls, ServerStep(c) PROVE Goal
  BY <1>1, <1>2, <1>3, <1>8, ServerMoves
<1>9. Goal
  BY <1>1, <1>4, <1>5, <1>6, <1>7, <1>8 DEF Next, SettleStep
<1> QED
  BY <1>9 DEF Goal, PInv, KeysInv

\* The inductive invariant of the device's and the server's prekeys.
THEOREM PrekeysInvariant == Spec => []PInv
<1>1. Init => PInv
  BY PInvInit
<1>2. PInv /\ [Next]_vars => PInv'
  BY PInvStep
<1> QED
  BY <1>1, <1>2, PTL DEF Spec

\* Everything the device and the server store stays well formed; an OPK row
\* belongs to the published identity, and a bundle names a used one.
THEOREM PrekeysKeepTypes == Spec => []TypeOK
<1>1. PInv => TypeOK
  <2> SUFFICES ASSUME Typed, OpksClaimed PROVE TypeOK
    BY DEF PInv
  <2>1. /\ srv.ik \in 0 .. gen /\ srv.spk \in 0 .. minted /\ srv.ts \in Time \cup {Never}
        /\ kept.spkTs \in Time \cup {Never} /\ kept.conflictTs \in Time \cup {Never}
    BY DEF Typed, ServerKeys, Marks, Stamps
  <2>2. \A c \in calls : c.ts \in Time \cup {Never} /\ c.idx \subseteq Idx
    BY DEF Typed, Calls, Stamps
  <2>3. \A f \in Fetchers : /\ fetches[f].st \in {"none", "read", "popped", "done"}
                            /\ fetches[f].opk # Never => rows[fetches[f].opk].used
    BY DEF Typed, Bundles, OpksClaimed
  <2> QED
    BY <2>1, <2>2, <2>3 DEF Typed, TypeOK, OpkRows
<1> QED
  BY <1>1, PrekeysInvariant, PTL

\* A one-time prekey goes into one bundle: FOR UPDATE SKIP LOCKED marks the row
\* it returns, and a batch published again leaves a claimed row as it is.
THEOREM OpksGoToOne == Spec => []OpkGivenOnce
<1>1. PInv => OpkGivenOnce
  BY DEF PInv, OpksClaimed
<1> QED
  BY <1>1, PrekeysInvariant, PTL

\* What the server hands out works on the device, whatever bootstrap and
\* rotations lost, repeated and delayed.
THEOREM AdvertisedKeysWork == Spec => []AdvertisedWorks
<1>1. PInv => AdvertisedWorks
  <2> SUFFICES ASSUME PInv PROVE AdvertisedWorks
    OBVIOUS
  <2>1. srv.ik # 0 => ik = srv.ik /\ AllPresent
    BY DEF PInv, NeverMintsAgain
  <2>2. IdentityHeld
    BY <2>1 DEF IdentityHeld, AllPresent
  <2>3. SignatureFits
    BY DEF PInv, AdvertisedKept
  <2>4. SpkAddressable
    <3>1. srv.spk # 0 => srv.spk \in Held \cup dropped
      BY DEF PInv, AdvertisedKept, FirstPublication, Held, Slots
    <3>2. replaced # 0 => replaced \in Held \cup dropped
      BY DEF PInv, AdvertisedKept
    <3> QED
      BY <3>1, <3>2 DEF SpkAddressable
  <2>5. OpkAddressable
    <3>1. \A i \in Idx : rows[i].ik \in {0, srv.ik} /\ (rows[i].ik # 0 => i \in opks)
      BY DEF PInv, Typed, OpkRows, NeverMintsAgain
    <3> QED
      BY <2>1, <3>1 DEF OpkAddressable
  <2> QED
    BY <2>2, <2>3, <2>4, <2>5 DEF AdvertisedWorks
<1> QED
  BY <1>1, PrekeysInvariant, PTL

\* With nothing pending, the device's current SPK is the advertised one, unless
\* a reconciliation archived that or gave it up.
THEOREM SettledKeysAgree == Spec => []SettledAgrees
<1>1. PInv => SettledAgrees
  BY DEF PInv, AdvertisedKept, FirstPublication, SettledAgrees
<1> QED
  BY <1>1, PrekeysInvariant, PTL

\* The advertised timestamp and SPK only advance, in whichever order delayed
\* publications and rotations arrive.
THEOREM PrekeysNeverRollBack == Spec => NoRollback
<1>1. PInv /\ [Next]_vars =>
         [/\ srv'.ts >= srv.ts
          /\ srv'.spk # srv.spk => srv'.ts > srv.ts /\ srv'.spk > srv.spk]_vars
  <2> SUFFICES ASSUME Typed, KeysInv, Next
               PROVE  /\ srv'.ts >= srv.ts
                      /\ srv'.spk # srv.spk => srv'.ts > srv.ts /\ srv'.spk > srv.spk
    BY DEF PInv, KeysInv
  <2> DEFINE Goal == /\ srv'.ts >= srv.ts
                     /\ srv'.spk # srv.spk => srv'.ts > srv.ts /\ srv'.spk > srv.spk
  <2>i. /\ srv.ts \in Int /\ srv.ts >= Never /\ Never \in Int
        /\ srv.spk \in Int /\ minted \in Nat
        /\ \A c \in calls : c.ts \in Int /\ c.ts >= Never /\ c.spk \in 0 .. minted
    BY StateNumbers, Numbers DEF Typed, ServerKeys, Calls, Never
  <2>s. srv' = srv => Goal
    BY <2>i
  <2>1. ASSUME NEW c \in calls, Publishes(c) PROVE Goal
    <3>1. CASE srv.ik = 0
      <4>1. srv' = [ik |-> c.ik, spk |-> c.spk, ts |-> c.ts, sig |-> <<c.spk, c.ts>>]
            /\ c.kind = "upsert"
        BY <2>1, <3>1 DEF Publishes, Apply
      <4>2. srv.spk = 0 /\ srv.ts = Never /\ c.ts # Never
        BY <3>1, <4>1 DEF KeysInv, FirstPublication, CallsDated
      <4> QED
        BY <2>i, <4>1, <4>2
    <3>2. CASE srv.ik # 0
      <4>1. srv'.spk = srv.spk /\ srv'.ts = IF c.ts > srv.ts THEN c.ts ELSE srv.ts
        BY <2>1, <3>2, AppliedKeys DEF Publishes, Apply
      <4> QED
        BY <2>i, <4>1
    <3> QED
      BY <3>1, <3>2
  <2>2. ASSUME NEW c \in calls, Rotates(c) PROVE Goal
    <3>1. srv'.spk = c.spk /\ srv'.ts = c.ts /\ c.ts > srv.ts /\ c \in Rotations
      BY <2>2, AppliedKeys DEF Rotates, Apply, Rotations
    <3>2. c.spk < srv.spk => c.ts <= srv.ts
      BY <3>1 DEF KeysInv, RotationsOrdered
    <3> QED
      BY <2>i, <3>1, <3>2
  <2>3. ASSUME NEW c \in calls, GiveUp(c) \/ LoseCall(c) \/ Refuse(c) \/ Admit(c) \/ ReplenishOPKs(c)
        PROVE  srv' = srv
    BY <2>3 DEF GiveUp, LoseCall, Refuse, Admit, ReplenishOPKs, serverVars
  <2>4. ASSUME NEW c \in calls, ServerStep(c) PROVE Goal
    <3> HIDE DEF Goal
    <3> QED
      BY <2>1, <2>2, <2>3, <2>4, <2>s, ServerMoves
  <2>5. ASSUME \/ Tick \/ Kill
               \/ \E f \in Fetchers : ReadIdentity(f) \/ PopRandom(f) \/ WriteBundle(f)
               \/ ReplenishOpks \/ GetOPKCount
        PROVE  srv' = srv
    BY <2>5 DEF Tick, Kill, ReadIdentity, PopRandom, WriteBundle, ReplenishOpks, GetOPKCount,
       serverVars
  <2>6. ASSUME \/ \E n \in 0 .. Boot + 2 : GenerateKeys(n)
               \/ ReadKeysFromStore \/ PublishIdentity \/ SetSpkTs \/ MarkIdentityPublished
               \/ PublishInitialOpks \/ MarkInitialOpksPublished
               \/ \E n \in 0 .. Target : MintOpks(n)
        PROVE  srv' = srv
    BY <2>6 DEF GenerateKeys, ReadKeysFromStore, PublishIdentity, SetSpkTs,
       MarkIdentityPublished, PublishInitialOpks, MarkInitialOpksPublished, MintOpks, serverVars
  <2>7. ASSUME SettleStep PROVE srv' = srv
    BY <2>7 DEF SettleStep, SettleSpkState, GetOwnKeys, FetchFails, FinishRotation,
       DiscardPending, RecordConflict, ArchivePending, EnsureSpkRotated, Demote, MoveCurrent,
       Stamp, Unpend, ClearConflict, serverVars
  <2> HIDE DEF Goal
  <2>8. Goal
    BY <2>4, <2>5, <2>6, <2>7, <2>s DEF Next, SettleStep
  <2> QED
    BY <2>8 DEF Goal
<1> QED
  BY <1>1, PrekeysInvariant, PTL DEF Spec, NoRollback

\* From the first call it sends, bootstrap keeps the identity and the OPKs it
\* has: what is resumed after a kill is what the server has or may still get.
IdentityStays ==
    [][srv.ik # 0 \/ calls # {} => UNCHANGED <<gen, ik>> /\ opks \subseteq opks']_vars

\* No kill between two label writes, or between a call and the mark that
\* remembers it, makes the device mint a second identity over a published one.
THEOREM PublishedIdentityStays == Spec => IdentityStays
<1>1. PInv /\ [Next]_vars =>
         [srv.ik # 0 \/ calls # {} => UNCHANGED <<gen, ik>> /\ opks \subseteq opks']_vars
  <2> SUFFICES ASSUME NeverMintsAgain, Next, srv.ik # 0 \/ calls # {}
               PROVE  UNCHANGED <<gen, ik>> /\ opks \subseteq opks'
    BY DEF PInv
  <2> DEFINE Goal == UNCHANGED <<gen, ik>> /\ opks \subseteq opks'
  <2>1. ASSUME NEW n \in 0 .. Boot + 2, GenerateKeys(n) PROVE Goal
    BY <2>1 DEF GenerateKeys, NeverMintsAgain
  <2>2. ASSUME NEW n \in 0 .. Target, MintOpks(n) PROVE Goal
    BY <2>2 DEF MintOpks
  <2>3. ASSUME SettleStep PROVE Goal
    BY <2>3 DEF SettleStep, SettleSpkState, GetOwnKeys, FetchFails, FinishRotation,
       DiscardPending, RecordConflict, ArchivePending, EnsureSpkRotated, Demote, MoveCurrent,
       Stamp, Unpend, ClearConflict, deviceVars
  <2>4. ASSUME NEW c \in calls, ServerStep(c) PROVE Goal
    BY <2>4, ServerMoves DEF GiveUp, LoseCall, Refuse, Admit, Publishes, Rotates, Apply,
       ReplenishOPKs, deviceVars
  <2>5. ASSUME \/ Tick \/ Kill
               \/ \E f \in Fetchers : ReadIdentity(f) \/ PopRandom(f) \/ WriteBundle(f)
               \/ ReplenishOpks \/ GetOPKCount
               \/ ReadKeysFromStore \/ PublishIdentity \/ SetSpkTs \/ MarkIdentityPublished
               \/ PublishInitialOpks \/ MarkInitialOpksPublished
        PROVE  Goal
    BY <2>5 DEF Tick, Kill, ReadIdentity, PopRandom, WriteBundle, ReplenishOpks, GetOPKCount,
       ReadKeysFromStore, PublishIdentity, SetSpkTs, MarkIdentityPublished,
       PublishInitialOpks, MarkInitialOpksPublished, deviceVars
  <2> HIDE DEF Goal
  <2>6. Goal
    BY <2>1, <2>2, <2>3, <2>4, <2>5 DEF Next, SettleStep
  <2> QED
    BY <2>6 DEF Goal
<1> QED
  BY <1>1, PrekeysInvariant, PTL DEF Spec, IdentityStays

-----------------------------------------------------------------------------
(***************************************************************************)
(* The server's rows implement KeyDirectory.                               *)
(***************************************************************************)

DirectoryStep == [Directory!Next]_(Directory!directory)

\* Steps of the device, refusals and the bundle's other statements do not show.
LEMMA QuietInDirectory ==
    ASSUME UNCHANGED <<srv, rows>>, UNCHANGED fetches \/ \E f \in Fetchers : ReadIdentity(f) \/ WriteBundle(f),
           fetches \in Bundles
    PROVE  DirectoryStep
<1>1. [f \in Fetchers |-> fetches[f].opk]' = [f \in Fetchers |-> fetches[f].opk]
  <2>1. ASSUME NEW g \in Fetchers, ReadIdentity(g) \/ WriteBundle(g), NEW f \in Fetchers
        PROVE  fetches'[f].opk = fetches[f].opk
    BY <2>1 DEF ReadIdentity, WriteBundle, Bundles
  <2> QED
    BY <2>1
<1>2. Free' = Free /\ {i \in Idx : rows[i].used}' = {i \in Idx : rows[i].used}
  BY DEF Free
<1> QED
  BY <1>1, <1>2 DEF DirectoryStep, Directory!directory, Directory!pool

\* A publication is the first one, or renews the signature, or nothing.
LEMMA PublishesInDirectory ==
    ASSUME Typed, KeysInv, SignatureFits, NEW c \in calls, Publishes(c)
    PROVE  DirectoryStep
<1>1. /\ UNCHANGED <<rows, fetches>> /\ c.kind = "upsert"
      /\ c.ik = ik /\ ik # 0 /\ slot["current"] # 0 /\ c.ts # Never
  BY DEF Publishes, Apply, KeysInv, NeverMintsAgain, AllPresent, CallsDated
<1>p. UNCHANGED <<Free, {i \in Idx : rows[i].used}, [f \in Fetchers |-> fetches[f].opk]>>
  BY <1>1 DEF Free
<1>2. CASE srv.ik = 0
  <2>1. srv' = [ik |-> c.ik, spk |-> c.spk, ts |-> c.ts, sig |-> <<c.spk, c.ts>>]
    BY <1>2 DEF Publishes, Apply
  <2>2. c.spk # 0
    BY <1>1, <1>2 DEF KeysInv, FirstPublication
  <2>3. Directory!Publish
    BY <1>1, <1>p, <1>2, <2>1, <2>2 DEF Directory!Publish, Directory!pool, Directory!None, Never
  <2> QED
    BY <2>3 DEF DirectoryStep, Directory!Next
<1>3. CASE srv.ik # 0
  <2>1. srv' = Refreshed(c) /\ IdenticalRetry(c)
    BY <1>3 DEF Publishes, Apply
  <2>2. CASE c.ts > srv.ts
    <3>1. srv'.ik = srv.ik /\ srv'.spk = srv.spk /\ srv'.ts = c.ts /\ srv'.sig = <<srv.spk, c.ts>>
      BY <2>1, <2>2, AppliedKeys
    <3>2. Directory!Resign
      BY <1>3, <1>p, <2>2, <3>1 DEF Directory!Resign, Directory!pool
    <3> QED
      BY <3>2 DEF DirectoryStep, Directory!Next
  <2>3. CASE ~(c.ts > srv.ts)
    <3>1. srv' = srv
      BY <2>1, <2>3 DEF Refreshed
    <3> QED
      BY <1>1, <3>1, QuietInDirectory DEF Typed
  <2> QED
    BY <2>2, <2>3
<1> QED
  BY <1>2, <1>3

\* An accepted rotation, late or not, brings a younger key and a later time.
LEMMA RotatesInDirectory ==
    ASSUME Typed, KeysInv, NEW c \in calls, Rotates(c)
    PROVE  DirectoryStep
<1>1. UNCHANGED <<rows, fetches>> /\ c \in Rotations /\ c.ts > srv.ts
  BY DEF Rotates, Apply, Rotations
<1>2. srv'.ik = srv.ik /\ srv'.spk = c.spk /\ srv'.ts = c.ts /\ srv'.sig = <<c.spk, c.ts>>
  BY AppliedKeys DEF Rotates, Apply
<1>3. srv.ik # 0
  BY <1>1 DEF KeysInv, FirstPublication
<1>4. c.spk > srv.spk
  <2>1. srv.ts \in Int /\ c.ts \in Int /\ srv.spk \in Int /\ c.spk \in Int
    BY StateNumbers, Numbers DEF Typed, ServerKeys, Calls
  <2>2. c.spk # srv.spk /\ (c.spk < srv.spk => c.ts <= srv.ts)
    BY <1>1 DEF KeysInv, RotationsOrdered
  <2> QED
    BY <1>1, <2>1, <2>2
<1>5. Directory!Rotate
  <2>1. UNCHANGED <<Free, {i \in Idx : rows[i].used}, [f \in Fetchers |-> fetches[f].opk]>>
    BY <1>1 DEF Free
  <2> QED
    BY <1>1, <1>2, <1>3, <1>4, <2>1 DEF Directory!Rotate, Directory!pool
<1> QED
  BY <1>5 DEF DirectoryStep, Directory!Next

\* A batch, repeated or not, offers what was in no row before.
LEMMA BatchInDirectory ==
    ASSUME Typed, KeysInv, OpksClaimed, NEW c \in calls, ReplenishOPKs(c)
    PROVE  DirectoryStep
<1>1. UNCHANGED <<srv, fetches>> /\ c.ik = ik /\ ik # 0
  BY DEF ReplenishOPKs, KeysInv, NeverMintsAgain, AllPresent
<1>2. CASE rows' = rows
  BY <1>1, <1>2, QuietInDirectory DEF Typed
<1>3. CASE srv.ik = c.ik /\ rows' = [i \in Idx |-> IF i \in c.idx THEN RowAfter(c, i) ELSE rows[i]]
  <2>1. \A i \in Idx : rows'[i] = rows[i] \/ (rows[i].ik = 0 /\ rows'[i] = [ik |-> c.ik, used |-> FALSE])
    BY <1>3 DEF RowAfter
  <2>2. \A i \in Idx : rows'[i].used <=> rows[i].used
    BY <2>1 DEF OpksClaimed
  <2>3. Free \subseteq Free'
    BY <2>1 DEF Free
  <2>4. Free' \subseteq Idx \ {i \in Idx : rows[i].used}
    BY <2>2 DEF Free
  <2>5. UNCHANGED <<{i \in Idx : rows[i].used}, [f \in Fetchers |-> fetches[f].opk]>>
    BY <1>1, <2>2
  <2>6. Directory!Offer
    BY <1>1, <1>3, <2>3, <2>4, <2>5 DEF Directory!Offer
  <2> QED
    BY <2>6 DEF DirectoryStep, Directory!Next
<1> QED
  BY <1>2, <1>3 DEF ReplenishOPKs

\* A popped OPK was free, and its request has none yet.
LEMMA PopInDirectory ==
    ASSUME Typed, OpksClaimed, NEW f \in Fetchers, PopRandom(f)
    PROVE  DirectoryStep
<1>0. fetches \in Bundles /\ rows \in OpkRows /\ srv' = srv
  BY DEF Typed, PopRandom
<1>1. CASE rows' = rows /\ fetches' = [fetches EXCEPT ![f].st = "done"]
  <2>1. \A g \in Fetchers : fetches'[g].opk = fetches[g].opk
    BY <1>0, <1>1 DEF Bundles
  <2>2. UNCHANGED <<Free, {i \in Idx : rows[i].used}, [g \in Fetchers |-> fetches[g].opk]>>
    BY <1>1, <2>1 DEF Free
  <2> QED
    BY <1>0, <2>2 DEF DirectoryStep, Directory!directory, Directory!pool
<1>2. ASSUME NEW i \in Free, rows' = Consumed(i),
             fetches' = [fetches EXCEPT ![f].st = "popped", ![f].opk = i]
      PROVE  DirectoryStep
  <2>1. fetches[f].opk = Never
    BY DEF PopRandom, OpksClaimed
  <2>2. [g \in Fetchers |-> fetches[g].opk]' = [[g \in Fetchers |-> fetches[g].opk] EXCEPT ![f] = i]
    BY <1>0, <1>2 DEF Bundles
  <2>3. /\ i \in Idx
        /\ \A j \in Idx : rows'[j].ik = rows[j].ik
        /\ \A j \in Idx : rows'[j].used <=> (j = i \/ rows[j].used)
    BY <1>0, <1>2 DEF Consumed, OpkRows, Free
  <2>4. Free' = Free \ {i} /\ {j \in Idx : rows[j].used}' = {j \in Idx : rows[j].used} \cup {i}
    BY <2>3 DEF Free
  <2>5. Directory!Claim(f, i)
    BY <1>0, <2>1, <2>2, <2>4 DEF Directory!Claim, Directory!None, Never
  <2> QED
    BY <1>2, <2>5 DEF DirectoryStep, Directory!Next
<1> QED
  BY <1>1, <1>2 DEF PopRandom

\* What the server keeps for an account is a directory as KeyDirectory promises
\* it, whatever the device's crashes and the network do to the calls.
THEOREM PrekeysImplementDirectory == Spec => KeepsDirectory
<1>1. Init => Directory!Init
  <2> SUFFICES ASSUME Init PROVE Directory!Init
    OBVIOUS
  <2>1. srv.ik = 0 /\ srv.spk = 0 /\ srv.ts = Never /\ srv.sig = <<0, Never>>
    BY DEF Init, NoServerKeys
  <2>2. Free = {} /\ {i \in Idx : rows[i].used} = {}
    BY DEF Init, NoRow, Free
  <2>3. [f \in Fetchers |-> fetches[f].opk] = [f \in Fetchers |-> Never]
    BY DEF Init, NoBundle
  <2> QED
    BY <2>1, <2>2, <2>3 DEF Directory!Init, Directory!None, Never
<1>2. PInv /\ [Next]_vars => DirectoryStep
  <2> SUFFICES ASSUME Typed, KeysInv, OpksClaimed, SignatureFits, [Next]_vars PROVE DirectoryStep
    BY DEF PInv, KeysInv, AdvertisedKept
  <2>0. fetches \in Bundles
    BY DEF Typed
  <2>1. ASSUME NEW c \in calls, GiveUp(c) \/ LoseCall(c) \/ Refuse(c) \/ Admit(c) PROVE DirectoryStep
    BY <2>0, <2>1, QuietInDirectory DEF GiveUp, LoseCall, Refuse, Admit, serverVars
  <2>2. ASSUME NEW c \in calls, ServerStep(c) PROVE DirectoryStep
    BY <2>1, <2>2, ServerMoves, PublishesInDirectory, RotatesInDirectory, BatchInDirectory
  <2>3. ASSUME NEW f \in Fetchers, ReadIdentity(f) \/ PopRandom(f) \/ WriteBundle(f)
        PROVE  DirectoryStep
    <3>1. CASE ReadIdentity(f) \/ WriteBundle(f)
      <4>1. UNCHANGED <<srv, rows>>
        BY <3>1 DEF ReadIdentity, WriteBundle
      <4> QED
        BY <2>0, <3>1, <4>1, QuietInDirectory
    <3> QED
      BY <2>3, <3>1, PopInDirectory
  <2>4. ASSUME \/ Tick \/ Kill \/ ReplenishOpks \/ GetOPKCount
               \/ \E n \in 0 .. Boot + 2 : GenerateKeys(n)
               \/ ReadKeysFromStore \/ PublishIdentity \/ SetSpkTs \/ MarkIdentityPublished
               \/ PublishInitialOpks \/ MarkInitialOpksPublished
               \/ \E n \in 0 .. Target : MintOpks(n)
        PROVE  UNCHANGED <<srv, rows, fetches>>
    BY <2>4 DEF Tick, Kill, ReplenishOpks, GetOPKCount, GenerateKeys, ReadKeysFromStore,
       PublishIdentity, SetSpkTs, MarkIdentityPublished, PublishInitialOpks,
       MarkInitialOpksPublished, MintOpks, serverVars
  <2>5. ASSUME SettleStep PROVE UNCHANGED <<srv, rows, fetches>>
    BY <2>5 DEF SettleStep, SettleSpkState, GetOwnKeys, FetchFails, FinishRotation,
       DiscardPending, RecordConflict, ArchivePending, EnsureSpkRotated, Demote, MoveCurrent,
       Stamp, Unpend, ClearConflict, serverVars
  <2>6. ASSUME UNCHANGED vars PROVE UNCHANGED <<srv, rows, fetches>>
    BY <2>6 DEF vars, serverVars
  <2>7. UNCHANGED <<srv, rows, fetches>> => DirectoryStep
    BY <2>0, QuietInDirectory
  <2> QED
    BY <2>2, <2>3, <2>4, <2>5, <2>6, <2>7 DEF Next, SettleStep
<1> QED
  BY <1>1, <1>2, PrekeysInvariant, PTL DEF Spec, KeepsDirectory, Directory!Spec, DirectoryStep
=================================================================================
