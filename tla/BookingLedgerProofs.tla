------------------------- MODULE BookingLedgerProofs -------------------------
(***************************************************************************)
(* What callers are told stays true, and the committed rows behave as the  *)
(* ledger of BookingLedger: for every set of cars, users, requests and     *)
(* connections, with tools writing to the tables beside the API.           *)
(***************************************************************************)
EXTENDS BookingProofs

-----------------------------------------------------------------------------
(* The inductive invariant *)

\* The holds a call has deleted, and is still to commit: of its car, committed,
\* and lapsed by the time its transaction began.
LockedInv ==
    \A p \in Orderers :
        /\ order[p].now <= clock
        /\ order[p].pc \in {"done", "enqueue", "reap", "replay"} => order[p].locked = {}
        /\ \A r \in order[p].locked :
             /\ Confirmed(r) /\ Lapsed(r, order[p].now)
             /\ resv[r].car = order[p].req.car

\* The row a call is about to commit is the one its request asked for.
PendingInv ==
    \A p \in Orderers :
        order[p].pc = "commit" =>
            LET row == resv[order[p].id] IN
            /\ row.car = order[p].req.car /\ row.booker = order[p].req.booker
            /\ row.key = order[p].req.key /\ row.created = order[p].now
            /\ row.kind = "rental_hold" => row.exp = row.created + HoldTTL

\* The row a caller was answered with is the caller's, under its key, and committed.
AnswerInv ==
    \A p \in Orderers :
        order[p].pc = "done" /\ order[p].res = "ok" =>
            /\ order[p].id \in ResIds
            /\ resv[order[p].id].status \in {"confirmed", "cancelled", "reaped"}
            /\ resv[order[p].id].booker = order[p].req.booker
            /\ resv[order[p].id].key = order[p].req.key

\* No row is locked twice, and a row locked for cancelling is committed.
RowLockInv ==
    /\ \A p, q \in Orderers : \A r \in order[p].locked :
         r \in order[q].locked => p = q
    /\ \A u \in Updaters : upd[u].pc = "cancel_commit" =>
         /\ Confirmed(upd[u].id)
         /\ \A p \in Orderers : upd[u].id \notin order[p].locked
    /\ \A u, v \in Updaters :
         /\ upd[u].pc = "cancel_commit" /\ upd[v].pc = "cancel_commit"
         /\ upd[u].id = upd[v].id
         => u = v

\* No row is from the future, and what was reaped had lapsed.
AgeInv ==
    \A r \in ResIds :
        /\ resv[r].status # "absent" => resv[r].created <= clock
        /\ resv[r].status = "reaped" => Lapsed(r, clock)

Keyed(r) == resv[r].status \in {"pending", "confirmed", "cancelled"}

SameKey(a, b) == a.key # NoKey /\ a.key = b.key /\ a.booker = b.booker

\* Two rows in the unique index have the same key only while one is pending in
\* a transaction that has deleted the other.
KeyInv ==
    \A r, s \in ResIds :
        r # s /\ Keyed(r) /\ Keyed(s) /\ SameKey(resv[r], resv[s])
        => Replaces(r, s) \/ Replaces(s, r)

LedgerInv ==
    LockedInv /\ PendingInv /\ AnswerInv /\ RowLockInv /\ AgeInv /\ KeyInv

JInv == IInv /\ LedgerInv

-----------------------------------------------------------------------------
(* What the invariant says of one call and of one row *)

LEMMA OrdererFacts ==
  ASSUME JInv, NEW p \in Orderers
  PROVE  /\ order[p] \in OrderCall /\ order \in [Orderers -> OrderCall]
         /\ order[p].now \in Nat /\ order[p].now <= clock /\ clock \in Nat
         /\ order[p].locked \in SUBSET ResIds
         /\ order[p].pc \in {"done", "enqueue", "reap", "replay"} => order[p].locked = {}
         /\ \A r \in order[p].locked :
              /\ Confirmed(r) /\ Lapsed(r, order[p].now)
              /\ resv[r].car = order[p].req.car
         /\ order[p].pc = "commit" =>
              order[p].id \in ResIds /\ resv[order[p].id].status = "pending"
  BY DEF JInv, LedgerInv, LockedInv, IInv, TypeOK, HeapInv, OrderCall

LEMMA RowFacts ==
  ASSUME JInv, NEW r \in ResIds, resv[r].status # "absent"
  PROVE  /\ resv[r] \in ResRow /\ resv[r].created <= clock
         /\ resv[r].created \in Nat /\ resv[r].exp \in Nat
  BY RowShape DEF JInv, LedgerInv, AgeInv, IInv, ResRow

LEMMA UpdaterFacts ==
  ASSUME JInv, NEW u \in Updaters
  PROVE  /\ upd \in [Updaters -> UpdCall] /\ upd[u] \in UpdCall
         /\ upd[u].pc # "done" =>
              upd[u].id \in ResIds /\ resv[upd[u].id].status \notin {"absent", "pending"}
  BY DEF JInv, IInv, TypeOK, HeapInv

LEMMA OrderersRequest ==
  ASSUME JInv, NEW p \in Orderers
  PROVE  order[p].req \in OrderParams /\ order[p].req.start < order[p].req.end
  BY OrdererFacts, OrdersAssumption DEF OrderCall

-----------------------------------------------------------------------------
(* Calls *)

\* What a call of p may be when it is not at its COMMIT: it has locked nothing,
\* or lapsed holds of its car that nobody else has locked, and when it is
\* answered with a booking, it is with a committed one of its booker and key.
GoodCall(p, call) ==
    /\ call \in OrderCall /\ call.pc # "commit" /\ call.now <= clock
    /\ call.pc \in {"done", "enqueue", "reap", "replay"} => call.locked = {}
    /\ \A r \in call.locked :
         /\ Confirmed(r) /\ Lapsed(r, call.now) /\ resv[r].car = call.req.car
         /\ \A q \in Orderers \ {p} : r \notin order[q].locked
         /\ \A u \in Updaters : upd[u].pc = "cancel_commit" => upd[u].id # r
    /\ call.pc = "done" /\ call.res = "ok" =>
         /\ call.id \in ResIds
         /\ resv[call.id].status \in {"confirmed", "cancelled", "reaped"}
         /\ resv[call.id].booker = call.req.booker
         /\ resv[call.id].key = call.req.key

\* A step of one call that is not, and does not come, at its COMMIT, and leaves
\* the rows and the other calls alone.
LEMMA CallLedger ==
  ASSUME JInv, NEW p \in Orderers, order[p].pc # "commit", NEW call, GoodCall(p, call),
         order' = [order EXCEPT ![p] = call], UNCHANGED <<clock, resv, upd>>
  PROVE  LedgerInv'
<1>1. order'[p] = call /\ \A q \in Orderers \ {p} : order'[q] = order[q]
  BY OrdererFacts
<1>2. LockedInv'
  BY <1>1 DEF JInv, LedgerInv, LockedInv, Confirmed, Lapsed, GoodCall
<1>3. PendingInv'
  BY <1>1 DEF JInv, LedgerInv, PendingInv, GoodCall
<1>4. AnswerInv'
  BY <1>1 DEF JInv, LedgerInv, AnswerInv, GoodCall
<1>5. RowLockInv'
  BY <1>1 DEF JInv, LedgerInv, RowLockInv, Confirmed, GoodCall
<1>6. AgeInv'
  BY DEF JInv, LedgerInv, AgeInv, Lapsed
<1>7. KeyInv'
  BY <1>1 DEF JInv, LedgerInv, KeyInv, Keyed, SameKey, Replaces, GoodCall
<1>. QED BY <1>2, <1>3, <1>4, <1>5, <1>6, <1>7 DEF LedgerInv

\* The call keeps what it has locked, or the transaction has ended.
LEMMA CallKept ==
  ASSUME JInv, NEW p \in Orderers, NEW call \in OrderCall,
         order[p].pc # "commit", call.pc # "commit",
         order' = [order EXCEPT ![p] = call], UNCHANGED <<clock, resv, upd>>,
         \/ call.locked = {} /\ call.now <= clock
         \/ /\ call.locked = order[p].locked /\ call.now = order[p].now
            /\ call.req = order[p].req
            /\ call.pc \notin {"done", "enqueue", "reap", "replay"},
         call.pc = "done" /\ call.res = "ok" =>
           /\ call.id \in ResIds
           /\ resv[call.id].status \in {"confirmed", "cancelled", "reaped"}
           /\ resv[call.id].booker = call.req.booker
           /\ resv[call.id].key = call.req.key
  PROVE  LedgerInv'
<1>1. \A r \in order[p].locked :
        /\ Confirmed(r) /\ Lapsed(r, order[p].now) /\ resv[r].car = order[p].req.car
        /\ \A q \in Orderers \ {p} : r \notin order[q].locked
        /\ \A u \in Updaters : upd[u].pc = "cancel_commit" => upd[u].id # r
  BY OrdererFacts DEF JInv, LedgerInv, RowLockInv
<1>2. order[p].now <= clock
  BY OrdererFacts
<1>3. GoodCall(p, call)
  BY <1>1, <1>2 DEF GoodCall
<1>. QED BY <1>3, CallLedger

LEMMA BeginLedger ==
  ASSUME JInv, NEW p \in Orderers, OrderBegin(p)
  PROVE  LedgerInv'
<1>1. PICK req \in Orders : \E pc \in {"done", "enqueue"}, id \in ResIds \cup {NoRes},
           res \in Results, now \in {0, clock} :
         /\ order' = [order EXCEPT ![p] =
                         [pc |-> pc, req |-> req, now |-> now, locked |-> {},
                          id |-> id, err |-> "none", res |-> res]]
         /\ res = "ok" => id \in ByKey(req)
  BY DEF OrderBegin, Results, ByKey
<1>2. PICK pc \in {"done", "enqueue"}, id \in ResIds \cup {NoRes},
           res \in Results, now \in {0, clock} :
         /\ order' = [order EXCEPT ![p] =
                         [pc |-> pc, req |-> req, now |-> now, locked |-> {},
                          id |-> id, err |-> "none", res |-> res]]
         /\ res = "ok" => id \in ByKey(req)
  BY <1>1
<1>3. order[p].pc # "commit" /\ UNCHANGED <<clock, resv, upd>>
  BY DEF OrderBegin, Running
<1> DEFINE call == [pc |-> pc, req |-> req, now |-> now, locked |-> {},
                    id |-> id, err |-> "none", res |-> res]
<1>4. clock \in Nat
  BY OrdererFacts
<1>5. /\ call \in OrderCall /\ call.pc # "commit" /\ call.locked = {} /\ call.now <= clock
      /\ call.res = "ok" => call.id \in ByKey(call.req)
  BY <1>2, <1>4 DEF OrderCall
<1>6. order' = [order EXCEPT ![p] = call]
  BY <1>2
<1>. HIDE DEF call
<1>7. call.res = "ok" =>
        /\ call.id \in ResIds
        /\ resv[call.id].status \in {"confirmed", "cancelled", "reaped"}
        /\ resv[call.id].booker = call.req.booker /\ resv[call.id].key = call.req.key
  BY <1>5 DEF ByKey, Visible
<1>. QED BY <1>3, <1>5, <1>6, <1>7, CallKept

\* The end of a transaction that was not at its COMMIT, with no booking.
LEMMA EndLedger ==
  ASSUME JInv, NEW p \in Orderers, NEW pc \in {"done", "replay"},
         NEW err \in {"none", "23P01", "23505"}, NEW res \in Results \ {"ok"},
         order[p].pc # "commit", EndTxn(p, pc, NoRes, err, res),
         UNCHANGED <<clock, resv, upd>>
  PROVE  LedgerInv'
<1> DEFINE call == [order[p] EXCEPT !.pc = pc, !.now = 0, !.locked = {}, !.id = NoRes,
                                    !.err = err, !.res = res]
<1>1. /\ call \in OrderCall /\ call.pc # "commit" /\ call.locked = {} /\ call.now = 0
      /\ call.res # "ok"
  BY OrdererFacts DEF OrderCall
<1>2. order' = [order EXCEPT ![p] = call]
  BY DEF EndTxn
<1>3. 0 <= clock
  BY OrdererFacts
<1>. HIDE DEF call
<1>. QED BY <1>1, <1>2, <1>3, CallKept

LEMMA AdvanceLedger ==
  ASSUME JInv, NEW p \in Orderers, order[p].pc # "commit",
         NEW pc \in {"insert", "classify"}, Advance(p, pc),
         UNCHANGED <<clock, resv, upd>>
  PROVE  LedgerInv'
<1> DEFINE call == [order[p] EXCEPT !.pc = pc]
<1>1. /\ call \in OrderCall /\ call.pc = pc /\ call.locked = order[p].locked
      /\ call.now = order[p].now /\ call.req = order[p].req
  BY OrdererFacts DEF OrderCall
<1>2. order' = [order EXCEPT ![p] = call]
  BY DEF Advance
<1>. HIDE DEF call
<1>. QED BY <1>1, <1>2, CallKept

LEMMA EnqueueLedger ==
  ASSUME JInv, NEW p \in Orderers, OrderEnqueue(p)
  PROVE  LedgerInv'
<1> DEFINE call == [order[p] EXCEPT !.pc = "reap"]
<1>1. /\ call \in OrderCall /\ call.pc = "reap" /\ call.locked = order[p].locked
      /\ call.now = order[p].now
  BY OrdererFacts DEF OrderCall
<1>2. order' = [order EXCEPT ![p] = call] /\ order[p].pc = "enqueue"
  BY DEF OrderEnqueue, Advance
<1>3. order[p].locked = {} /\ order[p].now <= clock
  BY <1>2, OrdererFacts
<1>. HIDE DEF call
<1>. QED BY <1>1, <1>2, <1>3, CallKept DEF OrderEnqueue

LEMMA ReapLedger ==
  ASSUME JInv, NEW p \in Orderers, OrderReap(p)
  PROVE  LedgerInv'
<1>1. PICK lapsed \in SUBSET ResIds :
         /\ order[p].pc = "reap"
         /\ \A r \in lapsed : /\ Confirmed(r) /\ Lapsed(r, order[p].now)
                              /\ resv[r].car = order[p].req.car
                              /\ ~LockedByOther(p, r)
         /\ order' = [order EXCEPT ![p] =
                         [order[p] EXCEPT !.locked = lapsed, !.pc = "check"]]
         /\ UNCHANGED <<clock, resv, upd>>
  BY DEF OrderReap
<1> DEFINE call == [order[p] EXCEPT !.locked = lapsed, !.pc = "check"]
<1>2. /\ call \in OrderCall /\ call.pc = "check" /\ call.locked = lapsed
      /\ call.now = order[p].now /\ call.req = order[p].req
  BY OrdererFacts DEF OrderCall
<1>3. order' = [order EXCEPT ![p] = call]
  BY <1>1
<1>4. order[p].now <= clock
  BY OrdererFacts
<1>5. \A r \in lapsed :
        /\ \A q \in Orderers \ {p} : r \notin order[q].locked
        /\ \A u \in Updaters : upd[u].pc = "cancel_commit" => upd[u].id # r
  BY <1>1 DEF LockedByOther
<1>. HIDE DEF call
<1>6. GoodCall(p, call)
  BY <1>1, <1>2, <1>4, <1>5 DEF GoodCall
<1>. QED BY <1>1, <1>3, <1>6, CallLedger

LEMMA CheckLedger == ASSUME JInv, NEW p \in Orderers, OrderCheck(p) PROVE LedgerInv'
<1>1. order[p].pc = "check" /\ UNCHANGED <<clock, resv, upd>>
  BY DEF OrderCheck
<1>2. CASE Refuse(p, "conflict")
  BY <1>1, <1>2, EndLedger DEF Refuse, Results
<1>3. CASE Advance(p, "insert")
  BY <1>1, <1>3, AdvanceLedger
<1>. QED BY <1>2, <1>3 DEF OrderCheck

LEMMA ClassifyLedger == ASSUME JInv, NEW p \in Orderers, OrderClassify(p) PROVE LedgerInv'
<1>1. order[p].req.car \in Cars /\ order[p].req.kind \in Kinds
  BY OrderersRequest DEF OrderParams
<1>2. Rejection(order[p].req) \in Results \ {"ok"}
  BY <1>1 DEF JInv, IInv, TypeOK, CarRow, Kinds, Rejection, Results
<1>. QED BY <1>2, EndLedger DEF OrderClassify, Refuse

LEMMA ReplayLedger == ASSUME JInv, NEW p \in Orderers, OrderReplay(p) PROVE LedgerInv'
<1>1. PICK id \in ResIds \cup {NoRes}, res \in Results :
         /\ order' = [order EXCEPT ![p] =
                         [order[p] EXCEPT !.pc = "done", !.id = id, !.res = res]]
         /\ order[p].pc = "replay"
         /\ UNCHANGED <<clock, resv, upd>>
         /\ res = "ok" => id \in ByKey(order[p].req)
  BY DEF OrderReplay, ByKey, Results
<1> DEFINE call == [order[p] EXCEPT !.pc = "done", !.id = id, !.res = res]
<1>2. /\ call \in OrderCall /\ call.pc = "done" /\ call.locked = order[p].locked
      /\ call.now = order[p].now /\ call.req = order[p].req
      /\ call.id = id /\ call.res = res
  BY OrdererFacts DEF OrderCall
<1>3. order' = [order EXCEPT ![p] = call]
  BY <1>1
<1>4. order[p].locked = {} /\ order[p].now <= clock
  BY <1>1, OrdererFacts
<1>. HIDE DEF call
<1>5. call.res = "ok" =>
        /\ call.id \in ResIds
        /\ resv[call.id].status \in {"confirmed", "cancelled", "reaped"}
        /\ resv[call.id].booker = call.req.booker /\ resv[call.id].key = call.req.key
  BY <1>1, <1>2 DEF ByKey, Visible
<1>6. /\ call \in OrderCall /\ call.pc # "commit" /\ order[p].pc # "commit"
      /\ call.locked = {} /\ call.now <= clock /\ UNCHANGED <<clock, resv, upd>>
  BY <1>1, <1>2, <1>4
<1>. QED BY <1>3, <1>5, <1>6, CallKept

-----------------------------------------------------------------------------
(* Rows *)

LEMMA InsertLedger == ASSUME JInv, NEW p \in Orderers, OrderInsert(p) PROVE LedgerInv'
<1>0. order[p].pc = "insert" /\ UNCHANGED <<clock, upd>>
  BY DEF OrderInsert
<1>1. CASE Advance(p, "classify") /\ UNCHANGED <<resv, ahead>>
  BY <1>0, <1>1, AdvanceLedger
<1>2. ASSUME NEW err \in {"23P01", "23505"}, Violation(p, err), UNCHANGED resv
      PROVE  LedgerInv'
  BY <1>0, <1>2, EndLedger DEF Violation, Results
<1>3. ASSUME KeyClashes(order[p].locked, NewRow(p)) = {}, NEW r \in FreeIds,
             resv' = [resv EXCEPT ![r] = NewRow(p)],
             order' = [order EXCEPT ![p] = [@ EXCEPT !.pc = "commit", !.id = r]]
      PROVE  LedgerInv'
  <2>1. r \in ResIds /\ resv[r].status = "absent"
    BY <1>3 DEF FreeIds
  <2>2. /\ NewRow(p).status = "pending" /\ NewRow(p).car = order[p].req.car
        /\ NewRow(p).booker = order[p].req.booker /\ NewRow(p).key = order[p].req.key
        /\ NewRow(p).created = order[p].now
        /\ NewRow(p).kind = "rental_hold" => NewRow(p).exp = order[p].now + HoldTTL
    BY DEF NewRow
  <2>3. /\ resv'[r] = NewRow(p) /\ \A s \in ResIds \ {r} : resv'[s] = resv[s]
        /\ order'[p].pc = "commit" /\ order'[p].id = r
        /\ order'[p].locked = order[p].locked
        /\ order'[p].req = order[p].req /\ order'[p].now = order[p].now
        /\ \A q \in Orderers \ {p} : order'[q] = order[q]
    BY <1>3, <2>1, OrdererFacts DEF JInv, IInv, TypeOK, OrderCall
  <2>4. LockedInv'
    BY <1>0, <2>1, <2>3, OrdererFacts
       DEF JInv, LedgerInv, LockedInv, Confirmed, Lapsed
  <2>5. PendingInv'
    <3>1. \A q \in Orderers : order[q].pc = "commit" =>
             order[q].id \in ResIds /\ order[q].id # r
      BY <2>1, OrdererFacts
    <3>. QED BY <2>2, <2>3, <3>1 DEF JInv, LedgerInv, PendingInv
  <2>6. AnswerInv'
    BY <2>1, <2>3 DEF JInv, LedgerInv, AnswerInv
  <2>7. RowLockInv'
    <3>1. \A u \in Updaters : upd[u].pc = "cancel_commit" =>
             upd[u].id \in ResIds /\ upd[u].id # r
      BY <2>1, UpdaterFacts
    <3>2. \A q \in Orderers : order'[q].locked = order[q].locked
      BY <2>3
    <3>. QED BY <1>0, <2>3, <3>1, <3>2 DEF JInv, LedgerInv, RowLockInv, Confirmed
  <2>8. AgeInv'
    BY <1>0, <2>2, <2>3, OrdererFacts DEF JInv, LedgerInv, AgeInv, Lapsed
  <2>9. KeyInv'
    <3>1. ASSUME NEW s \in ResIds \ {r}, Keyed(s),
                 SameKey(resv[s], NewRow(p)) \/ SameKey(NewRow(p), resv[s])
          PROVE  s \in order[p].locked
      BY <1>3, <3>1 DEF KeyClashes, SameKey, Keyed
    <3> SUFFICES ASSUME NEW a \in ResIds, NEW b \in ResIds, a # b,
                        Keyed(a)', Keyed(b)', SameKey(resv'[a], resv'[b])
                 PROVE  Replaces(a, b)' \/ Replaces(b, a)'
      BY DEF KeyInv, SameKey
    <3>2. CASE a = r
      BY <3>1, <3>2, <2>3 DEF Replaces, Keyed
    <3>3. CASE b = r
      BY <3>1, <3>3, <2>3 DEF Replaces, Keyed
    <3>4. CASE a # r /\ b # r
      <4>1. Replaces(a, b) \/ Replaces(b, a)
        BY <3>4, <2>3 DEF JInv, LedgerInv, KeyInv, Keyed
      <4>. QED BY <1>0, <2>3, <4>1 DEF Replaces
    <3>. QED BY <3>2, <3>3, <3>4
  <2>. QED BY <2>4, <2>5, <2>6, <2>7, <2>8, <2>9 DEF LedgerInv
<1>4. CASE \/ Advance(p, "classify") /\ UNCHANGED <<resv, ahead>>
           \/ Violation(p, "23P01") /\ UNCHANGED resv
           \/ Violation(p, "23505") /\ UNCHANGED resv
  BY <1>1, <1>2, <1>4
<1>5. CASE /\ KeyClashes(order[p].locked, NewRow(p)) = {}
           /\ \E r \in FreeIds :
                /\ resv' = [resv EXCEPT ![r] = NewRow(p)]
                /\ order' = [order EXCEPT ![p] = [@ EXCEPT !.pc = "commit", !.id = r]]
  BY <1>3, <1>5
<1>. QED BY <1>4, <1>5 DEF OrderInsert

\* What a COMMIT does to the calls.
LEMMA CommitCalls ==
  ASSUME JInv, NEW p \in Orderers, OrderCommit(p)
  PROVE  /\ order[p].pc = "commit" /\ order[p].id \in ResIds
         /\ resv[order[p].id].status = "pending" /\ order[p].id \notin order[p].locked
         /\ UNCHANGED <<clock, cars, recs, upd>>
         /\ \A q \in Orderers \ {p} : order'[q] = order[q]
         /\ order'[p].pc = "done" /\ order'[p].now = 0 /\ order'[p].locked = {}
         /\ order'[p].req = order[p].req
         /\ order'[p].res = "ok" => order'[p].id = order[p].id
<1>1. order[p].pc = "commit" /\ UNCHANGED <<clock, cars, recs, upd>>
  BY DEF OrderCommit
<1>2. /\ order[p].id \in ResIds /\ resv[order[p].id].status = "pending"
      /\ order[p].id \notin order[p].locked
  BY <1>1, OrdererFacts DEF Confirmed
<1>3. PICK id, res : /\ EndTxn(p, "done", id, "none", res)
                     /\ res = "ok" => id = order[p].id
  BY DEF OrderCommit
<1> DEFINE call == [order[p] EXCEPT !.pc = "done", !.now = 0, !.locked = {}, !.id = id,
                                    !.err = "none", !.res = res]
<1>4. /\ call.pc = "done" /\ call.now = 0 /\ call.locked = {} /\ call.id = id
      /\ call.res = res /\ call.req = order[p].req
  BY OrdererFacts DEF OrderCall
<1>5. order' = [order EXCEPT ![p] = call]
  BY <1>3 DEF EndTxn
<1>. HIDE DEF call
<1>6. order'[p] = call /\ \A q \in Orderers \ {p} : order'[q] = order[q]
  BY <1>5, OrdererFacts
<1>. QED BY <1>1, <1>2, <1>3, <1>4, <1>6

\* What it does to a row: nothing but to its status.
LEMMA CommitRow ==
  ASSUME JInv, NEW p \in Orderers, OrderCommit(p), NEW r \in ResIds
  PROVE  /\ resv[r].status # "absent" =>
              /\ resv'[r].car = resv[r].car /\ resv'[r].booker = resv[r].booker
              /\ resv'[r].key = resv[r].key /\ resv'[r].created = resv[r].created
              /\ resv'[r].kind = resv[r].kind /\ resv'[r].exp = resv[r].exp
              /\ resv'[r].start = resv[r].start /\ resv'[r].end = resv[r].end
         /\ r = order[p].id => resv'[r] = [resv[r] EXCEPT !.status = "confirmed"]
         /\ r \in order[p].locked => resv'[r] = [resv[r] EXCEPT !.status = "reaped"]
         /\ r = order[p].id => resv'[r].status = "confirmed"
         /\ r \in order[p].locked => resv'[r].status = "reaped"
         /\ r # order[p].id /\ r \notin order[p].locked => resv'[r] = resv[r]
<1>1. resv'[r] = IF r = order[p].id THEN [resv[r] EXCEPT !.status = "confirmed"]
                 ELSE IF r \in order[p].locked THEN [resv[r] EXCEPT !.status = "reaped"]
                 ELSE resv[r]
  BY DEF OrderCommit
<1>2. order[p].id \notin order[p].locked
  BY CommitCalls
<1>3. r = order[p].id \/ r \in order[p].locked => resv[r] \in ResRow
  <2>1. r = order[p].id \/ r \in order[p].locked => resv[r].status # "absent"
    BY CommitCalls, OrdererFacts DEF Confirmed
  <2>. QED BY <2>1, RowFacts
<1>4. CASE r = order[p].id
  <2>1. resv[r] \in ResRow /\ resv'[r] = [resv[r] EXCEPT !.status = "confirmed"]
    BY <1>1, <1>3, <1>4
  <2>. QED BY <1>2, <1>4, <2>1 DEF ResRow
<1>5. CASE r \in order[p].locked
  <2>1. resv[r] \in ResRow /\ resv'[r] = [resv[r] EXCEPT !.status = "reaped"]
    BY <1>1, <1>2, <1>3, <1>5
  <2>. QED BY <1>2, <1>5, <2>1 DEF ResRow
<1>6. CASE r # order[p].id /\ r \notin order[p].locked
  BY <1>1, <1>6
<1>. QED BY <1>4, <1>5, <1>6

LEMMA CommitLedger == ASSUME JInv, NEW p \in Orderers, OrderCommit(p) PROVE LedgerInv'
<1> DEFINE row == order[p].id  locked == order[p].locked
<1>1. /\ order[p].pc = "commit" /\ row \in ResIds
      /\ resv[row].status = "pending" /\ row \notin locked /\ locked \in SUBSET ResIds
      /\ UNCHANGED <<clock, upd>>
      /\ \A q \in Orderers \ {p} : order'[q] = order[q]
      /\ order'[p].pc = "done" /\ order'[p].now = 0 /\ order'[p].locked = {}
      /\ order'[p].req = order[p].req
      /\ order'[p].res = "ok" => order'[p].id = row
  BY CommitCalls, OrdererFacts
<1>2. \A r \in ResIds :
         /\ resv[r].status # "absent" =>
              /\ resv'[r].car = resv[r].car /\ resv'[r].booker = resv[r].booker
              /\ resv'[r].key = resv[r].key /\ resv'[r].created = resv[r].created
              /\ resv'[r].kind = resv[r].kind /\ resv'[r].exp = resv[r].exp
         /\ r = row => resv'[r].status = "confirmed"
         /\ r \in locked => resv'[r].status = "reaped"
         /\ r # row /\ r \notin locked => resv'[r] = resv[r]
  BY CommitRow
<1>3. \A q \in Orderers :
         /\ order[q].locked \in SUBSET ResIds
         /\ \A r \in order[q].locked :
              Confirmed(r) /\ Lapsed(r, order[q].now) /\ resv[r].car = order[q].req.car
         /\ order[q].pc = "commit" =>
              order[q].id \in ResIds /\ resv[order[q].id].status = "pending"
  BY OrdererFacts
<1>4. clock \in Nat /\ order[p].now \in Nat /\ order[p].now <= clock
  BY OrdererFacts
<1>. HIDE DEF row, locked
<1>5. \A q \in Orderers \ {p} : \A r \in order[q].locked :
        r \in ResIds /\ r \notin locked /\ r # row /\ resv'[r] = resv[r]
  <2>1. ASSUME NEW q \in Orderers \ {p}, NEW r \in order[q].locked
        PROVE  r \in ResIds /\ r \notin locked /\ r # row
    BY <1>1, <1>3 DEF JInv, LedgerInv, RowLockInv, Confirmed, locked
  <2>. QED BY <2>1, <1>2
<1>6. LockedInv'
  BY <1>1, <1>3, <1>4, <1>5 DEF JInv, LedgerInv, LockedInv, Confirmed, Lapsed
<1>7. PendingInv'
  <2>1. ASSUME NEW q \in Orderers \ {p}, order[q].pc = "commit"
        PROVE  resv'[order[q].id] = resv[order[q].id]
    <3>1. order[q].id \in ResIds /\ order[q].id # row
      BY <2>1, <1>1, <1>3 DEF JInv, IInv, HeapInv, row
    <3>2. order[q].id \notin locked
      BY <2>1, <1>3 DEF Confirmed, locked
    <3>. QED BY <3>1, <3>2, <1>2
  <2>. QED BY <2>1, <1>1 DEF JInv, LedgerInv, PendingInv
<1>8. AnswerInv'
  <2> SUFFICES ASSUME NEW q \in Orderers, order'[q].pc = "done", order'[q].res = "ok"
               PROVE  /\ order'[q].id \in ResIds
                      /\ resv'[order'[q].id].status \in {"confirmed", "cancelled", "reaped"}
                      /\ resv'[order'[q].id].booker = order'[q].req.booker
                      /\ resv'[order'[q].id].key = order'[q].req.key
    BY DEF AnswerInv
  <2>1. CASE q = p
    <3>1. resv[row].booker = order[p].req.booker /\ resv[row].key = order[p].req.key
      BY <1>1 DEF JInv, LedgerInv, PendingInv, row
    <3>2. /\ resv'[row].status = "confirmed" /\ resv'[row].booker = resv[row].booker
          /\ resv'[row].key = resv[row].key
      BY <1>1, <1>2
    <3>. QED BY <2>1, <3>1, <3>2, <1>1
  <2>2. CASE q # p
    <3>1. order'[q] = order[q] /\ order[q].pc = "done" /\ order[q].res = "ok"
      BY <2>2, <1>1
    <3>2. /\ order[q].id \in ResIds
          /\ resv[order[q].id].status \in {"confirmed", "cancelled", "reaped"}
          /\ resv[order[q].id].booker = order[q].req.booker
          /\ resv[order[q].id].key = order[q].req.key
      BY <3>1 DEF JInv, LedgerInv, AnswerInv
    <3> DEFINE id == order[q].id
    <3>3. id \in ResIds /\ id # row /\ resv[id].status # "absent"
      BY <3>2, <1>1
    <3>4. /\ resv'[id].booker = resv[id].booker /\ resv'[id].key = resv[id].key
          /\ resv'[id].status = "reaped" \/ resv'[id] = resv[id]
      BY <3>3, <1>2
    <3>. QED BY <3>1, <3>2, <3>4
  <2>. QED BY <2>1, <2>2
<1>9. RowLockInv'
  <2>1. \A u \in Updaters : upd[u].pc = "cancel_commit" =>
          /\ upd[u].id \in ResIds /\ Confirmed(upd[u].id)
          /\ \A q \in Orderers : upd[u].id \notin order[q].locked
    BY UpdaterFacts DEF JInv, LedgerInv, RowLockInv
  <2>2. \A u \in Updaters : upd[u].pc = "cancel_commit" =>
          resv'[upd[u].id] = resv[upd[u].id]
    BY <2>1, <1>1, <1>2 DEF Confirmed, locked
  <2>3. \A q \in Orderers : order'[q].locked = order[q].locked \/ order'[q].locked = {}
    BY <1>1
  <2>. QED BY <2>1, <2>2, <2>3, <1>1 DEF JInv, LedgerInv, RowLockInv, Confirmed
<1>10. AgeInv'
  <2> SUFFICES ASSUME NEW r \in ResIds
               PROVE  /\ resv'[r].status # "absent" => resv'[r].created <= clock
                      /\ resv'[r].status = "reaped" =>
                           resv'[r].kind = "rental_hold" /\ resv'[r].exp <= clock
    BY <1>1 DEF AgeInv, Lapsed
  <2>1. CASE r \in locked
    <3>1. Lapsed(r, order[p].now) /\ resv[r].status # "absent"
      BY <2>1, <1>3 DEF Confirmed, locked
    <3>2. resv[r].exp \in Nat /\ resv[r].created <= clock
      BY <3>1, RowFacts
    <3>. QED BY <3>1, <3>2, <1>2, <1>4 DEF Lapsed
  <2>2. CASE r = row
    <3>1. resv[r].created <= clock /\ resv[r].status # "absent"
      BY <2>2, <1>1, RowFacts
    <3>. QED BY <2>2, <3>1, <1>2
  <2>3. CASE r # row /\ r \notin locked
    BY <2>3, <1>2 DEF JInv, LedgerInv, AgeInv, Lapsed
  <2>. QED BY <2>1, <2>2, <2>3
<1>11. KeyInv'
  <2> SUFFICES ASSUME NEW a \in ResIds, NEW b \in ResIds, a # b,
                      Keyed(a)', Keyed(b)', SameKey(resv'[a], resv'[b])
               PROVE  Replaces(a, b)' \/ Replaces(b, a)'
    BY DEF KeyInv, SameKey
  <2>1. a \notin locked /\ b \notin locked
    BY <1>2 DEF Keyed
  <2>2. Keyed(a) /\ Keyed(b)
    BY <2>1, <1>1, <1>2 DEF Keyed
  <2>3. SameKey(resv[a], resv[b])
    BY <2>2, <1>2 DEF SameKey, Keyed
  <2>4. Replaces(a, b) \/ Replaces(b, a)
    BY <2>2, <2>3 DEF JInv, LedgerInv, KeyInv
  <2>5. PICK q \in Orderers : /\ order[q].pc = "commit"
                              /\ \/ order[q].id = a /\ b \in order[q].locked
                                 \/ order[q].id = b /\ a \in order[q].locked
    BY <2>4 DEF Replaces
  <2>6. q # p
    BY <2>1, <2>5 DEF locked
  <2>. QED BY <2>5, <2>6, <1>1 DEF Replaces
<1>. QED BY <1>6, <1>7, <1>8, <1>9, <1>10, <1>11 DEF LedgerInv

LEMMA AbortLedger == ASSUME JInv, NEW p \in Orderers, OrderAbort(p) PROVE LedgerInv'
<1>1. CASE order[p].pc # "commit"
  BY <1>1, EndLedger DEF OrderAbort, Refuse, Results
<1>2. CASE order[p].pc = "commit"
  <2> DEFINE row == order[p].id
  <2>1. row \in ResIds /\ resv[row].status = "pending"
    BY <1>2, OrdererFacts
  <2>2. /\ resv' = [resv EXCEPT ![row] = NoRow]
        /\ EndTxn(p, "done", NoRes, "none", "error")
        /\ UNCHANGED <<clock, upd>>
    BY <1>2 DEF OrderAbort, Refuse
  <2>3. /\ order'[p].pc = "done" /\ order'[p].locked = {} /\ order'[p].now = 0
        /\ order'[p].res = "error"
        /\ \A q \in Orderers \ {p} : order'[q] = order[q]
        /\ resv'[row].status = "absent"
        /\ \A r \in ResIds \ {row} : resv'[r] = resv[r]
    BY <2>1, <2>2, OrdererFacts DEF EndTxn, JInv, IInv, TypeOK, OrderCall, NoRow
  <2>. HIDE DEF row
  <2>4. LockedInv'
    <3>1. 0 <= clock
      BY OrdererFacts
    <3>2. \A q \in Orderers : \A r \in order[q].locked : r \in ResIds \ {row}
      BY <2>1, OrdererFacts DEF Confirmed
    <3>. QED BY <2>2, <2>3, <3>1, <3>2 DEF JInv, LedgerInv, LockedInv, Confirmed, Lapsed
  <2>5. PendingInv'
    <3>1. \A q \in Orderers \ {p} : order[q].pc = "commit" =>
            order[q].id \in ResIds \ {row}
      BY <1>2, <2>1, OrdererFacts DEF JInv, IInv, HeapInv, row
    <3>. QED BY <2>3, <3>1 DEF JInv, LedgerInv, PendingInv
  <2>6. AnswerInv'
    BY <2>1, <2>3 DEF JInv, LedgerInv, AnswerInv
  <2>7. RowLockInv'
    <3>1. \A u \in Updaters : upd[u].pc = "cancel_commit" => upd[u].id \in ResIds \ {row}
      BY <2>1, UpdaterFacts DEF JInv, LedgerInv, RowLockInv, Confirmed
    <3>2. \A q \in Orderers : order'[q].locked = order[q].locked \/ order'[q].locked = {}
      BY <2>3
    <3>. QED BY <2>2, <2>3, <3>1, <3>2 DEF JInv, LedgerInv, RowLockInv, Confirmed
  <2>8. AgeInv'
    BY <2>2, <2>3 DEF JInv, LedgerInv, AgeInv, Lapsed
  <2>9. KeyInv'
    <3> SUFFICES ASSUME NEW a \in ResIds, NEW b \in ResIds, a # b,
                        Keyed(a)', Keyed(b)', SameKey(resv'[a], resv'[b])
                 PROVE  Replaces(a, b)' \/ Replaces(b, a)'
      BY DEF KeyInv, SameKey
    <3>1. a # row /\ b # row
      BY <2>3 DEF Keyed
    <3>2. Replaces(a, b) \/ Replaces(b, a)
      BY <3>1, <2>3 DEF JInv, LedgerInv, KeyInv, Keyed
    <3>. QED BY <3>1, <3>2, <2>3 DEF Replaces, row
  <2>. QED BY <2>4, <2>5, <2>6, <2>7, <2>8, <2>9 DEF LedgerInv
<1>. QED BY <1>1, <1>2

-----------------------------------------------------------------------------
(* ConfirmHold, CancelReservation, the owner's writes, the tools and the clock *)

\* A step that only changes one updater's call; one at its COMMIT has locked a
\* committed row that nobody else has locked.
LEMMA UpdCallLedger ==
  ASSUME JInv, NEW u \in Updaters, NEW call,
         call.pc = "cancel_commit" =>
           /\ Confirmed(call.id)
           /\ \A p \in Orderers : call.id \notin order[p].locked
           /\ \A v \in Updaters \ {u} : upd[v].pc = "cancel_commit" => upd[v].id # call.id,
         upd' = [upd EXCEPT ![u] = call], UNCHANGED <<clock, resv, order>>
  PROVE  LedgerInv'
<1>1. upd'[u] = call /\ \A v \in Updaters \ {u} : upd'[v] = upd[v]
  BY UpdaterFacts
<1>2. LockedInv' /\ PendingInv' /\ AnswerInv' /\ AgeInv' /\ KeyInv'
  BY DEF JInv, LedgerInv, LockedInv, PendingInv, AnswerInv, AgeInv, KeyInv, Confirmed,
         Lapsed, Keyed, SameKey, Replaces
<1>3. RowLockInv'
  BY <1>1 DEF JInv, LedgerInv, RowLockInv, Confirmed
<1>. QED BY <1>2, <1>3 DEF LedgerInv

\* An update of a committed row that nobody else has locked: it keeps who
\* booked the row, when, and under which key.
LEMMA UpdateLedger ==
  ASSUME JInv, NEW u \in Updaters, NEW r \in ResIds, NEW row,
         Confirmed(r), row.status \in {"confirmed", "cancelled"},
         row.booker = resv[r].booker, row.key = resv[r].key,
         row.created = resv[r].created,
         \A p \in Orderers : r \notin order[p].locked,
         \A v \in Updaters \ {u} : upd[v].pc = "cancel_commit" => upd[v].id # r,
         resv' = [resv EXCEPT ![r] = row], upd' = [upd EXCEPT ![u] = NoCall],
         UNCHANGED <<clock, order>>
  PROVE  LedgerInv'
<1>1. /\ resv'[r] = row /\ \A s \in ResIds \ {r} : resv'[s] = resv[s]
      /\ upd'[u] = NoCall /\ \A v \in Updaters \ {u} : upd'[v] = upd[v]
  BY UpdaterFacts DEF JInv, IInv, TypeOK
<1>2. LockedInv'
  <2>1. \A p \in Orderers : \A s \in order[p].locked : s \in ResIds \ {r}
    BY OrdererFacts
  <2>. QED BY <1>1, <2>1 DEF JInv, LedgerInv, LockedInv, Confirmed, Lapsed
<1>3. PendingInv'
  <2>1. \A p \in Orderers : order[p].pc = "commit" => order[p].id \in ResIds \ {r}
    BY OrdererFacts DEF Confirmed
  <2>. QED BY <1>1, <2>1 DEF JInv, LedgerInv, PendingInv
<1>4. AnswerInv'
  BY <1>1 DEF JInv, LedgerInv, AnswerInv
<1>5. RowLockInv'
  <2>1. \A v \in Updaters \ {u} : upd[v].pc = "cancel_commit" => upd[v].id \in ResIds \ {r}
    BY UpdaterFacts
  <2>2. NoCall.pc = "done"
    BY NoCallType
  <2>. QED BY <1>1, <2>1, <2>2 DEF JInv, LedgerInv, RowLockInv, Confirmed
<1>6. AgeInv'
  BY <1>1 DEF JInv, LedgerInv, AgeInv, Lapsed, Confirmed
<1>7. KeyInv'
  <2>1. \A s \in ResIds : /\ Keyed(s)' <=> Keyed(s)
                          /\ resv'[s].key = resv[s].key
                          /\ resv'[s].booker = resv[s].booker
    BY <1>1 DEF Keyed, Confirmed
  <2>2. \A a, b \in ResIds : Replaces(a, b)' <=> Replaces(a, b)
    BY DEF Replaces
  <2>. QED BY <2>1, <2>2 DEF JInv, LedgerInv, KeyInv, SameKey
<1>. QED BY <1>2, <1>3, <1>4, <1>5, <1>6, <1>7 DEF LedgerInv

LEMMA UpdBeginLedger ==
  ASSUME JInv, NEW u \in Updaters, NEW pc \in {"confirm", "cancel"}, UpdBegin(u, pc)
  PROVE  LedgerInv'
<1>1. PICK r \in ResIds, user \in Users :
         /\ upd' = [upd EXCEPT ![u] = [pc |-> pc, id |-> r, user |-> user, now |-> clock]]
         /\ UNCHANGED <<clock, resv, order>>
  BY DEF UpdBegin
<1>2. [pc |-> pc, id |-> r, user |-> user, now |-> clock].pc # "cancel_commit"
  OBVIOUS
<1>. QED BY <1>1, <1>2, UpdCallLedger

LEMMA ReturnLedger ==
  ASSUME JInv, NEW u \in Updaters, Return(u), UNCHANGED <<clock, resv, order>>
  PROVE  LedgerInv'
<1>1. NoCall.pc # "cancel_commit"
  BY NoCallType
<1>. QED BY <1>1, UpdCallLedger DEF Return

\* A row no other transaction has locked is locked by nobody at all.
LEMMA UnlockedRow ==
  ASSUME NEW u \in Updaters, NEW r, ~LockedByOther(u, r)
  PROVE  /\ \A p \in Orderers : r \notin order[p].locked
         /\ \A v \in Updaters : upd[v].pc = "cancel_commit" => upd[v].id # r
BY ConnectionsAssumption DEF LockedByOther

LEMMA ConfirmLedger == ASSUME JInv, NEW u \in Updaters, Confirm(u) PROVE LedgerInv'
<1>1. CASE UNCHANGED resv
  BY <1>1, ReturnLedger DEF Confirm
<1>2. CASE /\ Confirmable(u) /\ ~LockedByOther(u, upd[u].id)
           /\ resv' = [resv EXCEPT ![upd[u].id] = [@ EXCEPT !.kind = "rental", !.exp = 0]]
  <2> DEFINE r == upd[u].id
             row == [resv[r] EXCEPT !.kind = "rental", !.exp = 0]
  <2>1. r \in ResIds /\ Confirmed(r) /\ resv[r].status # "absent"
    BY <1>2, UpdaterFacts DEF Confirm, Confirmable, Confirmed
  <2>2. /\ row.status = resv[r].status /\ row.booker = resv[r].booker
        /\ row.key = resv[r].key /\ row.created = resv[r].created
    BY <2>1, RowFacts DEF ResRow
  <2>3. /\ resv' = [resv EXCEPT ![r] = row] /\ upd' = [upd EXCEPT ![u] = NoCall]
        /\ UNCHANGED <<clock, order>>
    BY <1>2 DEF Confirm, Return
  <2>4. /\ \A p \in Orderers : r \notin order[p].locked
        /\ \A v \in Updaters : upd[v].pc = "cancel_commit" => upd[v].id # r
    BY <1>2, UnlockedRow
  <2>. HIDE DEF row, r
  <2>5. row.status \in {"confirmed", "cancelled"}
    BY <2>1, <2>2 DEF Confirmed
  <2>. QED BY <2>1, <2>2, <2>3, <2>4, <2>5, UpdateLedger
<1>. QED BY <1>1, <1>2 DEF Confirm

LEMMA CancelLedger == ASSUME JInv, NEW u \in Updaters, Cancel(u) PROVE LedgerInv'
<1>1. upd[u] \in UpdCall /\ UNCHANGED <<clock, resv, order>>
  BY UpdaterFacts DEF Cancel
<1>2. CASE /\ Cancellable(u) /\ ~LockedByOther(u, upd[u].id)
           /\ upd' = [upd EXCEPT ![u].pc = "cancel_commit"]
  <2> DEFINE call == [upd[u] EXCEPT !.pc = "cancel_commit"]
  <2>1. call.id = upd[u].id
    BY <1>1 DEF UpdCall
  <2>2. /\ Confirmed(call.id)
        /\ \A p \in Orderers : call.id \notin order[p].locked
        /\ \A v \in Updaters : upd[v].pc = "cancel_commit" => upd[v].id # call.id
    BY <1>2, <2>1, UnlockedRow DEF Cancellable
  <2>3. upd' = [upd EXCEPT ![u] = call]
    BY <1>2
  <2>. HIDE DEF call
  <2>. QED BY <1>1, <2>2, <2>3, UpdCallLedger
<1>3. CASE upd' = [upd EXCEPT ![u].pc = "cancel_classify"]
  <2> DEFINE call == [upd[u] EXCEPT !.pc = "cancel_classify"]
  <2>1. call.pc # "cancel_commit"
    BY <1>1 DEF UpdCall
  <2>2. upd' = [upd EXCEPT ![u] = call]
    BY <1>3
  <2>. HIDE DEF call
  <2>. QED BY <1>1, <2>1, <2>2, UpdCallLedger
<1>. QED BY <1>2, <1>3 DEF Cancel

LEMMA CancelCommitLedger ==
  ASSUME JInv, NEW u \in Updaters, CancelCommit(u) PROVE LedgerInv'
<1> DEFINE r == upd[u].id
           row == [resv[r] EXCEPT !.status = "cancelled"]
<1>1. upd[u].pc = "cancel_commit" /\ r \in ResIds /\ resv[r].status # "absent"
  BY UpdaterFacts DEF CancelCommit
<1>2. /\ Confirmed(r) /\ \A p \in Orderers : r \notin order[p].locked
      /\ \A v \in Updaters \ {u} : upd[v].pc = "cancel_commit" => upd[v].id # r
  BY <1>1 DEF JInv, LedgerInv, RowLockInv
<1>3. /\ row.status = "cancelled" /\ row.booker = resv[r].booker
      /\ row.key = resv[r].key /\ row.created = resv[r].created
  BY <1>1, RowFacts DEF ResRow
<1>4. /\ resv' = [resv EXCEPT ![r] = row] /\ upd' = [upd EXCEPT ![u] = NoCall]
      /\ UNCHANGED <<clock, order>>
  BY DEF CancelCommit, Return
<1>. HIDE DEF row, r
<1>. QED BY <1>1, <1>2, <1>3, <1>4, UpdateLedger

\* The clock only moves on, so what has lapsed stays lapsed.
LEMMA ClockLedger ==
  ASSUME JInv, clock' \in Nat, clock <= clock', UNCHANGED <<resv, order, upd>>
  PROVE  LedgerInv'
<1>1. \A p \in Orderers : order[p].now \in Nat /\ order[p].now <= clock'
  BY OrdererFacts
<1>2. LockedInv' /\ PendingInv' /\ AnswerInv' /\ RowLockInv' /\ KeyInv'
  BY <1>1 DEF JInv, LedgerInv, LockedInv, PendingInv, AnswerInv, RowLockInv, KeyInv,
              Confirmed, Lapsed, Keyed, SameKey, Replaces
<1>3. AgeInv'
  <2> SUFFICES ASSUME NEW r \in ResIds, resv[r].status # "absent"
               PROVE  /\ resv[r].created <= clock'
                      /\ resv[r].status = "reaped" =>
                           resv[r].kind = "rental_hold" /\ resv[r].exp <= clock'
    BY DEF AgeInv, Lapsed
  <2>1. /\ resv[r].created \in Nat /\ resv[r].exp \in Nat /\ clock \in Nat
        /\ resv[r].created <= clock
    BY RowFacts DEF JInv, IInv, TypeOK
  <2>2. resv[r].status = "reaped" => resv[r].kind = "rental_hold" /\ resv[r].exp <= clock
    BY DEF JInv, LedgerInv, AgeInv, Lapsed
  <2>. QED BY <2>1, <2>2
<1>. QED BY <1>2, <1>3 DEF LedgerInv

LEMMA RawInsertLedger == ASSUME JInv, RawInsert PROVE LedgerInv'
<1>1. PICK o \in RawRows, r \in FreeIds :
         /\ resv' = [resv EXCEPT ![r] =
                       [status |-> "confirmed", car |-> o.car, booker |-> o.booker,
                        kind |-> o.kind, start |-> o.start, end |-> o.end,
                        price |-> o.maxPrice, exp |-> 0, key |-> o.key,
                        created |-> clock]]
         /\ UNCHANGED <<clock, order, upd>>
  BY DEF RawInsert
<1>2. r \in ResIds /\ resv[r].status = "absent" /\ o.key = NoKey
  BY RawAssumption DEF FreeIds
<1>3. /\ resv'[r].status = "confirmed" /\ resv'[r].key = NoKey /\ resv'[r].created = clock
      /\ \A s \in ResIds \ {r} : resv'[s] = resv[s]
  BY <1>1, <1>2 DEF JInv, IInv, TypeOK
<1>4. LockedInv'
  <2>1. \A p \in Orderers : \A s \in order[p].locked : s \in ResIds \ {r}
    BY <1>2, OrdererFacts DEF Confirmed
  <2>. QED BY <1>1, <1>3, <2>1 DEF JInv, LedgerInv, LockedInv, Confirmed, Lapsed
<1>5. PendingInv'
  <2>1. \A p \in Orderers : order[p].pc = "commit" => order[p].id \in ResIds \ {r}
    BY <1>2, OrdererFacts
  <2>. QED BY <1>1, <1>3, <2>1 DEF JInv, LedgerInv, PendingInv
<1>6. AnswerInv'
  BY <1>1, <1>2, <1>3 DEF JInv, LedgerInv, AnswerInv
<1>7. RowLockInv'
  <2>1. \A u \in Updaters : upd[u].pc = "cancel_commit" => upd[u].id \in ResIds \ {r}
    BY <1>2, UpdaterFacts
  <2>. QED BY <1>1, <1>3, <2>1 DEF JInv, LedgerInv, RowLockInv, Confirmed
<1>8. AgeInv'
  <2>1. clock \in Nat
    BY DEF JInv, IInv, TypeOK
  <2>. QED BY <1>1, <1>3, <2>1 DEF JInv, LedgerInv, AgeInv, Lapsed
<1>9. KeyInv'
  <2>1. \A a, b \in ResIds : Replaces(a, b)' <=> Replaces(a, b)
    BY <1>1 DEF Replaces
  <2>. QED BY <1>3, <2>1 DEF JInv, LedgerInv, KeyInv, Keyed, SameKey
<1>. QED BY <1>4, <1>5, <1>6, <1>7, <1>8, <1>9 DEF LedgerInv

-----------------------------------------------------------------------------
(* The invariant and the first theorems *)

LEMMA InitLedger == Init => LedgerInv
<1> SUFFICES ASSUME Init PROVE LedgerInv
  OBVIOUS
<1>1. LockedInv /\ PendingInv /\ AnswerInv
  BY DEF Init, LockedInv, PendingInv, AnswerInv
<1>2. RowLockInv
  BY DEF Init, RowLockInv, NoCall
<1>3. AgeInv /\ KeyInv
  BY DEF Init, AgeInv, KeyInv, Keyed, NoRow
<1>. QED BY <1>1, <1>2, <1>3 DEF LedgerInv

LEMMA StepLedger == JInv /\ [OpsNext]_vars => LedgerInv'
<1> SUFFICES ASSUME JInv, [OpsNext]_vars PROVE LedgerInv'
  OBVIOUS
<1>1. ASSUME NEW p \in Orderers, OrderBegin(p) \/ OrderStep(p) \/ OrderAbort(p)
      PROVE  LedgerInv'
  BY <1>1, BeginLedger, EnqueueLedger, ReapLedger, CheckLedger, InsertLedger,
     ClassifyLedger, CommitLedger, ReplayLedger, AbortLedger DEF OrderStep
<1>2. ASSUME NEW u \in Updaters,
             \/ \E pc \in {"confirm", "cancel"} : UpdBegin(u, pc)
             \/ UpdStep(u) \/ UpdAbort(u)
      PROVE  LedgerInv'
  BY <1>2, UpdBeginLedger, ConfirmLedger, CancelLedger, CancelCommitLedger, ReturnLedger
     DEF UpdStep, UpdAbort, CancelClassify
<1>3. clock \in Nat
  BY DEF JInv, IInv, TypeOK
<1>4. ASSUME NEW c \in Cars, CreateCar(c) \/ UpdateCar(c) PROVE LedgerInv'
  BY <1>3, <1>4, ClockLedger DEF CreateCar, UpdateCar
<1>5. ASSUME NEW x \in RecIds,
             \/ CreateSchedule(x) \/ CommitSchedule(x) \/ AbortSchedule(x)
             \/ DeactivateSchedule(x)
      PROVE  LedgerInv'
  BY <1>3, <1>5, ClockLedger
     DEF CreateSchedule, CommitSchedule, AbortSchedule, DeactivateSchedule
<1>6. CASE Tick
  BY <1>3, <1>6, ClockLedger DEF Tick
<1>7. CASE UNCHANGED vars
  BY <1>3, <1>7, ClockLedger DEF vars
<1>. QED BY <1>1, <1>2, <1>4, <1>5, <1>6, <1>7, RawInsertLedger DEF OpsNext, Next

LEMMA LedgerInvariant == OpsSpec => []JInv
<1>1. Init => JInv
  BY InitIInv, InitLedger DEF JInv
<1>2. JInv /\ [OpsNext]_vars => JInv'
  BY StepIInv, StepLedger DEF JInv
<1>. QED BY <1>1, <1>2, PTL DEF OpsSpec

LEMMA LedgerInvAnswers == JInv => AnswersAreDurable
<1> SUFFICES ASSUME JInv, NEW p \in Orderers, order[p].pc = "done", order[p].res = "ok"
             PROVE  /\ resv[order[p].id].status \in {"confirmed", "cancelled", "reaped"}
                    /\ resv[order[p].id].booker = order[p].req.booker
                    /\ resv[order[p].id].status = "reaped" => Lapsed(order[p].id, clock)
  BY DEF AnswersAreDurable
<1>. QED BY DEF JInv, LedgerInv, AnswerInv, AgeInv

\* Two rows with one key that are both still in the index would need one of them
\* pending, and a row a caller was answered with is not.
LEMMA LedgerInvRetries == JInv => RetriesAgree
<1> SUFFICES ASSUME JInv, NEW p \in Orderers, NEW q \in Orderers,
                    order[p].pc = "done", order[p].res = "ok",
                    order[q].pc = "done", order[q].res = "ok",
                    order[p].req.key # NoKey, order[p].req.key = order[q].req.key,
                    order[p].req.booker = order[q].req.booker,
                    order[p].id # order[q].id,
                    resv[order[p].id].status # "reaped", resv[order[q].id].status # "reaped"
             PROVE  FALSE
  BY DEF RetriesAgree
<1> DEFINE a == order[p].id  b == order[q].id
<1>1. /\ a \in ResIds /\ resv[a].status \in {"confirmed", "cancelled"}
      /\ b \in ResIds /\ resv[b].status \in {"confirmed", "cancelled"}
      /\ SameKey(resv[a], resv[b])
  BY DEF JInv, LedgerInv, AnswerInv, SameKey
<1>. HIDE DEF a, b
<1>2. a # b
  BY DEF a, b
<1>3. Replaces(a, b) \/ Replaces(b, a)
  BY <1>1, <1>2 DEF JInv, LedgerInv, KeyInv, Keyed
<1>4. resv[a].status = "pending" \/ resv[b].status = "pending"
  BY <1>3, OrdererFacts DEF Replaces
<1>. QED BY <1>1, <1>4

\* A booking a caller was told of is committed and theirs, and only a hold whose
\* expiry has passed is ever reaped: whatever the interleaving, the lost
\* answers, the cancellations, and the tools writing beside the API.
THEOREM AnswersAreDurableAlways == OpsSpec => []AnswersAreDurable
BY LedgerInvariant, LedgerInvAnswers, PTL

\* The insert, the first lookup and the replay never answer one key of one
\* booker with two different bookings.
THEOREM RetriesAgreeAlways == OpsSpec => []RetriesAgree
BY LedgerInvariant, LedgerInvRetries, PTL

-----------------------------------------------------------------------------
(* The committed rows behave as the ledger *)

\* The committed rows: what Book!book stands for.
Committed == [r \in ResIds |-> IF resv[r].status = "pending" THEN NoRow ELSE resv[r]]

\* A booking appears, and the lapsed holds it replaces disappear with it.
LEMMA LedgerBooks ==
  ASSUME NEW r \in ResIds, NEW gone \in SUBSET ResIds, NEW row,
         Committed[r].status = "absent", row.status = "confirmed",
         row.created <= clock, row.kind = "rental_hold" => row.exp = row.created + HoldTTL,
         \A s \in gone : /\ Confirmed(s) /\ Lapsed(s, clock) /\ resv[s].car = row.car,
         \A s \in ResIds \ gone :
            /\ Confirmed(s) /\ resv[s].car = row.car =>
                 \A t \in row.start .. row.end - 1 : t \notin resv[s].start .. resv[s].end - 1
            /\ Visible(s) /\ row.key # NoKey =>
                 ~(resv[s].booker = row.booker /\ resv[s].key = row.key),
         Committed' = [s \in ResIds |->
                         IF s = r THEN row
                         ELSE IF s \in gone THEN [Committed[s] EXCEPT !.status = "reaped"]
                         ELSE Committed[s]],
         UNCHANGED clock
  PROVE  Book!Next
<1>1. Committed'[r] = row
  OBVIOUS
<1>2. \A s \in ResIds : /\ Visible(s) => Committed[s] = resv[s]
                        /\ Committed[s].status \in {"confirmed", "cancelled"} =>
                             Visible(s) /\ Committed[s] = resv[s]
  BY DEF Committed, Visible, NoRow
<1>3. \A s \in gone : Book!LapsedHold(s, row.car)
  BY <1>2 DEF Book!LapsedHold, Committed, Confirmed, Lapsed, Visible
<1>4. Book!Admissible(r, row, gone)
  BY <1>2 DEF Book!Admissible, Book!Instants, Committed, Confirmed, Visible
<1>. HIDE DEF Committed
<1>5. Book!Book(r)
  BY <1>1, <1>3, <1>4 DEF Book!Book, Committed
<1>. QED BY <1>5 DEF Book!Next

\* The committed rows do not change.
LEMMA LedgerStutters ==
  ASSUME UNCHANGED clock,
         \A r \in ResIds : \/ resv'[r] = resv[r]
                           \/ /\ resv[r].status = "pending" \/ resv[r] = NoRow
                              /\ resv'[r].status = "pending" \/ resv'[r] = NoRow
  PROVE  UNCHANGED <<clock, Committed>>
BY DEF Committed, NoRow

LEMMA CommitBooks == ASSUME JInv, NEW p \in Orderers, OrderCommit(p) PROVE Book!Next
<1> DEFINE r == order[p].id  gone == order[p].locked
           row == [resv[r] EXCEPT !.status = "confirmed"]
<1>1. /\ order[p].pc = "commit" /\ r \in ResIds /\ resv[r].status = "pending"
      /\ r \notin gone /\ gone \in SUBSET ResIds /\ UNCHANGED clock
  BY CommitCalls, OrdererFacts
<1>2. resv[r] \in ResRow /\ resv[r].created <= clock
  BY <1>1, RowFacts
<1>3. /\ row.status = "confirmed" /\ row.car = resv[r].car /\ row.booker = resv[r].booker
      /\ row.kind = resv[r].kind /\ row.start = resv[r].start /\ row.end = resv[r].end
      /\ row.exp = resv[r].exp /\ row.key = resv[r].key /\ row.created = resv[r].created
  BY <1>2 DEF ResRow
<1>4. /\ resv[r].car = order[p].req.car
      /\ resv[r].kind = "rental_hold" => resv[r].exp = resv[r].created + HoldTTL
  BY <1>1 DEF JInv, LedgerInv, PendingInv
<1>5. ASSUME NEW s \in gone
      PROVE  Confirmed(s) /\ Lapsed(s, clock) /\ resv[s].car = row.car
  <2>1. Confirmed(s) /\ Lapsed(s, order[p].now) /\ resv[s].car = order[p].req.car
    BY OrdererFacts
  <2>2. resv[s].exp \in Nat /\ order[p].now \in Nat /\ order[p].now <= clock /\ clock \in Nat
    BY <2>1, <1>1, RowFacts, OrdererFacts DEF Confirmed
  <2>. QED BY <2>1, <2>2, <1>3, <1>4 DEF Lapsed
<1>6. ASSUME NEW s \in ResIds \ gone
      PROVE  ~Replaces(r, s) /\ (Replaces(s, r) => resv[s].status = "pending")
  BY <1>1, OrdererFacts DEF Replaces, JInv, IInv, HeapInv
<1>. HIDE DEF r, gone, row
<1>7. ASSUME NEW s \in ResIds \ gone, Confirmed(s), resv[s].car = row.car,
             NEW t \in row.start .. row.end - 1, t \in resv[s].start .. resv[s].end - 1
      PROVE  FALSE
  <2>1. resv[s] \in ResRow /\ s # r
    BY <1>1, <1>7, RowFacts DEF Confirmed
  <2>2. Overlaps(resv[r], resv[s])
    BY <2>1, <1>2, <1>3, <1>7 DEF Overlaps, ResRow
  <2>3. Live(r) /\ Live(s) /\ resv[r].car = resv[s].car
    BY <1>1, <1>3, <1>7 DEF Live, Confirmed
  <2>4. Replaces(r, s) \/ Replaces(s, r)
    BY <2>1, <2>2, <2>3, <1>1 DEF JInv, IInv, DisjointInv
  <2>. QED BY <2>4, <1>6, <1>7 DEF Confirmed
<1>8. ASSUME NEW s \in ResIds \ gone, Visible(s), row.key # NoKey,
             resv[s].booker = row.booker, resv[s].key = row.key
      PROVE  FALSE
  <2>1. Keyed(r) /\ Keyed(s) /\ SameKey(resv[r], resv[s]) /\ s # r
    BY <1>1, <1>3, <1>8 DEF Keyed, SameKey, Visible
  <2>2. Replaces(r, s) \/ Replaces(s, r)
    BY <2>1, <1>1 DEF JInv, LedgerInv, KeyInv
  <2>. QED BY <2>2, <1>6, <1>8 DEF Visible
<1>9. Committed[r].status = "absent"
  BY <1>1 DEF Committed, NoRow
<1>10. Committed' = [s \in ResIds |->
                       IF s = r THEN row
                       ELSE IF s \in gone THEN [Committed[s] EXCEPT !.status = "reaped"]
                       ELSE Committed[s]]
  <2>1. ASSUME NEW s \in ResIds
        PROVE  Committed'[s] = IF s = r THEN row
                               ELSE IF s \in gone THEN [Committed[s] EXCEPT !.status = "reaped"]
                               ELSE Committed[s]
    <3>1. CASE s = r
      <4>1. resv'[r] = row /\ resv'[r].status = "confirmed"
        BY <1>1, CommitRow DEF row, r
      <4>. QED BY <3>1, <4>1 DEF Committed
    <3>2. CASE s \in gone
      <4>1. resv'[s] = [resv[s] EXCEPT !.status = "reaped"] /\ resv'[s].status = "reaped"
        BY <3>2, <1>1, CommitRow DEF gone
      <4>2. s # r /\ Committed[s] = resv[s]
        BY <3>2, <1>1, <1>5 DEF Committed, Confirmed
      <4>. QED BY <3>2, <4>1, <4>2 DEF Committed
    <3>3. CASE s # r /\ s \notin gone
      <4>1. resv'[s] = resv[s]
        BY <3>3, CommitRow DEF gone, r
      <4>. QED BY <3>3, <4>1 DEF Committed
    <3>. QED BY <3>1, <3>2, <3>3
  <2>. QED BY <2>1 DEF Committed
<1>11. /\ row.status = "confirmed" /\ row.created <= clock
       /\ row.kind = "rental_hold" => row.exp = row.created + HoldTTL
  BY <1>2, <1>3, <1>4
<1>. QED BY <1>1, <1>5, <1>7, <1>8, <1>9, <1>10, <1>11, LedgerBooks

LEMMA RawInsertBooks == ASSUME JInv, RawInsert PROVE Book!Next
<1>1. PICK o \in RawRows, r \in FreeIds :
         /\ OverlapClashes({}, o) = {}
         /\ resv' = [resv EXCEPT ![r] =
                       [status |-> "confirmed", car |-> o.car, booker |-> o.booker,
                        kind |-> o.kind, start |-> o.start, end |-> o.end,
                        price |-> o.maxPrice, exp |-> 0, key |-> o.key,
                        created |-> clock]]
         /\ UNCHANGED clock
  BY DEF RawInsert
<1> DEFINE row == [status |-> "confirmed", car |-> o.car, booker |-> o.booker,
                   kind |-> o.kind, start |-> o.start, end |-> o.end,
                   price |-> o.maxPrice, exp |-> 0, key |-> o.key, created |-> clock]
<1>2. /\ r \in ResIds /\ resv[r].status = "absent" /\ clock \in Nat
      /\ o \in OrderParams /\ o.kind = "rental" /\ o.key = NoKey
  BY RawAssumption DEF FreeIds, JInv, IInv, TypeOK
<1>3. /\ row.status = "confirmed" /\ row.car = o.car /\ row.start = o.start
      /\ row.end = o.end /\ row.kind = "rental" /\ row.key = NoKey /\ row.created = clock
  BY <1>2
<1>4. resv' = [resv EXCEPT ![r] = row]
  BY <1>1
<1>. HIDE DEF row
<1>5. ASSUME NEW s \in ResIds, Confirmed(s), resv[s].car = row.car,
             NEW t \in row.start .. row.end - 1, t \in resv[s].start .. resv[s].end - 1
      PROVE  FALSE
  <2>1. resv[s] \in ResRow /\ resv[s].status = "confirmed"
    BY <1>5, RowFacts DEF Confirmed
  <2>2. Overlaps(resv[s], o)
    BY <2>1, <1>2, <1>3, <1>5 DEF Overlaps, ResRow, OrderParams
  <2>. QED BY <2>1, <2>2, <1>1, <1>3, <1>5 DEF OverlapClashes
<1>6. Committed[r].status = "absent"
  BY <1>2 DEF Committed, NoRow
<1> DEFINE gone == {}
<1>7. gone \in SUBSET ResIds /\ \A s : s \notin gone
  OBVIOUS
<1>. HIDE DEF gone
<1>8. Committed' = [s \in ResIds |->
                      IF s = r THEN row
                      ELSE IF s \in gone THEN [Committed[s] EXCEPT !.status = "reaped"]
                      ELSE Committed[s]]
  <2>1. /\ resv'[r] = row /\ resv'[r].status = "confirmed"
        /\ \A s \in ResIds \ {r} : resv'[s] = resv[s]
    BY <1>2, <1>3, <1>4 DEF JInv, IInv, TypeOK
  <2>2. \A s \in ResIds : Committed'[s] = IF s = r THEN row ELSE Committed[s]
    BY <2>1 DEF Committed
  <2>. QED BY <2>2, <1>7 DEF Committed
<1>9. /\ row.created <= clock
      /\ row.kind = "rental_hold" => row.exp = row.created + HoldTTL
  BY <1>2, <1>3
<1>. QED BY <1>1, <1>2, <1>3, <1>5, <1>6, <1>7, <1>8, <1>9, LedgerBooks

\* One committed row gets a new version.
LEMMA CommittedUpdate ==
  ASSUME JInv, NEW r \in ResIds, Confirmed(r), NEW row, row.status # "pending",
         resv' = [resv EXCEPT ![r] = row]
  PROVE  Committed[r] = resv[r] /\ Committed' = [Committed EXCEPT ![r] = row]
<1>1. resv'[r] = row /\ \A s \in ResIds \ {r} : resv'[s] = resv[s]
  BY DEF JInv, IInv, TypeOK
<1>2. \A s \in ResIds : Committed'[s] = IF s = r THEN row ELSE Committed[s]
  BY <1>1 DEF Committed
<1>. QED BY <1>2 DEF Committed, Confirmed

LEMMA ConfirmLedgerStep ==
  ASSUME JInv, NEW u \in Updaters, Confirm(u)
  PROVE  Book!Next \/ UNCHANGED <<clock, Committed>>
<1>1. CASE UNCHANGED resv
  BY <1>1, LedgerStutters DEF Confirm
<1>2. CASE /\ Confirmable(u)
           /\ resv' = [resv EXCEPT ![upd[u].id] = [@ EXCEPT !.kind = "rental", !.exp = 0]]
  <2>0. PICK id \in ResIds : id = upd[u].id
    BY UpdaterFacts DEF Confirm
  <2> DEFINE row == [resv[id] EXCEPT !.kind = "rental", !.exp = 0]
  <2>1. /\ id \in ResIds /\ Confirmed(id) /\ resv[id].kind = "rental_hold"
        /\ resv[id].status # "absent"
    BY <1>2, <2>0 DEF Confirm, Confirmable, Confirmed
  <2>2. row.status # "pending"
    BY <2>1, RowFacts DEF ResRow, Confirmed
  <2>3. Committed[id] = resv[id] /\ Committed' = [Committed EXCEPT ![id] = row]
    BY <1>2, <2>0, <2>1, <2>2, CommittedUpdate
  <2>4. Committed' = [Committed EXCEPT ![id] = [@ EXCEPT !.kind = "rental", !.exp = 0]]
    BY <2>3
  <2>5. Committed[id].status = "confirmed" /\ Committed[id].kind = "rental_hold"
    BY <2>1, <2>3 DEF Confirmed
  <2>6. UNCHANGED clock
    BY DEF Confirm
  <2>. HIDE DEF row
  <2>7. Book!Confirm(id)
    BY <2>4, <2>5, <2>6 DEF Book!Confirm, Committed
  <2>. QED BY <2>1, <2>7 DEF Book!Next
<1>. QED BY <1>1, <1>2 DEF Confirm

LEMMA CancelLedgerStep ==
  ASSUME JInv, NEW u \in Updaters, CancelCommit(u) PROVE Book!Next
<1>0. PICK id \in ResIds : id = upd[u].id
  BY UpdaterFacts DEF CancelCommit
<1> DEFINE row == [resv[id] EXCEPT !.status = "cancelled"]
<1>1. id \in ResIds /\ Confirmed(id) /\ resv[id].status # "absent"
  BY <1>0 DEF CancelCommit, JInv, LedgerInv, RowLockInv, Confirmed
<1>2. row.status # "pending"
  BY <1>1, RowFacts DEF ResRow
<1>3. Committed[id] = resv[id] /\ Committed' = [Committed EXCEPT ![id] = row]
  BY <1>0, <1>1, <1>2, CommittedUpdate DEF CancelCommit
<1>4. Committed' = [Committed EXCEPT ![id] = [@ EXCEPT !.status = "cancelled"]]
  BY <1>3
<1>5. Committed[id].status = "confirmed" /\ UNCHANGED clock
  BY <1>1, <1>3 DEF Confirmed, CancelCommit
<1>. HIDE DEF row
<1>6. Book!Cancel(id)
  BY <1>4, <1>5 DEF Book!Cancel, Committed
<1>. QED BY <1>1, <1>6 DEF Book!Next

LEMMA InsertAbortStutter ==
  ASSUME JInv, NEW p \in Orderers, OrderInsert(p) \/ OrderAbort(p)
  PROVE  UNCHANGED <<clock, Committed>>
<1>1. UNCHANGED clock
  BY DEF OrderInsert, OrderAbort
<1>2. CASE UNCHANGED resv
  BY <1>1, <1>2, LedgerStutters
<1>3. ASSUME NEW r \in FreeIds, resv' = [resv EXCEPT ![r] = NewRow(p)]
      PROVE  UNCHANGED <<clock, Committed>>
  <2>1. r \in ResIds /\ resv[r] = NoRow
    BY <1>3, RowShape DEF FreeIds, JInv, IInv
  <2>2. resv'[r].status = "pending" /\ \A s \in ResIds \ {r} : resv'[s] = resv[s]
    BY <1>3, <2>1 DEF NewRow, JInv, IInv, TypeOK
  <2>. QED BY <1>1, <2>1, <2>2, LedgerStutters
<1>4. CASE order[p].pc = "commit" /\ resv' = [resv EXCEPT ![order[p].id] = NoRow]
  <2> DEFINE r == order[p].id
  <2>1. r \in ResIds /\ resv[r].status = "pending"
    BY <1>4, OrdererFacts
  <2>2. resv'[r] = NoRow /\ \A s \in ResIds \ {r} : resv'[s] = resv[s]
    BY <1>4, <2>1 DEF JInv, IInv, TypeOK
  <2>. HIDE DEF r
  <2>. QED BY <1>1, <2>1, <2>2, LedgerStutters
<1>. QED BY <1>2, <1>3, <1>4 DEF OrderInsert, OrderAbort

LEMMA LedgerStep ==
  JInv /\ [OpsNext]_vars => Book!Next \/ UNCHANGED <<clock, Committed>>
<1> SUFFICES ASSUME JInv, [OpsNext]_vars
             PROVE  Book!Next \/ UNCHANGED <<clock, Committed>>
  OBVIOUS
<1>1. CASE UNCHANGED <<clock, resv>>
  BY <1>1, LedgerStutters
<1>2. ASSUME NEW p \in Orderers, OrderBegin(p) \/ OrderStep(p) \/ OrderAbort(p)
      PROVE  Book!Next \/ UNCHANGED <<clock, Committed>>
  <2>1. CASE OrderInsert(p) \/ OrderAbort(p)
    BY <2>1, InsertAbortStutter
  <2>2. CASE OrderCommit(p)
    BY <2>2, CommitBooks
  <2>3. CASE \/ OrderBegin(p) \/ OrderEnqueue(p) \/ OrderReap(p) \/ OrderCheck(p)
             \/ OrderClassify(p) \/ OrderReplay(p)
    BY <2>3, <1>1 DEF OrderBegin, OrderEnqueue, OrderReap, OrderCheck, OrderClassify,
                      OrderReplay
  <2>. QED BY <1>2, <2>1, <2>2, <2>3 DEF OrderStep
<1>3. ASSUME NEW u \in Updaters,
             \/ \E pc \in {"confirm", "cancel"} : UpdBegin(u, pc)
             \/ UpdStep(u) \/ UpdAbort(u)
      PROVE  Book!Next \/ UNCHANGED <<clock, Committed>>
  <2>1. CASE Confirm(u)
    BY <2>1, ConfirmLedgerStep
  <2>2. CASE CancelCommit(u)
    BY <2>2, CancelLedgerStep
  <2>3. CASE \/ \E pc \in {"confirm", "cancel"} : UpdBegin(u, pc)
             \/ Cancel(u) \/ CancelClassify(u) \/ UpdAbort(u)
    BY <2>3, <1>1 DEF UpdBegin, Cancel, CancelClassify, UpdAbort
  <2>. QED BY <1>3, <2>1, <2>2, <2>3 DEF UpdStep
<1>4. CASE \/ \E c \in Cars : CreateCar(c) \/ UpdateCar(c)
           \/ \E x \in RecIds : \/ CreateSchedule(x) \/ CommitSchedule(x) \/ AbortSchedule(x)
                               \/ DeactivateSchedule(x)
           \/ UNCHANGED vars
  BY <1>1, <1>4 DEF CreateCar, UpdateCar, CreateSchedule, CommitSchedule, AbortSchedule,
                    DeactivateSchedule, vars
<1>5. CASE Tick
  <2>1. UNCHANGED Committed /\ clock' = clock + 1
    BY <1>5 DEF Tick, Committed
  <2>2. Book!Tick
    BY <2>1 DEF Book!Tick, Committed
  <2>. QED BY <2>2 DEF Book!Next
<1>. QED BY <1>2, <1>3, <1>4, <1>5, RawInsertBooks DEF OpsNext, Next

LEMMA LedgerInit == Init => Book!Init
BY DEF Init, Book!Init, Book!NoBooking, NoRow

\* Whatever the locks, the statements and the interleaving, the committed rows
\* behave as the ledger: a booking and the lapsed holds it replaces change
\* hands in one step, admissible at that step, and a booking once made is only
\* confirmed, cancelled, or reaped as a lapsed hold.
THEOREM LedgerImplemented == OpsSpec => LedgerSpec
BY LedgerInit, LedgerStep, LedgerInvariant, PTL DEF OpsSpec, LedgerSpec, Book!Spec, Committed
=============================================================================
