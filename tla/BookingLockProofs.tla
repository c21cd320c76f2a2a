-------------------------- MODULE BookingLockProofs --------------------------
(***************************************************************************)
(* What the advisory lock of a car is for: while only the API writes, the  *)
(* lock, the reap and the precheck leave the exclusion constraint nothing  *)
(* to refuse, and no booking begun after a schedule was created overlaps   *)
(* it.  Neither survives a tool that inserts without the lock (OpsSpec).   *)
(***************************************************************************)
EXTENDS BookingLedgerProofs

-----------------------------------------------------------------------------
(* The inductive invariant *)

\* The statements that run under the car's lock, and these with the wait for it.
Holding == {"check", "insert", "classify", "commit"}

Queued == Holding \cup {"reap"}

\* Who runs under the lock waits for nobody, and of two calls queued for one
\* car one waits for the other.
QueueInv ==
    /\ \A p \in Orderers : order[p].pc \in Holding => ahead[p] = {}
    /\ \A p, q \in Orderers :
         /\ p # q /\ order[p].pc \in Queued /\ order[q].pc \in Queued
         /\ order[p].req.car = order[q].req.car
         => p \in ahead[q] \/ q \in ahead[p]

\* A call that runs under the lock has deleted every lapsed hold of its car,
\* and past its precheck every committed row in its way.
Cleared(call) ==
    \A r \in ResIds :
        Confirmed(r) /\ resv[r].car = call.req.car =>
            /\ call.pc \in Holding /\ Lapsed(r, call.now) => r \in call.locked
            /\ call.pc \in Holding \ {"check"} /\ Overlaps(resv[r], call.req)
               => r \in call.locked

ClearedInv == \A p \in Orderers : Cleared(order[p])

\* SchedulesYieldOnlyToOlder with the rows in flight.
ScheduleInv ==
    \A r \in ResIds, x \in RecIds :
        /\ Live(r) /\ resv[r].kind # "owner"
        /\ recs[x].state = "active" /\ recs[x].car = resv[r].car
        /\ RecurrenceOverlaps(recs[x], resv[r])
        => resv[r].created <= recs[x].committed

LockInv == QueueInv /\ ClearedInv /\ ScheduleInv /\ ConstraintIdle

ApiInv == JInv /\ LockInv

\* The lock excludes: two calls that run under the lock of one car are one.
LEMMA OneHolder ==
  ASSUME QueueInv, NEW p \in Orderers, NEW q \in Orderers,
         order[p].pc \in Holding, order[q].pc \in Holding,
         order[p].req.car = order[q].req.car
  PROVE  p = q
BY DEF QueueInv, Queued

-----------------------------------------------------------------------------
(* The queue *)

\* The call stays where it is in the queue, or stays out of every queue.
LEMMA QueueKept ==
  ASSUME QueueInv, NEW p \in Orderers, NEW call,
         order \in [Orderers -> OrderCall], order' = [order EXCEPT ![p] = call],
         UNCHANGED ahead,
         call.pc \in Holding => ahead[p] = {},
         call.pc \in Queued => order[p].pc \in Queued /\ call.req = order[p].req
  PROVE  QueueInv'
<1>1. order'[p] = call /\ \A q \in Orderers \ {p} : order'[q] = order[q]
  OBVIOUS
<1>. QED BY <1>1 DEF QueueInv

\* The end of the transaction leaves the queue and lets the next one through.
LEMMA QueueLeft ==
  ASSUME JInv, QueueInv, NEW p \in Orderers, NEW pc \in {"done", "replay"},
         NEW id, NEW err, NEW res, EndTxn(p, pc, id, err, res)
  PROVE  QueueInv'
<1> DEFINE call == [order[p] EXCEPT !.pc = pc, !.now = 0, !.locked = {}, !.id = id,
                                    !.err = err, !.res = res]
<1>1. call.pc = pc
  BY OrdererFacts DEF OrderCall
<1>2. order' = [order EXCEPT ![p] = call]
  BY DEF EndTxn
<1>. HIDE DEF call
<1>3. /\ order'[p].pc = pc /\ \A q \in Orderers \ {p} : order'[q] = order[q]
      /\ ahead'[p] = {} /\ \A q \in Orderers \ {p} : ahead'[q] = ahead[q] \ {p}
  BY <1>1, <1>2, OrdererFacts DEF EndTxn
<1>. QED BY <1>3 DEF QueueInv, Queued, Holding

LEMMA QueueJoined ==
  ASSUME JInv, QueueInv, NEW p \in Orderers, OrderEnqueue(p)
  PROVE  QueueInv'
<1> DEFINE call == [order[p] EXCEPT !.pc = "reap"]
<1>1. call.pc = "reap" /\ call.req = order[p].req
  BY OrdererFacts DEF OrderCall
<1>2. /\ order' = [order EXCEPT ![p] = call] /\ order[p].pc = "enqueue"
      /\ ahead' = [ahead EXCEPT ![p] = Queue(order[p].req.car)]
  BY DEF OrderEnqueue, Advance
<1>. HIDE DEF call
<1>3. ahead \in [Orderers -> SUBSET Orderers]
  BY DEF JInv, IInv, TypeOK
<1>4. /\ order'[p].pc = "reap" /\ order'[p].req = order[p].req
      /\ \A q \in Orderers \ {p} : order'[q] = order[q] /\ ahead'[q] = ahead[q]
      /\ ahead'[p] = Queue(order[p].req.car)
  BY <1>1, <1>2, <1>3, OrdererFacts
<1>5. \A q \in Orderers \ {p} :
         order[q].pc \in Queued /\ order[q].req.car = order[p].req.car => q \in ahead'[p]
  BY <1>4 DEF Queue, Queued, Holding
<1>6. \A q \in Orderers : order'[q].pc \in Holding => ahead'[q] = {}
  BY <1>4 DEF QueueInv, Holding
<1>7. ASSUME NEW q1 \in Orderers, NEW q2 \in Orderers, q1 # q2,
             order'[q1].pc \in Queued, order'[q2].pc \in Queued,
             order'[q1].req.car = order'[q2].req.car
      PROVE  q1 \in ahead'[q2] \/ q2 \in ahead'[q1]
  <2>1. CASE q1 = p
    BY <1>4, <1>5, <1>7, <2>1
  <2>2. CASE q2 = p
    BY <1>4, <1>5, <1>7, <2>2
  <2>3. CASE q1 # p /\ q2 # p
    BY <1>4, <1>7, <2>3 DEF QueueInv
  <2>. QED BY <2>1, <2>2, <2>3
<1>. QED BY <1>6, <1>7 DEF QueueInv

-----------------------------------------------------------------------------
(* Steps of one call that leave the rows alone *)

LEMMA CallLock ==
  ASSUME ApiInv, NEW p \in Orderers, NEW call, order' = [order EXCEPT ![p] = call],
         QueueInv', Cleared(call), call.err # "23P01", UNCHANGED <<recs, resv>>
  PROVE  LockInv'
<1>1. order'[p] = call /\ \A q \in Orderers \ {p} : order'[q] = order[q]
  BY OrdererFacts DEF ApiInv
<1>2. ClearedInv'
  <2>1. \A q \in Orderers : Cleared(order'[q])
    BY <1>1 DEF ApiInv, LockInv, ClearedInv
  <2>. QED BY <2>1 DEF ClearedInv, Cleared, Confirmed, Lapsed, Overlaps
<1>3. ScheduleInv'
  BY DEF ApiInv, LockInv, ScheduleInv, Live, RecurrenceOverlaps, Overlaps
<1>4. ConstraintIdle'
  BY <1>1 DEF ApiInv, LockInv, ConstraintIdle
<1>. QED BY <1>2, <1>3, <1>4 DEF LockInv

\* Outside the lock there is nothing to have cleared.
LEMMA NotHolding == ASSUME NEW call, call.pc \notin Holding PROVE Cleared(call)
BY DEF Cleared

LEMMA BeginLock == ASSUME ApiInv, NEW p \in Orderers, OrderBegin(p) PROVE LockInv'
<1>1. PICK req \in Orders, pc \in {"done", "enqueue"}, id \in ResIds \cup {NoRes},
           res \in Results, now \in {0, clock} :
         order' = [order EXCEPT ![p] =
                     [pc |-> pc, req |-> req, now |-> now, locked |-> {},
                      id |-> id, err |-> "none", res |-> res]]
  BY DEF OrderBegin, Results, ByKey
<1> DEFINE call == [pc |-> pc, req |-> req, now |-> now, locked |-> {},
                    id |-> id, err |-> "none", res |-> res]
<1>2. call.pc \in {"done", "enqueue"} /\ call.err = "none"
  OBVIOUS
<1>3. order' = [order EXCEPT ![p] = call] /\ UNCHANGED <<recs, resv, ahead>>
  BY <1>1 DEF OrderBegin
<1>. HIDE DEF call
<1>4. QueueInv'
  BY <1>2, <1>3, QueueKept, OrdererFacts DEF ApiInv, LockInv, Queued, Holding
<1>5. Cleared(call)
  BY <1>2, NotHolding DEF Holding
<1>. QED BY <1>2, <1>3, <1>4, <1>5, CallLock

\* The end of a transaction, or of the wait for a replay, with the rows as they were.
LEMMA EndLock ==
  ASSUME ApiInv, NEW p \in Orderers, NEW pc \in {"done", "replay"}, NEW id,
         NEW err \in {"none", "23505"}, NEW res, EndTxn(p, pc, id, err, res),
         UNCHANGED <<recs, resv>>
  PROVE  LockInv'
<1> DEFINE call == [order[p] EXCEPT !.pc = pc, !.now = 0, !.locked = {}, !.id = id,
                                    !.err = err, !.res = res]
<1>1. call.pc = pc /\ call.err = err
  BY OrdererFacts DEF OrderCall, ApiInv
<1>2. order' = [order EXCEPT ![p] = call]
  BY DEF EndTxn
<1>. HIDE DEF call
<1>3. QueueInv'
  BY QueueLeft DEF ApiInv, LockInv
<1>4. Cleared(call)
  BY <1>1, NotHolding DEF Holding
<1>. QED BY <1>1, <1>2, <1>3, <1>4, CallLock

LEMMA EnqueueLock == ASSUME ApiInv, NEW p \in Orderers, OrderEnqueue(p) PROVE LockInv'
<1> DEFINE call == [order[p] EXCEPT !.pc = "reap"]
<1>1. call.pc = "reap" /\ call.err = order[p].err
  BY OrdererFacts DEF OrderCall, ApiInv
<1>2. order' = [order EXCEPT ![p] = call] /\ UNCHANGED <<recs, resv>>
  BY DEF OrderEnqueue, Advance
<1>. HIDE DEF call
<1>3. QueueInv'
  BY QueueJoined DEF ApiInv, LockInv
<1>4. Cleared(call)
  BY <1>1, NotHolding DEF Holding
<1>5. call.err # "23P01"
  BY <1>1 DEF ApiInv, LockInv, ConstraintIdle
<1>. QED BY <1>2, <1>3, <1>4, <1>5, CallLock

LEMMA ReapLock == ASSUME ApiInv, NEW p \in Orderers, OrderReap(p) PROVE LockInv'
<1> DEFINE lapsed == {r \in ResIds : /\ Confirmed(r)
                                     /\ resv[r].car = order[p].req.car
                                     /\ Lapsed(r, order[p].now)}
           call == [order[p] EXCEPT !.locked = lapsed, !.pc = "check"]
<1>1. /\ call.pc = "check" /\ call.locked = lapsed /\ call.req = order[p].req
      /\ call.now = order[p].now /\ call.err = order[p].err
  BY OrdererFacts DEF OrderCall, ApiInv
<1>2. /\ order' = [order EXCEPT ![p] = call] /\ UNCHANGED <<recs, resv, ahead>>
      /\ order[p].pc = "reap" /\ ahead[p] = {}
  BY DEF OrderReap
<1>. HIDE DEF call
<1>3. QueueInv'
  BY <1>1, <1>2, QueueKept, OrdererFacts DEF ApiInv, LockInv, Queued, Holding
<1>4. Cleared(call)
  BY <1>1 DEF Cleared, Holding
<1>5. call.err # "23P01"
  BY <1>1 DEF ApiInv, LockInv, ConstraintIdle
<1>. QED BY <1>2, <1>3, <1>4, <1>5, CallLock

\* The call goes on under the lock.
LEMMA AdvanceLock ==
  ASSUME ApiInv, NEW p \in Orderers, NEW pc \in {"insert", "classify"}, Advance(p, pc),
         order[p].pc \in Holding,
         Cleared([order[p] EXCEPT !.pc = pc]), UNCHANGED <<recs, resv, ahead>>
  PROVE  LockInv'
<1> DEFINE call == [order[p] EXCEPT !.pc = pc]
<1>1. call.pc = pc /\ call.req = order[p].req /\ call.err = order[p].err
  BY OrdererFacts DEF OrderCall, ApiInv
<1>2. order' = [order EXCEPT ![p] = call]
  BY DEF Advance
<1>. HIDE DEF call
<1>3. ahead[p] = {}
  BY DEF ApiInv, LockInv, QueueInv
<1>4. QueueInv'
  BY <1>1, <1>2, <1>3, QueueKept, OrdererFacts DEF ApiInv, LockInv, Queued, Holding
<1>5. call.err # "23P01"
  BY <1>1 DEF ApiInv, LockInv, ConstraintIdle
<1>6. Cleared(call)
  BY DEF call
<1>. QED BY <1>2, <1>4, <1>5, <1>6, CallLock

LEMMA CheckLock == ASSUME ApiInv, NEW p \in Orderers, OrderCheck(p) PROVE LockInv'
<1>1. order[p].pc = "check" /\ UNCHANGED <<recs, resv>>
  BY DEF OrderCheck
<1>2. CASE Refuse(p, "conflict")
  BY <1>1, <1>2, EndLock DEF Refuse
<1>3. CASE ~Blocked(p) /\ Advance(p, "insert") /\ UNCHANGED ahead
  <2> DEFINE call == [order[p] EXCEPT !.pc = "insert"]
  <2>1. /\ call.req = order[p].req /\ call.now = order[p].now
        /\ call.locked = order[p].locked
    BY OrdererFacts DEF OrderCall, ApiInv
  <2>2. Cleared(order[p])
    BY DEF ApiInv, LockInv, ClearedInv
  <2>3. Cleared(call)
    <3>. HIDE DEF call
    <3>. QED BY <1>1, <1>3, <2>1, <2>2 DEF Cleared, Blocked, Holding
  <2>. QED BY <1>1, <1>3, <2>3, AdvanceLock DEF Holding
<1>. QED BY <1>2, <1>3 DEF OrderCheck

LEMMA ClassifyLock ==
  ASSUME ApiInv, NEW p \in Orderers, OrderClassify(p) PROVE LockInv'
BY EndLock DEF OrderClassify, Refuse

LEMMA ReplayLock == ASSUME ApiInv, NEW p \in Orderers, OrderReplay(p) PROVE LockInv'
<1>1. PICK id, res : order' = [order EXCEPT ![p] =
                                 [order[p] EXCEPT !.pc = "done", !.id = id, !.res = res]]
  BY DEF OrderReplay
<1> DEFINE call == [order[p] EXCEPT !.pc = "done", !.id = id, !.res = res]
<1>2. call.pc = "done" /\ call.err = order[p].err
  BY OrdererFacts DEF OrderCall, ApiInv
<1>3. order' = [order EXCEPT ![p] = call] /\ UNCHANGED <<recs, resv, ahead>>
  BY <1>1 DEF OrderReplay
<1>. HIDE DEF call
<1>4. QueueInv'
  BY <1>2, <1>3, QueueKept, OrdererFacts DEF ApiInv, LockInv, Queued, Holding
<1>5. Cleared(call)
  BY <1>2, NotHolding DEF Holding
<1>6. call.err # "23P01"
  BY <1>2 DEF ApiInv, LockInv, ConstraintIdle
<1>. QED BY <1>3, <1>4, <1>5, <1>6, CallLock

-----------------------------------------------------------------------------
(* Steps that change the rows *)

\* The insert never meets an entry in the exclusion index that it has not
\* deleted itself: a committed one was deleted or ruled out by the precheck, a
\* pending one belongs to another call under the same lock.
LEMMA NothingClashes ==
  ASSUME ApiInv, NEW p \in Orderers, order[p].pc = "insert"
  PROVE  OverlapClashes(order[p].locked, NewRow(p)) = {}
<1> SUFFICES ASSUME NEW r \in ResIds, r \notin order[p].locked,
                    resv[r].status \in {"pending", "confirmed"},
                    resv[r].car = NewRow(p).car, Overlaps(resv[r], NewRow(p))
             PROVE  FALSE
  BY DEF OverlapClashes
<1>1. resv[r].car = order[p].req.car /\ Overlaps(resv[r], order[p].req)
  BY DEF NewRow, Overlaps
<1>2. CASE resv[r].status = "confirmed"
  <2>1. Cleared(order[p])
    BY DEF ApiInv, LockInv, ClearedInv
  <2>. QED BY <1>1, <1>2, <2>1 DEF Cleared, Confirmed, Holding
<1>3. CASE resv[r].status = "pending"
  <2>1. PICK q \in Orderers : order[q].pc = "commit" /\ order[q].id = r
    BY <1>3 DEF ApiInv, JInv, IInv, HeapInv
  <2>2. order[q].req.car = order[p].req.car
    BY <1>1, <2>1 DEF ApiInv, JInv, LedgerInv, PendingInv
  <2>3. q = p
    BY <2>1, <2>2, OneHolder DEF ApiInv, LockInv, Holding
  <2>. QED BY <2>1, <2>3
<1>. QED BY <1>2, <1>3

LEMMA InsertLock == ASSUME ApiInv, NEW p \in Orderers, OrderInsert(p) PROVE LockInv'
<1>0. order[p].pc = "insert" /\ UNCHANGED <<recs>>
  BY DEF OrderInsert
<1>1. OverlapClashes(order[p].locked, NewRow(p)) = {}
  BY <1>0, NothingClashes
<1>2. CASE Advance(p, "classify") /\ UNCHANGED <<resv, ahead>>
  <2> DEFINE call == [order[p] EXCEPT !.pc = "classify"]
  <2>1. /\ call.req = order[p].req /\ call.now = order[p].now
        /\ call.locked = order[p].locked
    BY OrdererFacts DEF OrderCall, ApiInv
  <2>2. Cleared(order[p])
    BY DEF ApiInv, LockInv, ClearedInv
  <2>3. Cleared(call)
    <3>. HIDE DEF call
    <3>. QED BY <1>0, <2>1, <2>2 DEF Cleared, Holding
  <2>. QED BY <1>0, <1>2, <2>3, AdvanceLock DEF Holding
<1>3. CASE Violation(p, "23505") /\ UNCHANGED resv
  <2>1. PICK pc \in {"done", "replay"}, err \in {"none", "23505"}, res \in Results :
           EndTxn(p, pc, NoRes, err, res)
    BY <1>3 DEF Violation, Results
  <2>. QED BY <1>0, <1>3, <2>1, EndLock
<1>4. ASSUME Insertable(order[p].req), NEW r \in FreeIds,
             resv' = [resv EXCEPT ![r] = NewRow(p)],
             order' = [order EXCEPT ![p] = [@ EXCEPT !.pc = "commit", !.id = r]],
             UNCHANGED ahead
      PROVE  LockInv'
  <2> DEFINE call == [order[p] EXCEPT !.pc = "commit", !.id = r]
  <2>1. /\ call.pc = "commit" /\ call.req = order[p].req /\ call.now = order[p].now
        /\ call.locked = order[p].locked /\ call.err = order[p].err
    BY OrdererFacts DEF OrderCall, ApiInv
  <2>2. order' = [order EXCEPT ![p] = call]
    BY <1>4
  <2>. HIDE DEF call
  <2>3. order'[p] = call /\ \A q \in Orderers \ {p} : order'[q] = order[q]
    BY <2>2, OrdererFacts DEF ApiInv
  <2>4. ahead[p] = {}
    BY <1>0 DEF ApiInv, LockInv, QueueInv, Holding
  <2>5. QueueInv'
    BY <1>0, <1>4, <2>1, <2>2, <2>4, QueueKept, OrdererFacts
       DEF ApiInv, LockInv, Queued, Holding
  <2>6. /\ r \in ResIds /\ NewRow(p).status = "pending"
        /\ NewRow(p).car = order[p].req.car /\ NewRow(p).kind = order[p].req.kind
        /\ NewRow(p).start = order[p].req.start /\ NewRow(p).end = order[p].req.end
    BY DEF FreeIds, NewRow
  <2>7. resv'[r] = NewRow(p) /\ \A s \in ResIds \ {r} : resv'[s] = resv[s]
    BY <1>4, <2>6 DEF ApiInv, JInv, IInv, TypeOK
  <2>8. ClearedInv'
    <3>1. Cleared(call)
      <4>1. Cleared(order[p])
        BY DEF ApiInv, LockInv, ClearedInv
      <4>. QED BY <1>0, <2>1, <4>1 DEF Cleared, Holding
    <3>2. \A q \in Orderers : Cleared(order'[q])
      BY <2>3, <3>1 DEF ApiInv, LockInv, ClearedInv
    <3>3. \A s \in ResIds : Confirmed(s)' => Confirmed(s) /\ resv'[s] = resv[s]
      BY <2>6, <2>7 DEF Confirmed
    <3>. QED BY <3>2, <3>3 DEF ClearedInv, Cleared, Lapsed, Overlaps
  <2>9. ScheduleInv'
    <3>1. ASSUME NEW x \in RecIds, order[p].req.kind # "owner",
                 recs[x].state = "active", recs[x].car = order[p].req.car
          PROVE  ~RecurrenceOverlaps(recs[x], NewRow(p))
      <4>1. ~RecurrenceOverlaps(recs[x], order[p].req)
        BY <1>4, <3>1 DEF Insertable
      <4>. QED BY <2>6, <4>1 DEF RecurrenceOverlaps, Overlaps
    <3>2. \A s \in ResIds \ {r} : Live(s)' => Live(s)
      BY <2>7 DEF Live
    <3> SUFFICES ASSUME NEW s \in ResIds, NEW x \in RecIds,
                        Live(s)', resv'[s].kind # "owner",
                        recs[x].state = "active", recs[x].car = resv'[s].car,
                        RecurrenceOverlaps(recs[x], resv'[s])
                 PROVE  resv'[s].created <= recs[x].committed
      BY <1>0 DEF ScheduleInv, RecurrenceOverlaps, Overlaps
    <3>3. s # r
      BY <2>6, <2>7, <3>1
    <3>. QED BY <2>7, <3>2, <3>3 DEF ApiInv, LockInv, ScheduleInv
  <2>10. ConstraintIdle'
    BY <2>1, <2>3 DEF ApiInv, LockInv, ConstraintIdle
  <2>. QED BY <2>5, <2>8, <2>9, <2>10 DEF LockInv
<1>5. CASE \/ Advance(p, "classify") /\ UNCHANGED <<resv, ahead>>
           \/ Violation(p, "23505") /\ UNCHANGED resv
  BY <1>2, <1>3, <1>5
<1>6. CASE /\ Insertable(order[p].req) /\ UNCHANGED ahead
           /\ \E r \in FreeIds :
                /\ resv' = [resv EXCEPT ![r] = NewRow(p)]
                /\ order' = [order EXCEPT ![p] = [@ EXCEPT !.pc = "commit", !.id = r]]
  BY <1>4, <1>6
<1>. QED BY <1>1, <1>5, <1>6 DEF OrderInsert

\* A step that gives no car a new committed or live row, and keeps what the rows
\* that stay say of their window.
LEMMA RowsLock ==
  ASSUME ApiInv, UNCHANGED <<recs, order, ahead>>,
         \A s \in ResIds : Live(s)' =>
           /\ Live(s) /\ resv'[s].status = resv[s].status /\ resv'[s].car = resv[s].car
           /\ resv'[s].start = resv[s].start /\ resv'[s].end = resv[s].end
           /\ resv'[s].created = resv[s].created
           /\ resv'[s].kind = "owner" <=> resv[s].kind = "owner"
           /\ resv'[s].kind = "rental_hold" =>
                resv[s].kind = "rental_hold" /\ resv'[s].exp = resv[s].exp
  PROVE  LockInv'
<1>1. QueueInv' /\ ConstraintIdle'
  BY DEF ApiInv, LockInv, QueueInv, ConstraintIdle
<1>2. ClearedInv'
  BY DEF ApiInv, LockInv, ClearedInv, Cleared, Confirmed, Live, Lapsed, Overlaps
<1>3. ScheduleInv'
  BY DEF ApiInv, LockInv, ScheduleInv, Live, RecurrenceOverlaps, Overlaps
<1>. QED BY <1>1, <1>2, <1>3 DEF LockInv

LEMMA CommitLock == ASSUME ApiInv, NEW p \in Orderers, OrderCommit(p) PROVE LockInv'
<1> DEFINE row == order[p].id
<1>1. /\ JInv /\ order[p].pc = "commit" /\ row \in ResIds /\ resv[row].status = "pending"
      /\ UNCHANGED recs /\ order'[p].pc = "done"
      /\ \A q \in Orderers \ {p} : order'[q] = order[q]
  BY CommitCalls DEF ApiInv
<1>2. \A r \in ResIds : Live(r)' =>
        /\ Live(r) /\ resv'[r].car = resv[r].car
        /\ resv'[r].start = resv[r].start /\ resv'[r].end = resv[r].end
        /\ resv'[r].kind = resv[r].kind /\ resv'[r].exp = resv[r].exp
        /\ resv'[r].created = resv[r].created
        /\ r # row => resv'[r].status = resv[r].status
  <2> SUFFICES ASSUME NEW r \in ResIds, Live(r)'
               PROVE  /\ Live(r) /\ resv'[r].car = resv[r].car
                      /\ resv'[r].start = resv[r].start /\ resv'[r].end = resv[r].end
                      /\ resv'[r].kind = resv[r].kind /\ resv'[r].exp = resv[r].exp
                      /\ resv'[r].created = resv[r].created
                      /\ r # row => resv'[r].status = resv[r].status
    OBVIOUS
  <2>1. r \notin order[p].locked
    BY <1>1, CommitRow DEF Live
  <2>2. Live(r) /\ (r # row => resv'[r].status = resv[r].status)
    BY <1>1, <2>1, CommitRow DEF Live
  <2>. QED BY <1>1, <2>2, CommitRow DEF Live
<1>3. PICK id, res : EndTxn(p, "done", id, "none", res)
  BY DEF OrderCommit
<1>4. resv[row].car = order[p].req.car
  BY <1>1 DEF JInv, LedgerInv, PendingInv
<1>. HIDE DEF row
<1>5. QueueInv'
  BY <1>1, <1>3, QueueLeft DEF ApiInv, LockInv
<1>6. ClearedInv'
  <2> SUFFICES ASSUME NEW q \in Orderers, NEW r \in ResIds, resv'[r].status = "confirmed",
                      resv'[r].car = order'[q].req.car, order'[q].pc \in Holding,
                      \/ resv'[r].kind = "rental_hold" /\ resv'[r].exp <= order'[q].now
                      \/ /\ order'[q].pc \in Holding \ {"check"}
                         /\ resv'[r].start < order'[q].req.end
                         /\ order'[q].req.start < resv'[r].end
               PROVE  r \in order'[q].locked
    BY DEF ClearedInv, Cleared, Confirmed, Lapsed, Overlaps
  <2>1. q # p /\ order'[q] = order[q]
    BY <1>1 DEF Holding
  <2>2. Live(r)' /\ resv[r].car = order[q].req.car
    BY <1>2, <2>1 DEF Live, Confirmed
  <2>3. r # row
    BY <1>1, <1>4, <2>1, <2>2, OneHolder DEF ApiInv, LockInv, Holding
  <2>4. Confirmed(r) /\ Cleared(order[q])
    BY <1>2, <2>2, <2>3 DEF Confirmed, ApiInv, LockInv, ClearedInv
  <2>5. /\ resv'[r].start = resv[r].start /\ resv'[r].end = resv[r].end
        /\ resv'[r].kind = resv[r].kind /\ resv'[r].exp = resv[r].exp
    BY <1>2, <2>2
  <2>. QED BY <2>1, <2>2, <2>4, <2>5 DEF Cleared, Lapsed, Overlaps
<1>7. ScheduleInv'
  BY <1>1, <1>2 DEF ApiInv, LockInv, ScheduleInv, RecurrenceOverlaps, Overlaps
<1>8. ConstraintIdle'
  <2>1. order'[p].err = "none"
    BY <1>1, <1>3, OrdererFacts DEF EndTxn, OrderCall
  <2>. QED BY <1>1, <2>1 DEF ApiInv, LockInv, ConstraintIdle
<1>. QED BY <1>5, <1>6, <1>7, <1>8 DEF LockInv

LEMMA AbortLock == ASSUME ApiInv, NEW p \in Orderers, OrderAbort(p) PROVE LockInv'
<1>1. EndTxn(p, "done", NoRes, "none", "error") /\ UNCHANGED recs
  BY DEF OrderAbort, Refuse
<1>2. CASE UNCHANGED resv
  BY <1>1, <1>2, EndLock
<1>3. CASE order[p].pc = "commit" /\ resv' = [resv EXCEPT ![order[p].id] = NoRow]
  <2>1. \A s \in ResIds : Live(s)' => Live(s) /\ resv'[s] = resv[s]
    <3>1. order[p].id \in ResIds
      BY <1>3, OrdererFacts DEF ApiInv
    <3>. QED BY <1>3, <3>1 DEF Live, NoRow, ApiInv, JInv, IInv, TypeOK
  <2> DEFINE call == [order[p] EXCEPT !.pc = "done", !.now = 0, !.locked = {}, !.id = NoRes,
                                      !.err = "none", !.res = "error"]
  <2>2. call.pc = "done" /\ call.err = "none"
    BY OrdererFacts DEF OrderCall, ApiInv
  <2>3. order' = [order EXCEPT ![p] = call]
    BY <1>1 DEF EndTxn
  <2>. HIDE DEF call
  <2>4. order'[p] = call /\ \A q \in Orderers \ {p} : order'[q] = order[q]
    BY <2>3, OrdererFacts DEF ApiInv
  <2>5. QueueInv'
    BY <1>1, QueueLeft DEF ApiInv, LockInv
  <2>6. ClearedInv'
    <3>1. \A q \in Orderers : Cleared(order'[q])
      BY <2>2, <2>4, NotHolding DEF Holding, ApiInv, LockInv, ClearedInv
    <3>2. \A s \in ResIds : Confirmed(s)' => Confirmed(s) /\ resv'[s] = resv[s]
      BY <2>1 DEF Live, Confirmed
    <3>. QED BY <3>1, <3>2 DEF ClearedInv, Cleared, Lapsed, Overlaps
  <2>7. ScheduleInv'
    BY <1>1, <2>1 DEF ApiInv, LockInv, ScheduleInv, RecurrenceOverlaps, Overlaps
  <2>8. ConstraintIdle'
    BY <2>2, <2>4 DEF ApiInv, LockInv, ConstraintIdle
  <2>. QED BY <2>5, <2>6, <2>7, <2>8 DEF LockInv
<1>. QED BY <1>2, <1>3 DEF OrderAbort

LEMMA ConfirmLock == ASSUME ApiInv, NEW u \in Updaters, Confirm(u) PROVE LockInv'
<1>1. UNCHANGED <<recs, order, ahead>>
  BY DEF Confirm
<1>2. CASE UNCHANGED resv
  BY <1>1, <1>2, RowsLock DEF Live
<1>3. CASE /\ Confirmable(u)
           /\ resv' = [resv EXCEPT ![upd[u].id] = [@ EXCEPT !.kind = "rental", !.exp = 0]]
  <2> DEFINE r == upd[u].id
             row == [resv[r] EXCEPT !.kind = "rental", !.exp = 0]
  <2>1. /\ r \in ResIds /\ Confirmed(r) /\ resv[r].kind = "rental_hold"
        /\ resv[r].status # "absent"
    BY <1>3, UpdaterFacts DEF ApiInv, Confirm, Confirmable, Confirmed
  <2>2. /\ row.status = resv[r].status /\ row.car = resv[r].car /\ row.kind = "rental"
        /\ row.start = resv[r].start /\ row.end = resv[r].end
        /\ row.created = resv[r].created
    BY <2>1, RowFacts DEF ResRow, ApiInv
  <2>3. resv' = [resv EXCEPT ![r] = row]
    BY <1>3
  <2>. HIDE DEF r, row
  <2>4. resv'[r] = row /\ \A s \in ResIds \ {r} : resv'[s] = resv[s]
    BY <2>1, <2>3 DEF ApiInv, JInv, IInv, TypeOK
  <2>. QED BY <1>1, <2>1, <2>2, <2>4, RowsLock DEF Live
<1>. QED BY <1>2, <1>3 DEF Confirm

LEMMA CancelCommitLock ==
  ASSUME ApiInv, NEW u \in Updaters, CancelCommit(u) PROVE LockInv'
<1> DEFINE r == upd[u].id
           row == [resv[r] EXCEPT !.status = "cancelled"]
<1>1. r \in ResIds /\ resv[r].status # "absent" /\ UNCHANGED <<recs, order, ahead>>
  BY UpdaterFacts DEF ApiInv, CancelCommit
<1>2. row.status = "cancelled"
  BY <1>1, RowFacts DEF ResRow, ApiInv
<1>3. resv' = [resv EXCEPT ![r] = row]
  BY DEF CancelCommit
<1>. HIDE DEF r, row
<1>4. resv'[r] = row /\ \A s \in ResIds \ {r} : resv'[s] = resv[s]
  BY <1>1, <1>3 DEF ApiInv, JInv, IInv, TypeOK
<1>. QED BY <1>1, <1>2, <1>4, RowsLock DEF Live

LEMMA SameLock ==
  ASSUME ApiInv, UNCHANGED <<recs, resv, order, ahead>> PROVE LockInv'
BY RowsLock DEF Live

\* A step that makes no schedule active, and changes none that is.
LEMMA NoneActivated ==
  ASSUME ApiInv, UNCHANGED <<resv, order, ahead>>,
         \A x \in RecIds : recs'[x].state = "active" => recs'[x] = recs[x]
  PROVE  LockInv'
<1>1. QueueInv' /\ ClearedInv' /\ ConstraintIdle'
  BY DEF ApiInv, LockInv, QueueInv, ClearedInv, Cleared, Confirmed, Lapsed, Overlaps,
         ConstraintIdle
<1>2. ScheduleInv'
  BY DEF ApiInv, LockInv, ScheduleInv, Live, RecurrenceOverlaps, Overlaps
<1>. QED BY <1>1, <1>2 DEF LockInv

LEMMA CreateScheduleLock ==
  ASSUME ApiInv, NEW x \in RecIds, CreateSchedule(x) PROVE LockInv'
<1>1. recs'[x].state = "pending" /\ \A y \in RecIds \ {x} : recs'[y] = recs[y]
  BY DEF CreateSchedule, ApiInv, JInv, IInv, TypeOK
<1>. QED BY <1>1, NoneActivated DEF CreateSchedule

\* A schedule commits later than every row began: no row is from the future.
LEMMA CommitScheduleLock ==
  ASSUME ApiInv, NEW x \in RecIds, CommitSchedule(x) PROVE LockInv'
<1>1. recs[x] \in RecRow
  BY DEF CommitSchedule, ApiInv, JInv, IInv, TypeOK, NoRec
<1>2. recs'[x].committed = clock /\ \A y \in RecIds \ {x} : recs'[y] = recs[y]
  BY <1>1 DEF CommitSchedule, RecRow, ApiInv, JInv, IInv, TypeOK
<1>3. UNCHANGED <<resv, order, ahead>>
  BY DEF CommitSchedule
<1>4. QueueInv' /\ ClearedInv' /\ ConstraintIdle'
  BY <1>3 DEF ApiInv, LockInv, QueueInv, ClearedInv, Cleared, Confirmed, Lapsed, Overlaps,
              ConstraintIdle
<1>5. ScheduleInv'
  <2>1. \A r \in ResIds : Live(r) => resv[r].created <= clock
    BY DEF Live, ApiInv, JInv, LedgerInv, AgeInv
  <2>. QED BY <1>2, <1>3, <2>1
           DEF ApiInv, LockInv, ScheduleInv, Live, RecurrenceOverlaps, Overlaps
<1>. QED BY <1>4, <1>5 DEF LockInv

LEMMA AbortScheduleLock ==
  ASSUME ApiInv, NEW x \in RecIds, AbortSchedule(x) PROVE LockInv'
<1>1. recs'[x].state = "absent" /\ \A y \in RecIds \ {x} : recs'[y] = recs[y]
  BY DEF AbortSchedule, NoRec, ApiInv, JInv, IInv, TypeOK
<1>. QED BY <1>1, NoneActivated DEF AbortSchedule

LEMMA DeactivateScheduleLock ==
  ASSUME ApiInv, NEW x \in RecIds, DeactivateSchedule(x) PROVE LockInv'
<1>1. recs[x] \in RecRow
  BY DEF DeactivateSchedule, ApiInv, JInv, IInv, TypeOK, NoRec
<1>2. recs'[x].state = "inactive" /\ \A y \in RecIds \ {x} : recs'[y] = recs[y]
  BY <1>1 DEF DeactivateSchedule, RecRow, ApiInv, JInv, IInv, TypeOK
<1>. QED BY <1>2, NoneActivated DEF DeactivateSchedule

-----------------------------------------------------------------------------
(* The theorems *)

LEMMA InitLock == Init => LockInv
<1> SUFFICES ASSUME Init PROVE LockInv
  OBVIOUS
<1>1. QueueInv /\ ConstraintIdle
  BY DEF Init, QueueInv, ConstraintIdle, Holding, Queued
<1>2. ClearedInv /\ ScheduleInv
  BY DEF Init, ClearedInv, Cleared, ScheduleInv, Confirmed, Live, NoRow
<1>. QED BY <1>1, <1>2 DEF LockInv

LEMMA StepLock == ApiInv /\ [Next]_vars => LockInv'
<1> SUFFICES ASSUME ApiInv, [Next]_vars PROVE LockInv'
  OBVIOUS
<1>1. ASSUME NEW p \in Orderers, OrderBegin(p) \/ OrderStep(p) \/ OrderAbort(p)
      PROVE  LockInv'
  BY <1>1, BeginLock, EnqueueLock, ReapLock, CheckLock, InsertLock, ClassifyLock,
     CommitLock, ReplayLock, AbortLock DEF OrderStep
<1>2. ASSUME NEW u \in Updaters,
             \/ \E pc \in {"confirm", "cancel"} : UpdBegin(u, pc)
             \/ UpdStep(u) \/ UpdAbort(u)
      PROVE  LockInv'
  <2>1. CASE Confirm(u) \/ CancelCommit(u)
    BY <2>1, ConfirmLock, CancelCommitLock
  <2>2. CASE \/ \E pc \in {"confirm", "cancel"} : UpdBegin(u, pc)
             \/ Cancel(u) \/ CancelClassify(u) \/ UpdAbort(u)
    BY <2>2, SameLock DEF UpdBegin, Cancel, CancelClassify, UpdAbort
  <2>. QED BY <1>2, <2>1, <2>2 DEF UpdStep
<1>3. ASSUME NEW x \in RecIds,
             \/ CreateSchedule(x) \/ CommitSchedule(x) \/ AbortSchedule(x)
             \/ DeactivateSchedule(x)
      PROVE  LockInv'
  BY <1>3, CreateScheduleLock, CommitScheduleLock, AbortScheduleLock, DeactivateScheduleLock
<1>4. CASE (\E c \in Cars : CreateCar(c) \/ UpdateCar(c)) \/ Tick \/ UNCHANGED vars
  BY <1>4, SameLock DEF CreateCar, UpdateCar, Tick, vars
<1>. QED BY <1>1, <1>2, <1>3, <1>4 DEF Next

LEMMA LockInvariant == Spec => []ApiInv
<1>1. Init => ApiInv
  BY InitIInv, InitLedger, InitLock DEF ApiInv, JInv
<1>2. [Next]_vars => [OpsNext]_vars
  BY DEF OpsNext
<1>3. ApiInv /\ [Next]_vars => ApiInv'
  BY <1>2, StepIInv, StepLedger, StepLock DEF ApiInv, JInv
<1>. QED BY <1>1, <1>3, PTL DEF Spec

\* While only the API writes, no insert is ever refused by the exclusion
\* constraint, for any number of concurrent calls.
THEOREM ConstraintIdleAlways == Spec => []ConstraintIdle
<1>1. ApiInv => ConstraintIdle
  BY DEF ApiInv, LockInv
<1>. QED BY <1>1, LockInvariant, PTL

\* While only the API writes, a renter's booking that an active schedule
\* overlaps was begun no later than the schedule committed (store.go:761): nothing
\* follows for the schedule's created_at, the time its statement began.
THEOREM SchedulesYieldAlways == Spec => []SchedulesYieldOnlyToOlder
<1>1. ApiInv => SchedulesYieldOnlyToOlder
  BY DEF ApiInv, LockInv, ScheduleInv, SchedulesYieldOnlyToOlder, Live, Confirmed
<1>. QED BY <1>1, LockInvariant, PTL
=============================================================================
