---------------------------- MODULE BookingProofs ----------------------------
(***************************************************************************)
(* No instant of a car is ever sold twice: for every set of cars, users,   *)
(* requests and connections, any number of reservations, and with tools    *)
(* writing to the tables beside the API (OpsSpec).                         *)
(***************************************************************************)
EXTENDS Booking, TLAPS

-----------------------------------------------------------------------------
(* The inductive invariant *)

\* The open transactions and the heap agree: a transaction at its COMMIT has
\* one pending row, no two have the same one, every pending row has such a
\* transaction, and the rows calls have locked or named are committed rows.
HeapInv ==
    /\ \A p \in Orderers : order[p].pc = "commit" =>
         /\ order[p].id \in ResIds
         /\ resv[order[p].id].status = "pending"
    /\ \A p, q \in Orderers :
         /\ order[p].pc = "commit" /\ order[q].pc = "commit"
         /\ order[p].id = order[q].id
         => p = q
    /\ \A r \in ResIds : resv[r].status = "pending" =>
         \E p \in Orderers : order[p].pc = "commit" /\ order[p].id = r
    /\ \A p \in Orderers : \A r \in order[p].locked :
         resv[r].status \notin {"absent", "pending"}
    /\ \A u \in Updaters : upd[u].pc # "done" =>
         /\ upd[u].id \in ResIds
         /\ resv[upd[u].id].status \notin {"absent", "pending"}

Live(r) == resv[r].status \in {"pending", "confirmed"}

\* The transaction about to commit row r deletes row s in the same commit.
Replaces(r, s) ==
    \E p \in Orderers : /\ order[p].pc = "commit" /\ order[p].id = r
                        /\ s \in order[p].locked

\* Two live rows of a car overlap only while one is pending in a transaction
\* that has deleted the other: NoDoubleBooking with the rows in flight.
DisjointInv ==
    \A r, s \in ResIds :
        /\ r # s /\ Live(r) /\ Live(s) /\ resv[r].car = resv[s].car
        /\ Overlaps(resv[r], resv[s])
        => Replaces(r, s) \/ Replaces(s, r)

IInv == TypeOK /\ HeapInv /\ DisjointInv

LEMMA ChosenOrder == (CHOOSE o \in Orders : TRUE) \in Orders
  BY OrdersAssumption

LEMMA ChosenUser == (CHOOSE x \in Users : TRUE) \in Users
<1>1. PICK o \in Orders : TRUE
  BY OrdersAssumption
<1>2. o.booker \in Users
  BY <1>1, OrdersAssumption DEF OrderParams
<1>. QED BY <1>2

LEMMA ProductNat == ASSUME NEW a \in Nat, NEW b \in Nat PROVE a * b \in Nat
  OBVIOUS

\* A row is the one of NoRow's shape exactly when its status says so.
LEMMA RowShape ==
    ASSUME TypeOK, NEW r \in ResIds
    PROVE  /\ resv[r].status # "absent" => resv[r] \in ResRow
           /\ resv[r].status = "absent" => resv[r] = NoRow
BY DEF TypeOK, ResRow, NoRow

LEMMA InitIInv == Init => IInv
<1> SUFFICES ASSUME Init PROVE IInv
  OBVIOUS
<1>1. TypeOK
  BY ChosenOrder, ChosenUser, CarsAssumption
     DEF Init, TypeOK, CarRow, RecRow, NoRec, ResRow, NoRow, OrderCall, UpdCall,
         NoCall, Results
<1>2. HeapInv
  BY DEF Init, HeapInv, NoRow, NoCall
<1>3. DisjointInv
  BY DEF Init, DisjointInv, Live, NoRow
<1>. QED BY <1>1, <1>2, <1>3 DEF IInv

-----------------------------------------------------------------------------
(* Steps that leave the heap alone *)

\* A step that keeps the rows and every transaction at its COMMIT keeps DisjointInv.
LEMMA SameRows ==
    ASSUME DisjointInv, resv' = resv,
           \A p \in Orderers : order[p].pc = "commit" =>
              /\ order'[p].pc = "commit" /\ order'[p].id = order[p].id
              /\ order'[p].locked = order[p].locked
    PROVE  DisjointInv'
BY DEF DisjointInv, Live, Replaces, Overlaps

\* A step of one call that is not, and does not come, at its COMMIT, and leaves
\* the tables alone.
LEMMA CallIInv ==
    ASSUME IInv, NEW p \in Orderers, NEW call \in OrderCall,
           order[p].pc # "commit", call.pc # "commit",
           \A r \in call.locked : resv[r].status \notin {"absent", "pending"},
           order' = [order EXCEPT ![p] = call],
           ahead' \in [Orderers -> SUBSET Orderers],
           UNCHANGED <<clock, cars, recs, resv, upd>>
    PROVE  IInv'
<1>1. order \in [Orderers -> OrderCall]
  BY DEF IInv, TypeOK
<1>2. order'[p] = call /\ \A q \in Orderers \ {p} : order'[q] = order[q]
  BY <1>1
<1>3. TypeOK'
  <2>1. order' \in [Orderers -> OrderCall]
    BY <1>1
  <2>. QED BY <2>1 DEF IInv, TypeOK
<1>4. HeapInv'
  <2>1. \A q \in Orderers : order'[q].pc = "commit" => order'[q] = order[q]
    BY <1>2
  <2>2. \A q \in Orderers : order[q].pc = "commit" => order'[q] = order[q]
    BY <1>2
  <2>3. \A q \in Orderers : \A r \in order'[q].locked :
           resv[r].status \notin {"absent", "pending"}
    BY <1>2 DEF IInv, HeapInv
  <2>. QED BY <2>1, <2>2, <2>3 DEF IInv, HeapInv
<1>5. DisjointInv'
  BY <1>2, SameRows DEF IInv
<1>. QED BY <1>3, <1>4, <1>5 DEF IInv

\* The types of one call, for the steps below.
LEMMA CallType ==
    ASSUME IInv, NEW p \in Orderers
    PROVE  /\ order[p] \in OrderCall
           /\ \A r \in order[p].locked : resv[r].status \notin {"absent", "pending"}
           /\ ahead \in [Orderers -> SUBSET Orderers]
BY DEF IInv, TypeOK, HeapInv

\* The call goes on to another statement that is not its COMMIT.
LEMMA AdvanceIInv ==
    ASSUME IInv, NEW p \in Orderers, order[p].pc # "commit",
           NEW pc \in {"reap", "insert", "classify"}, Advance(p, pc),
           ahead' \in [Orderers -> SUBSET Orderers],
           UNCHANGED <<clock, cars, recs, resv, upd>>
    PROVE  IInv'
<1> DEFINE call == [order[p] EXCEPT !.pc = pc]
<1>1. call \in OrderCall /\ call.pc # "commit" /\ call.locked = order[p].locked
  BY CallType DEF OrderCall
<1>2. order' = [order EXCEPT ![p] = call]
  BY DEF Advance
<1>. HIDE DEF call
<1>. QED BY <1>1, <1>2, CallType, CallIInv

LEMMA BeginIInv == ASSUME IInv, NEW p \in Orderers, OrderBegin(p) PROVE IInv'
<1>1. PICK req \in Orders, pc \in {"done", "enqueue"}, id \in ResIds \cup {NoRes},
           res \in Results, now \in {0, clock} :
         /\ order' = [order EXCEPT ![p] =
                         [pc |-> pc, req |-> req, now |-> now, locked |-> {},
                          id |-> id, err |-> "none", res |-> res]]
         /\ order[p].pc = "done"
         /\ UNCHANGED <<clock, cars, recs, resv, ahead, upd>>
  BY DEF OrderBegin, Running, Results, ByKey
<1> DEFINE call == [pc |-> pc, req |-> req, now |-> now, locked |-> {},
                    id |-> id, err |-> "none", res |-> res]
<1>2. clock \in Nat
  BY DEF IInv, TypeOK
<1>3. call \in OrderCall /\ call.pc # "commit" /\ call.locked = {}
  BY <1>2 DEF OrderCall
<1>4. order' = [order EXCEPT ![p] = call]
  BY <1>1
<1>. HIDE DEF call
<1>. QED BY <1>1, <1>3, <1>4, CallType, CallIInv

LEMMA EnqueueIInv == ASSUME IInv, NEW p \in Orderers, OrderEnqueue(p) PROVE IInv'
<1>1. /\ order[p].pc = "enqueue" /\ Advance(p, "reap")
      /\ ahead' = [ahead EXCEPT ![p] = Queue(order[p].req.car)]
      /\ UNCHANGED <<clock, cars, recs, resv, upd>>
  BY DEF OrderEnqueue
<1>2. ahead' \in [Orderers -> SUBSET Orderers]
  BY <1>1, CallType DEF Queue
<1>. QED BY <1>1, <1>2, AdvanceIInv

LEMMA ReapIInv == ASSUME IInv, NEW p \in Orderers, OrderReap(p) PROVE IInv'
<1>1. PICK lapsed \in SUBSET ResIds :
         /\ order[p].pc = "reap"
         /\ \A r \in lapsed : Confirmed(r)
         /\ order' = [order EXCEPT ![p] =
                         [order[p] EXCEPT !.locked = lapsed, !.pc = "check"]]
         /\ UNCHANGED <<clock, cars, recs, resv, ahead, upd>>
  BY DEF OrderReap
<1> DEFINE call == [order[p] EXCEPT !.locked = lapsed, !.pc = "check"]
<1>2. call \in OrderCall /\ call.pc = "check" /\ call.locked = lapsed
  BY CallType DEF OrderCall
<1>3. \A r \in lapsed : resv[r].status \notin {"absent", "pending"}
  BY <1>1 DEF Confirmed
<1>4. order' = [order EXCEPT ![p] = call]
  BY <1>1
<1>. HIDE DEF call
<1>. QED BY <1>1, <1>2, <1>3, <1>4, CallType, CallIInv

\* What the end of a transaction that was not at its COMMIT does.
LEMMA EndIInv ==
    ASSUME IInv, NEW p \in Orderers, NEW pc \in {"done", "replay"},
           NEW err \in {"none", "23P01", "23505"}, NEW res \in Results,
           order[p].pc # "commit", EndTxn(p, pc, NoRes, err, res),
           UNCHANGED <<clock, cars, recs, resv, upd>>
    PROVE  IInv'
<1> DEFINE call == [order[p] EXCEPT !.pc = pc, !.now = 0, !.locked = {}, !.id = NoRes,
                                    !.err = err, !.res = res]
<1>1. call \in OrderCall /\ call.pc # "commit" /\ call.locked = {}
  BY CallType DEF OrderCall
<1>2. order' = [order EXCEPT ![p] = call]
  BY DEF EndTxn
<1>3. ahead' \in [Orderers -> SUBSET Orderers]
  BY CallType DEF EndTxn
<1>. HIDE DEF call
<1>. QED BY <1>1, <1>2, <1>3, CallIInv

LEMMA CheckIInv == ASSUME IInv, NEW p \in Orderers, OrderCheck(p) PROVE IInv'
<1>1. order[p].pc = "check" /\ UNCHANGED <<clock, cars, recs, resv, upd>>
  BY DEF OrderCheck
<1>2. CASE Refuse(p, "conflict")
  BY <1>1, <1>2, EndIInv DEF Refuse, Results
<1>3. CASE Advance(p, "insert") /\ UNCHANGED ahead
  BY <1>1, <1>3, CallType, AdvanceIInv
<1>. QED BY <1>2, <1>3 DEF OrderCheck

LEMMA ClassifyIInv == ASSUME IInv, NEW p \in Orderers, OrderClassify(p) PROVE IInv'
<1>1. order[p].req.car \in Cars /\ order[p].req.kind \in Kinds
  BY OrdersAssumption DEF IInv, TypeOK, OrderCall, OrderParams
<1>2. Rejection(order[p].req) \in Results
  BY <1>1 DEF IInv, TypeOK, CarRow, Kinds, Rejection, Results
<1>. QED BY <1>2, EndIInv DEF OrderClassify, Refuse

LEMMA ReplayIInv == ASSUME IInv, NEW p \in Orderers, OrderReplay(p) PROVE IInv'
<1>1. PICK id \in ResIds \cup {NoRes}, res \in Results :
         /\ order' = [order EXCEPT ![p] =
                         [order[p] EXCEPT !.pc = "done", !.id = id, !.res = res]]
         /\ order[p].pc = "replay"
         /\ UNCHANGED <<clock, cars, recs, resv, ahead, upd>>
  BY DEF OrderReplay, ByKey, Results
<1> DEFINE call == [order[p] EXCEPT !.pc = "done", !.id = id, !.res = res]
<1>2. call \in OrderCall /\ call.pc = "done" /\ call.locked = order[p].locked
  BY CallType DEF OrderCall
<1>3. order' = [order EXCEPT ![p] = call]
  BY <1>1
<1>. HIDE DEF call
<1>. QED BY <1>1, <1>2, <1>3, CallType, CallIInv

-----------------------------------------------------------------------------
(* Steps that change the heap *)

LEMMA NewRowType ==
    ASSUME TypeOK, NEW p \in Orderers
    PROVE  NewRow(p) \in ResRow
<1> DEFINE req == order[p].req
<1>1. order[p].now \in Nat /\ req \in OrderParams /\ req.start < req.end
  BY OrdersAssumption DEF TypeOK, OrderCall
<1>2. req.end - req.start \in Nat /\ cars[req.car].rate \in Nat
  BY <1>1 DEF TypeOK, CarRow, OrderParams
<1>3. TripPrice(req) \in Nat
  BY <1>2, ProductNat DEF TripPrice
<1>. QED BY <1>1, <1>3, NatAssumption DEF NewRow, ResRow, OrderParams

LEMMA InsertIInv == ASSUME IInv, NEW p \in Orderers, OrderInsert(p) PROVE IInv'
<1>0. order[p].pc = "insert" /\ UNCHANGED <<clock, cars, recs, upd>>
  BY DEF OrderInsert
<1>1. CASE /\ Advance(p, "classify") /\ UNCHANGED <<resv, ahead>>
  BY <1>0, <1>1, CallType, AdvanceIInv
<1>2. ASSUME NEW err \in {"23P01", "23505"}, Violation(p, err), UNCHANGED resv
      PROVE  IInv'
  BY <1>0, <1>2, EndIInv DEF Violation, Results
<1>3. ASSUME OverlapClashes(order[p].locked, NewRow(p)) = {}, NEW r \in FreeIds,
             resv' = [resv EXCEPT ![r] = NewRow(p)],
             order' = [order EXCEPT ![p] = [@ EXCEPT !.pc = "commit", !.id = r]],
             UNCHANGED ahead
      PROVE  IInv'
  <2> USE <1>0, <1>3
  <2>1. /\ r \in ResIds /\ resv[r].status = "absent"
        /\ NewRow(p) \in ResRow /\ NewRow(p).status = "pending"
    BY NewRowType DEF IInv, FreeIds, NewRow
  <2>2. TypeOK'
    <3>1. [order[p] EXCEPT !.pc = "commit", !.id = r] \in OrderCall
      BY <2>1, CallType DEF OrderCall
    <3>2. order' \in [Orderers -> OrderCall]
      BY <3>1 DEF IInv, TypeOK
    <3>3. resv' \in [ResIds -> ResRow \cup {NoRow}]
      BY <2>1 DEF IInv, TypeOK
    <3>. QED BY <3>2, <3>3 DEF IInv, TypeOK
  <2>4. /\ resv'[r] = NewRow(p) /\ \A s \in ResIds \ {r} : resv'[s] = resv[s]
        /\ order'[p].pc = "commit" /\ order'[p].id = r
        /\ order'[p].locked = order[p].locked
        /\ \A q \in Orderers \ {p} : order'[q] = order[q]
    <3>1. resv \in [ResIds -> ResRow \cup {NoRow}] /\ order \in [Orderers -> OrderCall]
      BY DEF IInv, TypeOK
    <3>2. order[p] \in OrderCall
      BY CallType
    <3>. QED BY <2>1, <3>1, <3>2 DEF OrderCall
  <2>3. HeapInv'
    <3>1. \A q \in Orderers : order[q].locked \subseteq ResIds
      BY CallType DEF OrderCall
    <3>. QED BY <2>1, <2>4, <3>1 DEF IInv, HeapInv
  <2>5. ASSUME NEW s \in ResIds \ {r}, Live(s), resv[s].car = NewRow(p).car,
               Overlaps(resv[s], NewRow(p)) \/ Overlaps(NewRow(p), resv[s])
        PROVE  s \in order[p].locked
    BY <2>5 DEF OverlapClashes, Overlaps, Live
  <2>6. DisjointInv'
    <3> SUFFICES ASSUME NEW a \in ResIds, NEW b \in ResIds, a # b,
                        Live(a)', Live(b)', resv'[a].car = resv'[b].car,
                        Overlaps(resv'[a], resv'[b])
                 PROVE  Replaces(a, b)' \/ Replaces(b, a)'
      BY DEF DisjointInv
    <3>1. CASE a = r
      BY <3>1, <2>4, <2>5 DEF Replaces, Live
    <3>2. CASE b = r
      BY <3>2, <2>4, <2>5 DEF Replaces, Live
    <3>3. CASE a # r /\ b # r
      <4>1. Replaces(a, b) \/ Replaces(b, a)
        BY <3>3, <2>4 DEF IInv, DisjointInv, Live
      <4>. QED BY <4>1, <2>4, <1>0 DEF Replaces
    <3>. QED BY <3>1, <3>2, <3>3
  <2>. QED BY <2>2, <2>3, <2>6 DEF IInv
<1>. QED BY <1>1, <1>2, <1>3 DEF OrderInsert

LEMMA CommitIInv == ASSUME IInv, NEW p \in Orderers, OrderCommit(p) PROVE IInv'
<1> DEFINE row == order[p].id
<1>1. /\ order[p].pc = "commit" /\ row \in ResIds
      /\ resv[row].status = "pending" /\ row \notin order[p].locked
  BY DEF OrderCommit, IInv, HeapInv
<1>2. /\ \A r \in ResIds : resv'[r] =
            IF r = row THEN [resv[r] EXCEPT !.status = "confirmed"]
            ELSE IF r \in order[p].locked THEN [resv[r] EXCEPT !.status = "reaped"]
            ELSE resv[r]
      /\ DOMAIN resv' = ResIds
      /\ UNCHANGED <<clock, cars, recs, upd>>
  BY DEF OrderCommit
<1>3. PICK id \in ResIds \cup {NoRes}, res \in Results :
        EndTxn(p, "done", id, "none", res)
  BY <1>1 DEF OrderCommit, Results
<1>4. /\ order'[p].pc = "done" /\ order'[p].locked = {}
      /\ \A q \in Orderers \ {p} : order'[q] = order[q]
  BY <1>3 DEF EndTxn, IInv, TypeOK, OrderCall
<1>5. \A r \in ResIds : resv[r].status # "absent" => resv[r] \in ResRow
  BY RowShape DEF IInv
<1>6. \A r \in order[p].locked : r \in ResIds /\ resv[r].status \notin {"absent", "pending"}
  BY DEF IInv, HeapInv, TypeOK, OrderCall
<1>7. \A r \in ResIds : /\ r = row => resv'[r].status = "confirmed"
                        /\ r \in order[p].locked => resv'[r].status = "reaped"
                        /\ r # row /\ r \notin order[p].locked => resv'[r] = resv[r]
                        /\ resv[r].status # "absent" => resv'[r] \in ResRow
                        /\ resv'[r].car = resv[r].car
                        /\ resv'[r].start = resv[r].start
                        /\ resv'[r].end = resv[r].end
  <2> SUFFICES ASSUME NEW r \in ResIds
               PROVE  /\ r = row => resv'[r].status = "confirmed"
                      /\ r \in order[p].locked => resv'[r].status = "reaped"
                      /\ r # row /\ r \notin order[p].locked => resv'[r] = resv[r]
                      /\ resv[r].status # "absent" => resv'[r] \in ResRow
                      /\ resv'[r].car = resv[r].car
                      /\ resv'[r].start = resv[r].start
                      /\ resv'[r].end = resv[r].end
    OBVIOUS
  <2>1. CASE r = row \/ r \in order[p].locked
    <3>1. resv[r] \in ResRow
      BY <2>1, <1>1, <1>5, <1>6
    <3>. QED BY <3>1, <2>1, <1>1, <1>2 DEF ResRow
  <2>2. CASE r # row /\ r \notin order[p].locked
    BY <2>2, <1>2, <1>5
  <2>. QED BY <2>1, <2>2
<1>8. TypeOK'
  <2>1. resv' \in [ResIds -> ResRow \cup {NoRow}]
    <3>1. \A r \in ResIds : resv'[r] \in ResRow \cup {NoRow}
      BY <1>1, <1>6, <1>7 DEF IInv, TypeOK
    <3>. QED BY <3>1 DEF OrderCommit
  <2>2. order' \in [Orderers -> OrderCall]
    <3>1. order[p] \in OrderCall
      BY DEF IInv, TypeOK
    <3>2. [order[p] EXCEPT !.pc = "done", !.now = 0, !.locked = {}, !.id = id,
                           !.err = "none", !.res = res] \in OrderCall
      BY <3>1 DEF OrderCall
    <3>. QED BY <3>2, <1>3 DEF EndTxn, IInv, TypeOK
  <2>3. ahead' \in [Orderers -> SUBSET Orderers]
    BY <1>3 DEF EndTxn, IInv, TypeOK
  <2>. QED BY <2>1, <2>2, <2>3, <1>2 DEF IInv, TypeOK
<1>9. HeapInv'
  <2>1. ASSUME NEW q \in Orderers, order'[q].pc = "commit"
        PROVE  /\ q # p /\ order'[q] = order[q]
               /\ order[q].id \in ResIds \ {row} /\ order[q].id \notin order[p].locked
               /\ resv[order[q].id].status = "pending"
    BY <2>1, <1>1, <1>4, <1>6 DEF IInv, HeapInv
  <2>2. \A q \in Orderers : order'[q].pc = "commit" =>
           order'[q].id \in ResIds /\ resv'[order'[q].id].status = "pending"
    BY <2>1, <1>7
  <2>3. \A q1, q2 \in Orderers :
           order'[q1].pc = "commit" /\ order'[q2].pc = "commit"
           /\ order'[q1].id = order'[q2].id => q1 = q2
    BY <2>1 DEF IInv, HeapInv
  <2>4. ASSUME NEW r \in ResIds, resv'[r].status = "pending"
        PROVE  \E q \in Orderers : order'[q].pc = "commit" /\ order'[q].id = r
    <3>1. r # row /\ resv[r].status = "pending"
      BY <2>4, <1>7
    <3>2. PICK q \in Orderers : order[q].pc = "commit" /\ order[q].id = r
      BY <3>1 DEF IInv, HeapInv
    <3>. QED BY <3>1, <3>2, <1>4
  <2>5. \A r \in ResIds : resv[r].status \notin {"absent", "pending"} =>
           resv'[r].status \notin {"absent", "pending"}
    BY <1>1, <1>7
  <2>6. ASSUME NEW q \in Orderers, NEW r \in order'[q].locked
        PROVE  resv'[r].status \notin {"absent", "pending"}
    <3>1. q # p /\ order'[q] = order[q]
      BY <1>4
    <3>2. r \in ResIds /\ resv[r].status \notin {"absent", "pending"}
      BY <3>1 DEF IInv, HeapInv, TypeOK, OrderCall
    <3>. QED BY <3>2, <2>5
  <2>7. \A u \in Updaters : upd'[u].pc # "done" =>
           upd'[u].id \in ResIds /\ resv'[upd'[u].id].status \notin {"absent", "pending"}
    BY <1>2, <2>5 DEF IInv, HeapInv
  <2>. QED BY <2>2, <2>3, <2>4, <2>6, <2>7 DEF HeapInv
<1>10. DisjointInv'
  <2> SUFFICES ASSUME NEW a \in ResIds, NEW b \in ResIds, a # b,
                      Live(a)', Live(b)', resv'[a].car = resv'[b].car,
                      Overlaps(resv'[a], resv'[b])
               PROVE  Replaces(a, b)' \/ Replaces(b, a)'
    BY DEF DisjointInv
  <2>1. a \notin order[p].locked /\ b \notin order[p].locked
    BY <1>7 DEF Live
  <2>2. Live(a) /\ Live(b)
    BY <2>1, <1>1, <1>7 DEF Live
  <2>3. Replaces(a, b) \/ Replaces(b, a)
    BY <2>2, <1>7 DEF IInv, DisjointInv, Overlaps
  <2>4. PICK q \in Orderers : /\ order[q].pc = "commit"
                              /\ \/ order[q].id = a /\ b \in order[q].locked
                                 \/ order[q].id = b /\ a \in order[q].locked
    BY <2>3 DEF Replaces
  <2>5. q # p
    BY <2>1, <2>4
  <2>. QED BY <2>4, <2>5, <1>4 DEF Replaces
<1>. QED BY <1>8, <1>9, <1>10 DEF IInv

LEMMA AbortIInv == ASSUME IInv, NEW p \in Orderers, OrderAbort(p) PROVE IInv'
<1>1. CASE order[p].pc # "commit"
  BY <1>1, EndIInv DEF OrderAbort, Refuse, Results
<1>2. CASE order[p].pc = "commit"
  <2> DEFINE row == order[p].id
  <2>1. row \in ResIds /\ resv[row].status = "pending"
    BY <1>2 DEF IInv, HeapInv
  <2>2. /\ resv' = [resv EXCEPT ![row] = NoRow]
        /\ EndTxn(p, "done", NoRes, "none", "error")
        /\ UNCHANGED <<clock, cars, recs, upd>>
    BY <1>2 DEF OrderAbort, Refuse
  <2>3. /\ order'[p].pc = "done" /\ order'[p].locked = {}
        /\ \A q \in Orderers \ {p} : order'[q] = order[q]
        /\ resv'[row].status = "absent"
        /\ \A r \in ResIds \ {row} : resv'[r] = resv[r]
    BY <2>1, <2>2 DEF EndTxn, IInv, TypeOK, OrderCall, NoRow
  <2>4. TypeOK'
    <3>1. order[p] \in OrderCall
      BY DEF IInv, TypeOK
    <3>2. [order[p] EXCEPT !.pc = "done", !.now = 0, !.locked = {}, !.id = NoRes,
                           !.err = "none", !.res = "error"] \in OrderCall
      BY <3>1 DEF OrderCall, Results
    <3>3. order' \in [Orderers -> OrderCall]
      BY <3>2, <2>2 DEF EndTxn, IInv, TypeOK
    <3>4. ahead' \in [Orderers -> SUBSET Orderers]
      BY <2>2 DEF EndTxn, IInv, TypeOK
    <3>. QED BY <3>3, <3>4, <2>2 DEF IInv, TypeOK
  <2>5. HeapInv'
    <3>1. ASSUME NEW q \in Orderers, order'[q].pc = "commit"
          PROVE  /\ q # p /\ order'[q] = order[q]
                 /\ order[q].id \in ResIds \ {row}
                 /\ resv[order[q].id].status = "pending"
      BY <3>1, <2>3, <1>2 DEF IInv, HeapInv
    <3>2. \A q \in Orderers : order'[q].pc = "commit" =>
             order'[q].id \in ResIds /\ resv'[order'[q].id].status = "pending"
      BY <3>1, <2>3
    <3>3. \A q1, q2 \in Orderers :
             order'[q1].pc = "commit" /\ order'[q2].pc = "commit"
             /\ order'[q1].id = order'[q2].id => q1 = q2
      BY <3>1 DEF IInv, HeapInv
    <3>4. ASSUME NEW r \in ResIds, resv'[r].status = "pending"
          PROVE  \E q \in Orderers : order'[q].pc = "commit" /\ order'[q].id = r
      <4>1. r # row /\ resv[r].status = "pending"
        BY <3>4, <2>3
      <4>2. PICK q \in Orderers : order[q].pc = "commit" /\ order[q].id = r
        BY <4>1 DEF IInv, HeapInv
      <4>. QED BY <4>1, <4>2, <2>3
    <3>5. ASSUME NEW q \in Orderers, NEW r \in order'[q].locked
          PROVE  resv'[r].status \notin {"absent", "pending"}
      <4>1. q # p /\ order'[q] = order[q]
        BY <2>3
      <4>2. r \in ResIds /\ resv[r].status \notin {"absent", "pending"}
        BY <4>1 DEF IInv, HeapInv, TypeOK, OrderCall
      <4>. QED BY <4>2, <2>1, <2>3
    <3>6. \A u \in Updaters : upd'[u].pc # "done" =>
             upd'[u].id \in ResIds /\ resv'[upd'[u].id].status \notin {"absent", "pending"}
      BY <2>1, <2>2, <2>3 DEF IInv, HeapInv
    <3>. QED BY <3>2, <3>3, <3>4, <3>5, <3>6 DEF HeapInv
  <2>6. DisjointInv'
    <3> SUFFICES ASSUME NEW a \in ResIds, NEW b \in ResIds, a # b,
                        Live(a)', Live(b)', resv'[a].car = resv'[b].car,
                        Overlaps(resv'[a], resv'[b])
                 PROVE  Replaces(a, b)' \/ Replaces(b, a)'
      BY DEF DisjointInv
    <3>1. a # row /\ b # row
      BY <2>3 DEF Live
    <3>2. Replaces(a, b) \/ Replaces(b, a)
      BY <3>1, <2>3 DEF IInv, DisjointInv, Live
    <3>. QED BY <3>1, <3>2, <2>3 DEF Replaces
  <2>. QED BY <2>4, <2>5, <2>6 DEF IInv
<1>. QED BY <1>1, <1>2
-----------------------------------------------------------------------------
(* ConfirmHold, CancelReservation and plain inserts *)

\* An update of one committed row that keeps its car and window and revives
\* nothing; order is untouched.
LEMMA UpdateIInv ==
    ASSUME IInv, NEW u \in Updaters, NEW r \in ResIds, NEW row \in ResRow,
           resv[r].status \notin {"absent", "pending"},
           row.status \in {resv[r].status, "cancelled"},
           row.car = resv[r].car, row.start = resv[r].start, row.end = resv[r].end,
           resv' = [resv EXCEPT ![r] = row], upd' = [upd EXCEPT ![u] = NoCall],
           UNCHANGED <<clock, cars, recs, order, ahead>>
    PROVE  IInv'
<1>1. /\ resv'[r] = row /\ \A s \in ResIds \ {r} : resv'[s] = resv[s]
      /\ upd'[u] = NoCall /\ \A v \in Updaters \ {u} : upd'[v] = upd[v]
  BY DEF IInv, TypeOK
<1>2. TypeOK'
  <2>1. NoCall \in UpdCall
    BY ChosenUser DEF NoCall, UpdCall
  <2>. QED BY <2>1 DEF IInv, TypeOK
<1>3. HeapInv'
  <2>1. \A s \in ResIds :
           /\ resv[s].status = "pending" <=> resv'[s].status = "pending"
           /\ resv[s].status \notin {"absent", "pending"} =>
                 resv'[s].status \notin {"absent", "pending"}
    BY <1>1
  <2>2. \A v \in Updaters : upd'[v].pc # "done" => upd'[v] = upd[v]
    BY <1>1 DEF NoCall
  <2>3. \A q \in Orderers : order[q].locked \subseteq ResIds
    BY DEF IInv, TypeOK, OrderCall
  <2>. QED BY <2>1, <2>2, <2>3 DEF IInv, HeapInv
<1>4. DisjointInv'
  <2>1. \A s \in ResIds : /\ Live(s)' => Live(s)
                          /\ Live(s)' => /\ resv'[s].car = resv[s].car
                                         /\ resv'[s].start = resv[s].start
                                         /\ resv'[s].end = resv[s].end
    BY <1>1 DEF Live
  <2>2. \A a, b \in ResIds : Replaces(a, b)' <=> Replaces(a, b)
    BY DEF Replaces
  <2>. QED BY <2>1, <2>2 DEF IInv, DisjointInv, Overlaps
<1>. QED BY <1>2, <1>3, <1>4 DEF IInv

\* A step that only changes one updater's call, to one that names a committed row.
LEMMA UpdCallIInv ==
    ASSUME IInv, NEW u \in Updaters, NEW call \in UpdCall,
           upd' = [upd EXCEPT ![u] = call],
           call.pc # "done" => /\ call.id \in ResIds
                               /\ resv[call.id].status \notin {"absent", "pending"},
           UNCHANGED <<clock, cars, recs, resv, order, ahead>>
    PROVE  IInv'
<1>1. TypeOK'
  BY DEF IInv, TypeOK
<1>2. HeapInv'
  <2>1. \A v \in Updaters : upd'[v] = IF v = u THEN call ELSE upd[v]
    BY DEF IInv, TypeOK
  <2>. QED BY <2>1 DEF IInv, HeapInv
<1>3. DisjointInv'
  BY SameRows DEF IInv
<1>. QED BY <1>1, <1>2, <1>3 DEF IInv

LEMMA NoCallType == NoCall \in UpdCall /\ NoCall.pc = "done"
  BY ChosenUser DEF NoCall, UpdCall

LEMMA UpdBeginIInv ==
    ASSUME IInv, NEW u \in Updaters, NEW pc \in {"confirm", "cancel"}, UpdBegin(u, pc)
    PROVE  IInv'
<1>1. PICK r \in ResIds, user \in Users :
         /\ resv[r].status \notin {"absent", "pending"}
         /\ upd' = [upd EXCEPT ![u] = [pc |-> pc, id |-> r, user |-> user, now |-> clock]]
         /\ UNCHANGED <<clock, cars, recs, resv, order, ahead>>
  BY DEF UpdBegin
<1>2. [pc |-> pc, id |-> r, user |-> user, now |-> clock] \in UpdCall
  BY DEF UpdCall, IInv, TypeOK
<1>. QED BY <1>1, <1>2, UpdCallIInv

LEMMA ReturnIInv ==
    ASSUME IInv, NEW u \in Updaters, Return(u),
           UNCHANGED <<clock, cars, recs, resv, order, ahead>>
    PROVE  IInv'
BY NoCallType, UpdCallIInv DEF Return

LEMMA ConfirmIInv == ASSUME IInv, NEW u \in Updaters, Confirm(u) PROVE IInv'
<1>1. CASE UNCHANGED resv
  BY <1>1, ReturnIInv DEF Confirm
<1>2. CASE /\ Confirmable(u)
           /\ resv' = [resv EXCEPT ![upd[u].id] = [@ EXCEPT !.kind = "rental", !.exp = 0]]
  <2> DEFINE r == upd[u].id
             row == [resv[r] EXCEPT !.kind = "rental", !.exp = 0]
  <2>1. r \in ResIds /\ resv[r].status \notin {"absent", "pending"}
    BY DEF Confirm, IInv, HeapInv
  <2>2. resv[r] \in ResRow
    BY <2>1, RowShape DEF IInv
  <2>3. /\ row \in ResRow /\ row.status = resv[r].status
        /\ row.car = resv[r].car /\ row.start = resv[r].start /\ row.end = resv[r].end
    BY <2>1, <2>2 DEF ResRow, Kinds
  <2>4. resv' = [resv EXCEPT ![r] = row]
    BY <1>2
  <2>5. upd' = [upd EXCEPT ![u] = NoCall] /\ UNCHANGED <<clock, cars, recs, order, ahead>>
    BY DEF Confirm, Return
  <2>. HIDE DEF row, r
  <2>. QED BY <2>1, <2>3, <2>4, <2>5, UpdateIInv
<1>. QED BY <1>1, <1>2 DEF Confirm

LEMMA CancelIInv == ASSUME IInv, NEW u \in Updaters, Cancel(u) PROVE IInv'
<1>1. PICK pc \in {"cancel_commit", "cancel_classify"} : upd' = [upd EXCEPT ![u].pc = pc]
  BY DEF Cancel
<1>2. /\ upd[u] \in UpdCall /\ upd[u].id \in ResIds
      /\ resv[upd[u].id].status \notin {"absent", "pending"}
  BY DEF Cancel, IInv, TypeOK, HeapInv
<1>3. [upd[u] EXCEPT !.pc = pc] \in UpdCall
  BY <1>2 DEF UpdCall
<1>4. /\ upd' = [upd EXCEPT ![u] = [upd[u] EXCEPT !.pc = pc]]
      /\ [upd[u] EXCEPT !.pc = pc].id = upd[u].id
  BY <1>1, <1>2 DEF UpdCall
<1>5. UNCHANGED <<clock, cars, recs, resv, order, ahead>>
  BY DEF Cancel
<1>. QED BY <1>2, <1>3, <1>4, <1>5, UpdCallIInv
LEMMA CancelCommitIInv ==
    ASSUME IInv, NEW u \in Updaters, CancelCommit(u) PROVE IInv'
<1> DEFINE r == upd[u].id
           row == [resv[r] EXCEPT !.status = "cancelled"]
<1>1. r \in ResIds /\ resv[r].status \notin {"absent", "pending"}
  BY DEF CancelCommit, IInv, HeapInv
<1>2. resv[r] \in ResRow
  BY <1>1, RowShape DEF IInv
<1>3. /\ row \in ResRow /\ row.status = "cancelled"
      /\ row.car = resv[r].car /\ row.start = resv[r].start /\ row.end = resv[r].end
  BY <1>2 DEF ResRow
<1>4. /\ resv' = [resv EXCEPT ![r] = row] /\ upd' = [upd EXCEPT ![u] = NoCall]
      /\ UNCHANGED <<clock, cars, recs, order, ahead>>
  BY DEF CancelCommit, Return
<1>. HIDE DEF row, r
<1>. QED BY <1>1, <1>3, <1>4, UpdateIInv

LEMMA RawInsertIInv == ASSUME IInv, RawInsert PROVE IInv'
<1>1. PICK o \in RawRows, r \in FreeIds :
         /\ OverlapClashes({}, o) = {}
         /\ resv' = [resv EXCEPT ![r] =
                       [status |-> "confirmed", car |-> o.car, booker |-> o.booker,
                        kind |-> o.kind, start |-> o.start, end |-> o.end,
                        price |-> o.maxPrice, exp |-> 0, key |-> o.key,
                        created |-> clock]]
         /\ UNCHANGED <<clock, cars, recs, order, ahead, upd>>
  BY DEF RawInsert
<1>2. /\ r \in ResIds /\ resv[r].status = "absent"
      /\ o \in OrderParams /\ o.start < o.end
  BY RawAssumption DEF FreeIds
<1>3. /\ resv'[r] \in ResRow /\ resv'[r].status = "confirmed"
      /\ resv'[r].car = o.car /\ resv'[r].start = o.start /\ resv'[r].end = o.end
      /\ \A s \in ResIds \ {r} : resv'[s] = resv[s]
  BY <1>1, <1>2 DEF IInv, TypeOK, ResRow, OrderParams
<1>4. TypeOK'
  <2>1. resv' \in [ResIds -> ResRow \cup {NoRow}]
    BY <1>1, <1>3 DEF IInv, TypeOK
  <2>. QED BY <2>1, <1>1 DEF IInv, TypeOK
<1>5. HeapInv'
  <2>1. \A s \in ResIds :
           /\ resv[s].status = "pending" <=> resv'[s].status = "pending"
           /\ resv[s].status \notin {"absent", "pending"} =>
                 resv'[s].status \notin {"absent", "pending"}
    BY <1>2, <1>3
  <2>2. \A q \in Orderers : order[q].locked \subseteq ResIds
    BY DEF IInv, TypeOK, OrderCall
  <2>. QED BY <2>1, <2>2, <1>1 DEF IInv, HeapInv
<1>6. DisjointInv'
  <2>1. ASSUME NEW s \in ResIds \ {r}, Live(s), resv[s].car = o.car
        PROVE  ~ Overlaps(resv[s], o) /\ ~ Overlaps(o, resv[s])
    BY <2>1, <1>1 DEF OverlapClashes, Overlaps, Live
  <2>2. \A s \in ResIds \ {r} : Live(s)' => Live(s)
    BY <1>3 DEF Live
  <2>3. \A a, b \in ResIds : Replaces(a, b)' <=> Replaces(a, b)
    BY <1>1 DEF Replaces
  <2>4. \A s \in ResIds \ {r} : Live(s)' /\ resv'[s].car = o.car =>
           ~ Overlaps(resv'[s], resv'[r]) /\ ~ Overlaps(resv'[r], resv'[s])
    BY <2>1, <2>2, <1>3 DEF Overlaps
  <2> SUFFICES ASSUME NEW a \in ResIds, NEW b \in ResIds, a # b,
                      Live(a)', Live(b)', resv'[a].car = resv'[b].car,
                      Overlaps(resv'[a], resv'[b])
               PROVE  Replaces(a, b)' \/ Replaces(b, a)'
    BY DEF DisjointInv
  <2>5. a # r /\ b # r
    BY <2>4, <1>3
  <2>. QED BY <2>5, <2>2, <2>3, <1>3 DEF IInv, DisjointInv
<1>. QED BY <1>4, <1>5, <1>6 DEF IInv

-----------------------------------------------------------------------------
(* The owner's writes and the clock *)

LEMMA OwnerIInv ==
    ASSUME IInv, UNCHANGED <<resv, order, ahead, upd>>,
           clock' \in Nat, cars' \in [Cars -> CarRow],
           recs' \in [RecIds -> RecRow \cup {NoRec}]
    PROVE  IInv'
BY DEF IInv, TypeOK, HeapInv, DisjointInv, Live, Replaces, Overlaps

LEMMA CreateCarIInv == ASSUME IInv, NEW c \in Cars, CreateCar(c) PROVE IInv'
<1>1. PICK rate \in Rates : cars' = [cars EXCEPT ![c] = [state |-> "listed", rate |-> rate]]
  BY DEF CreateCar
<1>2. cars' \in [Cars -> CarRow]
  BY <1>1, NatAssumption DEF IInv, TypeOK, CarRow
<1>. QED BY <1>2, OwnerIInv DEF CreateCar, IInv, TypeOK

LEMMA UpdateCarIInv == ASSUME IInv, NEW c \in Cars, UpdateCar(c) PROVE IInv'
<1>1. PICK rate \in Rates \cup {cars[c].rate}, state \in Listings \cup {cars[c].state} :
         cars' = [cars EXCEPT ![c] = [state |-> state, rate |-> rate]]
  BY DEF UpdateCar
<1>2. rate \in Nat /\ state \in {"absent", "listed", "hidden"}
  BY NatAssumption DEF IInv, TypeOK, CarRow
<1>3. cars' \in [Cars -> CarRow]
  BY <1>1, <1>2 DEF IInv, TypeOK, CarRow
<1>. QED BY <1>3, OwnerIInv DEF UpdateCar, IInv, TypeOK

LEMMA CreateScheduleIInv ==
    ASSUME IInv, NEW x \in RecIds, CreateSchedule(x) PROVE IInv'
<1>1. PICK c \in Cars, w \in Spans :
         recs' = [recs EXCEPT ![x] = [state |-> "pending", car |-> c, start |-> w.start,
                                      end |-> w.end, created |-> clock, committed |-> 0]]
  BY DEF CreateSchedule
<1>2. [state |-> "pending", car |-> c, start |-> w.start, end |-> w.end,
       created |-> clock, committed |-> 0] \in RecRow
  BY NatAssumption DEF RecRow, IInv, TypeOK
<1>3. recs' \in [RecIds -> RecRow \cup {NoRec}]
  BY <1>1, <1>2 DEF IInv, TypeOK
<1>. QED BY <1>3, OwnerIInv DEF CreateSchedule, IInv, TypeOK

LEMMA CommitScheduleIInv ==
    ASSUME IInv, NEW x \in RecIds, CommitSchedule(x) PROVE IInv'
<1>1. recs[x] \in RecRow
  BY DEF CommitSchedule, IInv, TypeOK, NoRec
<1>2. [recs[x] EXCEPT !.state = "active", !.committed = clock] \in RecRow
  BY <1>1 DEF RecRow, IInv, TypeOK
<1>3. recs' \in [RecIds -> RecRow \cup {NoRec}]
  BY <1>2 DEF CommitSchedule, IInv, TypeOK
<1>. QED BY <1>3, OwnerIInv DEF CommitSchedule, IInv, TypeOK

LEMMA AbortScheduleIInv ==
    ASSUME IInv, NEW x \in RecIds, AbortSchedule(x) PROVE IInv'
BY OwnerIInv DEF AbortSchedule, IInv, TypeOK

LEMMA DeactivateScheduleIInv ==
    ASSUME IInv, NEW x \in RecIds, DeactivateSchedule(x) PROVE IInv'
<1>1. recs[x] \in RecRow
  BY DEF DeactivateSchedule, IInv, TypeOK, NoRec
<1>2. [recs[x] EXCEPT !.state = "inactive"] \in RecRow
  BY <1>1 DEF RecRow
<1>3. recs' \in [RecIds -> RecRow \cup {NoRec}]
  BY <1>2 DEF DeactivateSchedule, IInv, TypeOK
<1>. QED BY <1>3, OwnerIInv DEF DeactivateSchedule, IInv, TypeOK

LEMMA TickIInv == ASSUME IInv, Tick PROVE IInv'
BY OwnerIInv DEF Tick, IInv, TypeOK

-----------------------------------------------------------------------------
(* The theorems *)

LEMMA StepIInv == IInv /\ [OpsNext]_vars => IInv'
<1> SUFFICES ASSUME IInv, [OpsNext]_vars PROVE IInv'
  OBVIOUS
<1>1. ASSUME NEW p \in Orderers, OrderBegin(p) \/ OrderStep(p) \/ OrderAbort(p)
      PROVE  IInv'
  BY <1>1, BeginIInv, EnqueueIInv, ReapIInv, CheckIInv, InsertIInv, ClassifyIInv,
     CommitIInv, ReplayIInv, AbortIInv DEF OrderStep
<1>2. ASSUME NEW u \in Updaters,
             \/ \E pc \in {"confirm", "cancel"} : UpdBegin(u, pc)
             \/ UpdStep(u) \/ UpdAbort(u)
      PROVE  IInv'
  BY <1>2, UpdBeginIInv, ConfirmIInv, CancelIInv, CancelCommitIInv, ReturnIInv
     DEF UpdStep, UpdAbort, CancelClassify
<1>3. ASSUME NEW c \in Cars, CreateCar(c) \/ UpdateCar(c) PROVE IInv'
  BY <1>3, CreateCarIInv, UpdateCarIInv
<1>4. ASSUME NEW x \in RecIds,
             \/ CreateSchedule(x) \/ CommitSchedule(x) \/ AbortSchedule(x)
             \/ DeactivateSchedule(x)
      PROVE  IInv'
  BY <1>4, CreateScheduleIInv, CommitScheduleIInv, AbortScheduleIInv, DeactivateScheduleIInv
<1>5. CASE UNCHANGED vars
  BY <1>5, OwnerIInv DEF vars, IInv, TypeOK
<1>. QED BY <1>1, <1>2, <1>3, <1>4, <1>5, TickIInv, RawInsertIInv DEF OpsNext, Next

\* Two rows that share an instant overlap, and neither of two committed rows
\* is one that a transaction is about to commit.
LEMMA IInvDisjoint == IInv => NoDoubleBooking
<1> SUFFICES ASSUME IInv, NEW r \in ResIds, NEW s \in ResIds, r # s,
                    resv[r].status = "confirmed", resv[s].status = "confirmed",
                    resv[r].car = resv[s].car,
                    NEW t \in resv[r].start .. resv[r].end - 1,
                    t \in resv[s].start .. resv[s].end - 1
             PROVE  FALSE
  BY DEF NoDoubleBooking, Confirmed
<1>1. resv[r] \in ResRow /\ resv[s] \in ResRow
  BY RowShape DEF IInv
<1>2. /\ resv[r].start \in Nat /\ resv[r].end \in Nat
      /\ resv[s].start \in Nat /\ resv[s].end \in Nat
  BY <1>1 DEF ResRow
<1>3. Overlaps(resv[r], resv[s])
  BY <1>2 DEF Overlaps
<1>4. Replaces(r, s) \/ Replaces(s, r)
  BY <1>3 DEF IInv, DisjointInv, Live
<1>. QED BY <1>4 DEF Replaces, IInv, HeapInv

LEMMA OpsInvariant == OpsSpec => []IInv
BY InitIInv, StepIInv, PTL DEF OpsSpec

LEMMA SpecIsOps == Spec => OpsSpec
<1>1. [Next]_vars => [OpsNext]_vars
  BY DEF OpsNext
<1>. QED BY <1>1, PTL DEF Spec, OpsSpec

\* Every row, call and queue keeps its shape, for every value of the constants.
THEOREM TypeCorrect == Spec => []TypeOK
<1>1. IInv => TypeOK
  BY DEF IInv
<1>. QED BY <1>1, OpsInvariant, SpecIsOps, PTL

\* The exclusion constraint alone keeps committed bookings of a car disjoint:
\* whatever the API's transactions and the tools that insert without the car
\* lock do, and in whatever order their statements run.
THEOREM NoDoubleBookingOps == OpsSpec => []NoDoubleBooking
BY OpsInvariant, IInvDisjoint, PTL

\* The same of the API alone.
THEOREM NoDoubleBookingApi == Spec => []NoDoubleBooking
BY NoDoubleBookingOps, SpecIsOps, PTL
=============================================================================
