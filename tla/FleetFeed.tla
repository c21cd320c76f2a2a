------------------------------ MODULE FleetFeed ------------------------------
(***************************************************************************)
(* The change feed that keeps every pod's in-memory fleet equal to the     *)
(* database (internal/fleet/feed.go over cars.fleet_log of db/schema.sql). *)
(*                                                                         *)
(* Every write of a row appends an entry to the log inside the writer's    *)
(* transaction.  The entry gets its sequence number when it is written,    *)
(* its created_at is the time the transaction BEGAN, and it becomes        *)
(* visible when the transaction commits: three different orders.  A pod    *)
(* reads the log past its cursor and may only move the cursor past entries *)
(* that nothing still open can precede.                                    *)
(*                                                                         *)
(* A row's content is abstracted to the sequence number of the entry that  *)
(* describes it, 0 standing for the row before the first entry.            *)
(***************************************************************************)
EXTENDS Naturals, FiniteSetsExt

CONSTANTS
    Writers,    \* connections that write cars, reservations or recurrences
    Rows,       \* the rows they write
    Pods,       \* server processes, each with a fleet
    Lag,        \* stabilityLag
    Retention,  \* logRetention
    MaxTxn,     \* how long a transaction may stay open: nothing in the code bounds it
    MaxBehind,  \* how long a pod may go without a successful read: neither does this
    MaxSeq,     \* bound on the entries ever written
    MaxTime     \* bound on the clock

ASSUME NatAssumption ==
    /\ Lag \in Nat /\ Retention \in Nat /\ MaxTxn \in Nat /\ MaxBehind \in Nat
    /\ MaxSeq \in Nat /\ MaxTime \in Nat

VARIABLES
    clock,    \* Postgres' clock
    lastSeq,  \* the fleet_log_seq_seq sequence
    log,      \* cars.fleet_log, committed rows
    db,       \* the committed content of each row
    txn,      \* the transaction of each writer
    pod       \* each pod's feed loop and fleet

vars == <<clock, lastSeq, log, db, txn, pod>>

-----------------------------------------------------------------------------
(* Types *)

Entry == [seq : Nat, row : Rows, at : Nat]

\* What a pod serves, as of the time it was read: the content of every row, and
\* the last log entry the pod will never read again.
Fleet == [row : [Rows -> Nat], cursor : Nat, at : Nat]

\* "down" has no fleet; "starting" and "rebuilding" hold a snapshot that is not
\* swapped in yet, "apply" the result of a pull.
Pod == [pc : {"down", "starting", "pull", "apply", "pulled", "wait", "failed",
              "rebuilding"},
        fleet : Fleet, read : Fleet]

Txn == [open : BOOLEAN, began : Nat, wrote : SUBSET Entry]

NoFleet == [row |-> [r \in Rows |-> 0], cursor |-> 0, at |-> 0]

NoTxn == [open |-> FALSE, began |-> 0, wrote |-> {}]

TypeOK ==
    /\ clock \in Nat /\ lastSeq \in Nat
    /\ log \in SUBSET Entry
    /\ db \in [Rows -> Nat]
    /\ txn \in [Writers -> Txn]
    /\ pod \in [Pods -> Pod]

Init ==
    /\ clock = 0 /\ lastSeq = 0
    /\ log = {}
    /\ db = [r \in Rows |-> 0]
    /\ txn = [w \in Writers |-> NoTxn]
    /\ pod = [p \in Pods |-> [pc |-> "down", fleet |-> NoFleet, read |-> NoFleet]]

-----------------------------------------------------------------------------
(* Writers *)

Begin(w) ==
    /\ ~txn[w].open
    /\ txn' = [txn EXCEPT ![w] = [open |-> TRUE, began |-> clock, wrote |-> {}]]
    /\ UNCHANGED <<clock, lastSeq, log, db, pod>>

\* The row lock: nobody else has written the row and is still open.
Locked(w, r) == \E v \in Writers \ {w} : \E e \in txn[v].wrote : e.row = r

\* A statement writes row r and the trigger log_fleet_change adds its entry.
Write(w, r) ==
    /\ txn[w].open /\ lastSeq < MaxSeq
    /\ ~Locked(w, r)
    /\ lastSeq' = lastSeq + 1
    /\ txn' = [txn EXCEPT ![w].wrote =
                  @ \cup {[seq |-> lastSeq', row |-> r, at |-> txn[w].began]}]
    /\ UNCHANGED <<clock, log, db, pod>>

\* The content of row r after the entries of S have been applied in seq order.
Newest(S, r, content) ==
    LET seqs == {e.seq : e \in {x \in S : x.row = r}}
    IN  IF seqs = {} THEN content[r] ELSE Max(seqs)

Commit(w) ==
    /\ txn[w].open
    /\ log' = log \cup txn[w].wrote
    /\ db' = [r \in Rows |-> Newest(txn[w].wrote, r, db)]
    /\ txn' = [txn EXCEPT ![w] = NoTxn]
    /\ UNCHANGED <<clock, lastSeq, pod>>

\* ROLLBACK: the sequence numbers are not given back.
Abort(w) ==
    /\ txn[w].open
    /\ txn' = [txn EXCEPT ![w] = NoTxn]
    /\ UNCHANGED <<clock, lastSeq, log, db, pod>>

-----------------------------------------------------------------------------
(* The feed loop of a pod *)

Advance(p, pc) == pod' = [pod EXCEPT ![p].pc = pc]

\* Mutant of Stable: every committed entry is trusted.
Stable_All(S) == {e.seq : e \in S}

\* Entries old enough for the cursor to pass.
Stable(S) == {e.seq : e \in {x \in S : x.at + Lag < clock}}

\* Mutant of Snapshot: the newest stable entry is to be read again.
Snapshot_Before(p) ==
    /\ pod[p].pc \in {"down", "failed"}
    /\ pod' = [pod EXCEPT ![p] =
                 [pc    |-> IF @.pc = "down" THEN "starting" ELSE "rebuilding",
                  fleet |-> @.fleet,
                  read  |-> [row |-> db, cursor |-> Max(Stable(log) \cup {0}) - 1,
                             at |-> clock]]]
    /\ UNCHANGED <<clock, lastSeq, log, db, txn>>

\* rebuild: one REPEATABLE READ snapshot of the cursor and of every row.
Snapshot(p) ==
    /\ pod[p].pc \in {"down", "failed"}
    /\ pod' = [pod EXCEPT ![p] =
                 [pc    |-> IF @.pc = "down" THEN "starting" ELSE "rebuilding",
                  fleet |-> @.fleet,
                  read  |-> [row |-> db, cursor |-> Max(Stable(log) \cup {0}),
                             at |-> clock]]]
    /\ UNCHANGED <<clock, lastSeq, log, db, txn>>

\* Mutant of Pull: the entries are read in no order, the oldest may win.
Pull_Unordered(p) ==
    LET old == pod[p].fleet
        batch == {e \in log : e.seq > old.cursor}
        seqs(r) == {e.seq : e \in {x \in batch : x.row = r}}
    IN
    /\ pod[p].pc = "pull"
    /\ pod' = [pod EXCEPT ![p] =
                 [pc    |-> "apply",
                  fleet |-> old,
                  read  |-> [row |-> [r \in Rows |-> IF seqs(r) = {} THEN old.row[r]
                                                     ELSE Min(seqs(r))],
                             cursor |-> Max(Stable(batch) \cup {old.cursor}),
                             at |-> clock]]]
    /\ UNCHANGED <<clock, lastSeq, log, db, txn>>

\* pull's query: every visible entry past the cursor, in seq order.  The cursor
\* it leads to is that of the last stable one.
Pull(p) ==
    LET old == pod[p].fleet
        batch == {e \in log : e.seq > old.cursor}
    IN
    /\ pod[p].pc = "pull"
    /\ pod' = [pod EXCEPT ![p] =
                 [pc    |-> "apply",
                  fleet |-> old,
                  read  |-> [row |-> [r \in Rows |-> Newest(batch, r, old.row)],
                             cursor |-> Max(Stable(batch) \cup {old.cursor}),
                             at |-> clock]]]
    /\ UNCHANGED <<clock, lastSeq, log, db, txn>>

\* Under fleet.mu: what was read becomes what is served.  A rebuild is followed
\* by a pull at once.
Install(p) ==
    /\ pod[p].pc \in {"apply", "starting", "rebuilding"}
    /\ pod' = [pod EXCEPT ![p] =
                 [pc    |-> IF @.pc = "apply" THEN "pulled" ELSE "pull",
                  fleet |-> @.read,
                  read  |-> NoFleet]]
    /\ UNCHANGED <<clock, lastSeq, log, db, txn>>

\* The ticker fires, or a wake is sent.
Wake(p) ==
    /\ pod[p].pc = "wait"
    /\ Advance(p, "pull")
    /\ UNCHANGED <<clock, lastSeq, log, db, txn>>

\* Mutant of Prune: it goes by the stability lag.
Prune_Stable(p) ==
    /\ pod[p].pc = "pulled"
    /\ log' \in {log, {e \in log : e.at + Lag >= clock}}
    /\ Advance(p, "wait")
    /\ UNCHANGED <<clock, lastSeq, db, txn>>

\* After a pull, and an hour after the last time, the pod deletes old entries,
\* whatever the other pods have read.
Prune(p) ==
    /\ pod[p].pc = "pulled"
    /\ log' \in {log, {e \in log : e.at + Retention >= clock}}
    /\ Advance(p, "wait")
    /\ UNCHANGED <<clock, lastSeq, db, txn>>

\* The pull or the prune failed: the loop sleeps a second, then rebuilds.
Fail(p) ==
    /\ pod[p].pc \in {"pull", "pulled"}
    /\ Advance(p, "failed")
    /\ UNCHANGED <<clock, lastSeq, log, db, txn>>

\* The rebuild failed: the loop follows the log again with the fleet it had.
RebuildFail(p) ==
    /\ pod[p].pc \in {"failed", "rebuilding"}
    /\ pod' = [pod EXCEPT ![p] = [pc |-> "pull", fleet |-> @.fleet, read |-> NoFleet]]
    /\ UNCHANGED <<clock, lastSeq, log, db, txn>>

\* The process dies, or Start's rebuild fails and main gives up.
Crash(p) ==
    /\ pod[p].pc # "down"
    /\ pod' = [pod EXCEPT ![p] = [pc |-> "down", fleet |-> NoFleet, read |-> NoFleet]]
    /\ UNCHANGED <<clock, lastSeq, log, db, txn>>

-----------------------------------------------------------------------------
(* Time, and the specification *)

\* The time of the last read behind the fleet p serves or is about to.
ReadAt(p) == IF pod[p].pc = "starting" THEN pod[p].read.at ELSE pod[p].fleet.at

\* MaxTxn and MaxBehind are assumptions on the surroundings.
Tick ==
    /\ clock < MaxTime
    /\ \A w \in Writers : txn[w].open => clock < txn[w].began + MaxTxn
    /\ \A p \in Pods : pod[p].pc # "down" => clock < ReadAt(p) + MaxBehind
    /\ clock' = clock + 1
    /\ UNCHANGED <<lastSeq, log, db, txn, pod>>

WriterStep(w) == Begin(w) \/ Commit(w) \/ Abort(w) \/ \E r \in Rows : Write(w, r)

PodStep(p) ==
    \/ Snapshot(p) \/ Pull(p) \/ Install(p) \/ Wake(p) \/ Prune(p)
    \/ Fail(p) \/ RebuildFail(p) \/ Crash(p)

Next == (\E w \in Writers : WriterStep(w)) \/ (\E p \in Pods : PodStep(p)) \/ Tick

Spec == Init /\ [][Next]_vars

\* The same when only outages take time: the clock moves while every process is
\* down or sleeps after a failed read.
OutageNext ==
    \/ \E w \in Writers : WriterStep(w)
    \/ \E p \in Pods : PodStep(p)
    \/ Tick /\ \A p \in Pods : pod[p].pc \in {"down", "failed"}

OutageSpec == Init /\ [][OutageNext]_vars

\* The loop runs on its ticker.  Its reads may fail, but not all of them for
\* ever: a database that keeps coming back serves one in the end.
FairSpec ==
    /\ Spec
    /\ \A p \in Pods : /\ WF_vars(Install(p)) /\ WF_vars(Prune(p)) /\ WF_vars(Wake(p))
                       /\ SF_vars(Pull(p)) /\ SF_vars(Snapshot(p))
                       /\ WF_vars(RebuildFail(p))

-----------------------------------------------------------------------------
(* Properties *)

Serving(p) == pod[p].pc \notin {"down", "starting"}

Following(p) == pod[p].pc \in {"pull", "apply", "pulled", "wait"}

\* feed.go:211, "out-of-order commits are re-read rather than skipped", and
\* feed.go:26, "A pod further behind than this rebuilds from a snapshot anyway":
\* a pod that follows the log serves the committed content of a row, or the entry of that content is
\* still in the log and past the pod's cursor.  A skipped entry would leave the
\* pod wrong about the row until the row is written again.
NothingSkipped ==
    \A p \in Pods, r \in Rows :
        Following(p) /\ pod[p].fleet.row[r] # db[r] =>
            \E e \in log : /\ e.row = r /\ e.seq = db[r]
                           /\ e.seq > pod[p].fleet.cursor

\* "Applies are idempotent, the feed re-delivers the unstable tail on every
\* pull": re-delivered entries never take a row back to an older content, nor
\* does swapping a snapshot in.
NeverBackInTime ==
    [][\A p \in Pods, r \in Rows :
          Serving(p) /\ Serving(p)'
          => pod'[p].fleet.row[r] >= pod[p].fleet.row[r]]_vars

\* A committed change reaches every pod that stays up.
Converges ==
    \A p \in Pods, r \in Rows : \A s \in 1 .. MaxSeq :
        db[r] = s ~> pod[p].fleet.row[r] >= s \/ pod[p].pc = "down"
=============================================================================
