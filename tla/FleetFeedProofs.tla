--------------------------- MODULE FleetFeedProofs ---------------------------
(***************************************************************************)
(* A pod that follows the change feed misses no commit and never goes back *)
(* to an older content of a row: for every number of pods, writers, rows   *)
(* and entries, and every setting of the feed's times that satisfies       *)
(* Timing.                                                                 *)
(***************************************************************************)
EXTENDS FleetFeed, FiniteSetTheorems, TLAPS

\* What the feed's constants must satisfy.  With stabilityLag = 2s and
\* logRetention = 24h: no write transaction stays open longer than one second,
\* and no pod that runs goes without a successful read for longer than a day
\* less two seconds.  The code enforces neither.
Timing ==
    /\ 2 * MaxTxn <= Lag
    /\ MaxBehind + Lag <= Retention
    /\ MaxTxn + Lag <= Retention

-----------------------------------------------------------------------------
(* The inductive invariant *)

\* The entries of the transactions that are still open.
Pending == UNION {txn[w].wrote : w \in Writers}

\* An open transaction is at most MaxTxn old, and its entries bear its start.
TxnInv ==
    \A w \in Writers :
        /\ txn[w].open => txn[w].began <= clock /\ clock <= txn[w].began + MaxTxn
        /\ ~txn[w].open => txn[w].wrote = {}
        /\ \A e \in txn[w].wrote : e.at = txn[w].began

\* The order of the sequence is the order of created_at up to MaxTxn.
LogInv ==
    /\ \A e \in log \cup Pending :
         0 < e.seq /\ e.seq <= lastSeq /\ e.at <= clock
    /\ \A e, c \in log \cup Pending : e.seq <= c.seq => e.at <= c.at + MaxTxn

\* The row locks make the entries of one row commit in the order of the
\* sequence, and the newest of them is the row's content.  When pruning has
\* taken it, what is left of the row's entries is almost old enough as well.
RowInv ==
    /\ \A r \in Rows : db[r] <= lastSeq
    /\ \A e \in log : e.seq <= db[e.row]
    /\ \A e \in Pending : db[e.row] < e.seq
    /\ \A v, w \in Writers : \A e \in txn[v].wrote, x \in txn[w].wrote :
         e.row = x.row => v = w
    /\ \A r \in Rows :
         \/ \E e \in log : e.row = r /\ e.seq = db[r]
         \/ \A x \in log : x.row = r => x.at + Retention < clock + MaxTxn

\* Fleet f has the content of row r or will read it, and will not read an older
\* one: the entry of the content was past the cursor unless it was stable when
\* f was read, and once it is pruned nothing older is left past the cursor.
Covered(f, r) ==
    \/ \E e \in log : /\ e.row = r /\ e.seq = db[r]
                      /\ f.row[r] = db[r] \/ f.cursor < e.seq
                      /\ f.at <= e.at + Lag \/ e.seq <= f.cursor
    \/ f.row[r] = db[r] /\ \A x \in log : x.row = r => x.seq <= f.cursor

\* The fleets from which following the log is safe.
Current ==
    {f \in Fleet :
        /\ f.at <= clock /\ f.cursor <= lastSeq
        /\ \A e \in Pending : f.cursor < e.seq
        /\ \A r \in Rows : f.row[r] <= db[r] /\ Covered(f, r)}

\* What a pod serves is such a fleet and was read recently; what it is about to
\* serve is such a fleet too, and at no row older.
Sound ==
    {x \in Pod :
        /\ x.pc = "starting" => clock <= x.read.at + MaxBehind
        /\ x.pc \notin {"down", "starting"} =>
             clock <= x.fleet.at + MaxBehind /\ x.fleet \in Current
        /\ x.pc \in {"starting", "apply", "rebuilding"} => x.read \in Current
        /\ x.pc \in {"apply", "rebuilding"} =>
             /\ x.fleet.at <= x.read.at
             /\ \A r \in Rows : x.fleet.row[r] <= x.read.row[r]}

PodInv == \A p \in Pods : pod[p] \in Sound

LogIInv == TypeOK /\ TxnInv /\ LogInv /\ RowInv

IInv == LogIInv /\ PodInv

-----------------------------------------------------------------------------
(* Maxima, and the newest entry of a row *)

LEMMA MaxFact ==
  ASSUME NEW S \in SUBSET Nat, NEW n \in Nat, \A x \in S : x <= n, S # {}
  PROVE  Max(S) \in S /\ \A x \in S : x <= Max(S)
<1>. DEFINE above(x) == {y \in S : x < y}
            R == StrictSubsetOrdering(S)
            T == {above(x) : x \in S}
<1>1. IsFiniteSet(S)
  BY FS_BoundedSetOfNaturals
<1>2. T \subseteq FiniteSubsetsOf(S)
  BY <1>1, FS_Subset DEF FiniteSubsetsOf
<1>3. T # {}
  OBVIOUS
<1>4. PICK t \in T : \A u \in T : ~(<<u, t>> \in R)
  <2>1. IsWellFoundedOn(R, FiniteSubsetsOf(S))
    BY FS_StrictSubsetOrderingWellFounded
  <2>. HIDE DEF R, T
  <2>. QED BY <1>2, <1>3, <2>1, WFMin
<1>5. PICK m \in S : t = above(m)
  BY <1>4
<1>6. ASSUME NEW x \in S, m < x PROVE FALSE
  <2>1. above(x) \subseteq above(m)
    <3>1. ASSUME NEW y \in S, x < y PROVE m < y
      BY <1>6, <3>1
    <3>. QED BY <3>1
  <2>2. x \in above(m) /\ x \notin above(x)
    BY <1>6
  <2>3. <<above(x), above(m)>> \in R
    <3>1. above(x) \in SUBSET S /\ above(m) \in SUBSET S
      OBVIOUS
    <3>2. above(x) # above(m)
      BY <2>2
    <3>. QED BY <2>1, <3>1, <3>2 DEF StrictSubsetOrdering
  <2>. QED BY <1>4, <1>5, <2>3
<1>7. \A x \in S : m >= x
  BY <1>6
<1>8. \E x \in S : \A y \in S : x >= y
  BY <1>7
<1>. QED BY <1>8 DEF Max

\* The entries of row r in S, if any, have a newest one, which Newest names.
LEMMA NewestFact ==
  ASSUME NEW S \in SUBSET Entry, NEW n \in Nat, \A e \in S : e.seq <= n,
         NEW r \in Rows, NEW content \in [Rows -> Nat]
  PROVE  /\ (\A e \in S : e.row # r) => Newest(S, r, content) = content[r]
         /\ (\E e \in S : e.row = r) =>
              /\ \E e \in S : e.row = r /\ e.seq = Newest(S, r, content)
              /\ \A e \in S : e.row = r => e.seq <= Newest(S, r, content)
         /\ Newest(S, r, content) \in Nat
<1>. DEFINE seqs == {e.seq : e \in {x \in S : x.row = r}}
<1>1. Newest(S, r, content) = IF seqs = {} THEN content[r] ELSE Max(seqs)
  BY DEF Newest
<1>2. seqs \in SUBSET Nat /\ \A x \in seqs : x <= n
  BY DEF Entry
<1>3. seqs # {} => Max(seqs) \in seqs /\ \A x \in seqs : x <= Max(seqs)
  <2>. HIDE DEF seqs
  <2>. QED BY <1>2, MaxFact
<1>. QED BY <1>1, <1>2, <1>3

\* The cursor a read leads to: no stable entry of S is past it, and it is
\* where it was or at a stable entry.
LEMMA CursorFact ==
  ASSUME NEW S \in SUBSET Entry, NEW n \in Nat, \A e \in S : e.seq <= n,
         NEW c \in Nat, c <= n
  PROVE  LET m == Max(Stable(S) \cup {c})
         IN  /\ m \in Nat /\ m <= n /\ c <= m
             /\ \A e \in S : e.at + Lag < clock => e.seq <= m
             /\ m = c \/ \E e \in S : e.seq = m /\ e.at + Lag < clock
<1>. DEFINE T == Stable(S) \cup {c}
<1>1. T \in SUBSET Nat /\ \A x \in T : x <= n
  BY DEF Stable, Entry
<1>2. c \in T
  OBVIOUS
<1>3. Max(T) \in T /\ \A x \in T : x <= Max(T)
  <2>. HIDE DEF T
  <2>. QED BY <1>1, <1>2, MaxFact
<1>. QED BY <1>1, <1>2, <1>3 DEF Stable

-----------------------------------------------------------------------------
(* Writers *)

\* What the parts of the invariant about the log say of the entries in it.
LEMMA EntryFacts ==
  ASSUME LogIInv
  PROVE  /\ log \in SUBSET Entry /\ Pending \in SUBSET Entry
         /\ \A w \in Writers : txn[w].wrote \in SUBSET Entry
         /\ \A w \in Writers : txn[w].wrote \subseteq Pending
         /\ \A e \in log \cup Pending : e.seq <= lastSeq
         /\ \A e \in Pending : clock <= e.at + MaxTxn
<1>1. log \in SUBSET Entry
  BY DEF LogIInv, TypeOK
<1>2. \A w \in Writers : txn[w].wrote \in SUBSET Entry /\ txn[w] \in Txn
  BY DEF LogIInv, TypeOK, Txn
<1>3. Pending \in SUBSET Entry /\ \A w \in Writers : txn[w].wrote \subseteq Pending
  BY <1>2 DEF Pending
<1>4. \A e \in log \cup Pending : e.seq <= lastSeq
  BY DEF LogIInv, LogInv
<1>5. ASSUME NEW w \in Writers, NEW e \in txn[w].wrote
      PROVE  clock <= e.at + MaxTxn
  <2>1. txn[w].open
    BY <1>2 DEF LogIInv, TxnInv, Txn
  <2>. QED BY <2>1 DEF LogIInv, TxnInv
<1>. QED BY <1>1, <1>2, <1>3, <1>4, <1>5 DEF Pending

LEMMA BeginStep ==
  ASSUME LogIInv, NEW w \in Writers, Begin(w)
  PROVE  LogIInv' /\ Pending' = Pending
<1>1. txn' \in [Writers -> Txn]
  BY DEF LogIInv, TypeOK, Begin, Txn
<1>2. \A v \in Writers : txn'[v].wrote = txn[v].wrote
  <2>1. txn[w].wrote = {}
    BY DEF LogIInv, TypeOK, TxnInv, Begin
  <2>. QED BY <2>1 DEF LogIInv, TypeOK, Begin
<1>3. Pending' = Pending
  BY <1>2 DEF Pending
<1>4. TypeOK'
  BY <1>1 DEF LogIInv, TypeOK, Begin
<1>5. TxnInv'
  BY NatAssumption DEF LogIInv, TypeOK, TxnInv, Begin, Txn
<1>6. LogInv'
  BY <1>3 DEF LogIInv, LogInv, Begin
<1>7. RowInv'
  BY <1>2, <1>3 DEF LogIInv, RowInv, Begin
<1>. QED BY <1>3, <1>4, <1>5, <1>6, <1>7 DEF LogIInv

LEMMA WriteStep ==
  ASSUME LogIInv, NEW w \in Writers, NEW r \in Rows, Write(w, r)
  PROVE  /\ LogIInv'
         /\ \A e \in Pending' : e \in Pending \/ (e.seq \in Nat /\ lastSeq < e.seq)
<1>. DEFINE new == [seq |-> lastSeq + 1, row |-> r, at |-> txn[w].began]
<1>1. /\ clock' = clock /\ log' = log /\ db' = db /\ lastSeq' = lastSeq + 1
      /\ clock \in Nat /\ lastSeq \in Nat /\ txn[w].open
      /\ \A v \in Writers \ {w} : \A e \in txn[v].wrote : e.row # r
  BY DEF Write, Locked, LogIInv, TypeOK
<1>2. new \in Entry /\ txn[w] \in Txn
  BY DEF LogIInv, TypeOK, Entry, Txn
<1>3. txn' = [txn EXCEPT ![w].wrote = @ \cup {new}]
  BY <1>1 DEF Write
<1>4. /\ txn'[w].open = txn[w].open /\ txn'[w].began = txn[w].began
      /\ txn'[w].wrote = txn[w].wrote \cup {new}
      /\ \A v \in Writers \ {w} : txn'[v] = txn[v]
  BY <1>2, <1>3 DEF LogIInv, TypeOK, Txn
<1>5. Pending' = Pending \cup {new}
  BY <1>4 DEF Pending
<1>. /\ new.seq = lastSeq + 1 /\ new.row = r /\ new.at = txn[w].began
     /\ new.at <= clock /\ clock <= new.at + MaxTxn
  BY <1>1 DEF LogIInv, TxnInv
<1>. HIDE DEF new
<1>6. TypeOK'
  <2>1. txn' \in [Writers -> Txn]
    BY <1>2, <1>3 DEF LogIInv, TypeOK, Txn
  <2>. QED BY <1>1, <2>1 DEF LogIInv, TypeOK, Write
<1>7. TxnInv'
  <2>1. \A v \in Writers :
          /\ txn'[v].open = txn[v].open /\ txn'[v].began = txn[v].began
          /\ ~txn[v].open => txn'[v].wrote = txn[v].wrote
    BY <1>1, <1>4
  <2>2. ASSUME NEW v \in Writers, NEW e \in txn'[v].wrote
        PROVE  e.at = txn[v].began
    <3>1. CASE v = w
      BY <1>4, <3>1 DEF LogIInv, TxnInv
    <3>2. CASE v # w
      BY <1>4, <3>2 DEF LogIInv, TxnInv
    <3>. QED BY <3>1, <3>2
  <2>. QED BY <1>1, <2>1, <2>2 DEF LogIInv, TxnInv
<1>8. LogInv'
  <2>1. \A e \in log \cup Pending :
          0 < e.seq /\ e.seq <= lastSeq /\ e.at <= clock /\ e \in Entry
    BY EntryFacts DEF LogIInv, LogInv
  <2>2. \A e, c \in log \cup Pending : e.seq <= c.seq => e.at <= c.at + MaxTxn
    BY DEF LogIInv, LogInv
  <2>3. \A e \in log' \cup Pending' : e \in log \cup Pending \/ e = new
    BY <1>1, <1>5
  <2>4. \A e \in log' \cup Pending' : 0 < e.seq /\ e.seq <= lastSeq' /\ e.at <= clock'
    BY <1>1, <2>1, <2>3 DEF Entry
  <2>5. ASSUME NEW e \in log' \cup Pending', NEW c \in log' \cup Pending', e.seq <= c.seq
        PROVE  e.at <= c.at + MaxTxn
    <3>1. CASE c = new
      BY <1>1, <1>2, <2>4, <3>1, NatAssumption, <2>1, <2>3 DEF Entry
    <3>2. CASE c # new
      BY <1>1, <2>1, <2>2, <2>3, <2>5, <3>2 DEF Entry
    <3>. QED BY <3>1, <3>2
  <2>. QED BY <2>4, <2>5 DEF LogInv
<1>9. RowInv'
  <2>1. \A s \in Rows : db'[s] <= lastSeq'
    BY <1>1 DEF LogIInv, RowInv, TypeOK
  <2>2. \A e \in Pending' : db'[e.row] < e.seq
    BY <1>1, <1>5 DEF LogIInv, RowInv, TypeOK
  <2>3. ASSUME NEW v \in Writers, NEW u \in Writers, NEW e \in txn'[v].wrote,
               NEW x \in txn'[u].wrote, e.row = x.row
        PROVE  v = u
    BY <1>1, <1>4, <2>3 DEF LogIInv, RowInv
  <2>. QED BY <1>1, <2>1, <2>2, <2>3 DEF LogIInv, RowInv
<1>. QED BY <1>1, <1>5, <1>6, <1>7, <1>8, <1>9 DEF LogIInv

\* What a commit makes of the rows: the newest entry of the transaction where
\* it wrote, and nothing new where it did not.
LEMMA CommitRows ==
  ASSUME LogIInv, NEW w \in Writers, Commit(w), NEW r \in Rows
  PROVE  /\ (\A e \in txn[w].wrote : e.row # r) => db'[r] = db[r]
         /\ (\E e \in txn[w].wrote : e.row = r) =>
              /\ \E e \in txn[w].wrote : e.row = r /\ e.seq = db'[r]
              /\ \A e \in txn[w].wrote : e.row = r => e.seq <= db'[r]
              /\ db[r] < db'[r]
         /\ db'[r] \in Nat /\ db[r] \in Nat
         /\ \A e \in txn[w].wrote : e \in Entry /\ e.at = txn[w].began
<1>1. /\ txn[w].wrote \in SUBSET Entry /\ lastSeq \in Nat /\ db \in [Rows -> Nat]
      /\ \A e \in txn[w].wrote : e.seq <= lastSeq
  BY EntryFacts DEF LogIInv, TypeOK
<1>2. db'[r] = Newest(txn[w].wrote, r, db)
  BY DEF Commit
<1>3. \A e \in txn[w].wrote : db[e.row] < e.seq
  BY EntryFacts DEF LogIInv, RowInv
<1>4. \A e \in txn[w].wrote : e.at = txn[w].began
  BY DEF LogIInv, TxnInv
<1>5. /\ (\A e \in txn[w].wrote : e.row # r) => db'[r] = db[r]
      /\ (\E e \in txn[w].wrote : e.row = r) =>
           /\ \E e \in txn[w].wrote : e.row = r /\ e.seq = db'[r]
           /\ \A e \in txn[w].wrote : e.row = r => e.seq <= db'[r]
      /\ db'[r] \in Nat
  <2>. DEFINE S == txn[w].wrote
  <2>1. S \in SUBSET Entry /\ \A e \in S : e.seq <= lastSeq
    BY <1>1
  <2>. HIDE DEF S
  <2>2. /\ (\A e \in S : e.row # r) => Newest(S, r, db) = db[r]
        /\ (\E e \in S : e.row = r) =>
             /\ \E e \in S : e.row = r /\ e.seq = Newest(S, r, db)
             /\ \A e \in S : e.row = r => e.seq <= Newest(S, r, db)
        /\ Newest(S, r, db) \in Nat
    BY <1>1, <2>1, NewestFact
  <2>. QED BY <1>2, <2>2 DEF S
<1>6. (\E e \in txn[w].wrote : e.row = r) => db[r] < db'[r]
  BY <1>3, <1>5
<1>. QED BY <1>1, <1>4, <1>5, <1>6

\* A commit moves entries from the transaction into the log.
LEMMA CommitEntries ==
  ASSUME LogIInv, NEW w \in Writers, Commit(w)
  PROVE  /\ log' = log \cup txn[w].wrote
         /\ \A v \in Writers \ {w} : txn'[v] = txn[v]
         /\ txn'[w] = NoTxn /\ txn'[w].wrote = {} /\ ~txn'[w].open
         /\ Pending' \subseteq Pending
         /\ log' \cup Pending' \subseteq log \cup Pending
         /\ \A e \in Pending' : \A x \in txn[w].wrote : e.row # x.row
         /\ clock' = clock /\ lastSeq' = lastSeq
<1>1. /\ log' = log \cup txn[w].wrote
      /\ \A v \in Writers \ {w} : txn'[v] = txn[v]
      /\ txn'[w] = NoTxn
      /\ clock' = clock /\ lastSeq' = lastSeq
  BY DEF Commit, LogIInv, TypeOK
<1>2. txn'[w].wrote = {} /\ ~txn'[w].open
  BY <1>1 DEF NoTxn
<1>3. \A e \in Pending' : \E v \in Writers \ {w} : e \in txn[v].wrote
  BY <1>1, <1>2 DEF Pending
<1>4. Pending' \subseteq Pending
  BY <1>3 DEF Pending
<1>5. \A e \in Pending' : \A x \in txn[w].wrote : e.row # x.row
  BY <1>3 DEF LogIInv, RowInv
<1>6. txn[w].wrote \subseteq Pending
  BY EntryFacts
<1>. QED BY <1>1, <1>2, <1>4, <1>5, <1>6

LEMMA CommitStep ==
  ASSUME LogIInv, NEW w \in Writers, Commit(w)
  PROVE  LogIInv'
<1>1. TypeOK'
  <2>1. db' \in [Rows -> Nat]
    <3>1. db' = [r \in Rows |-> Newest(txn[w].wrote, r, db)]
      BY DEF Commit
    <3>2. \A r \in Rows : db'[r] \in Nat
      BY CommitRows
    <3>. QED BY <3>1, <3>2
  <2>2. log' \in SUBSET Entry
    BY CommitEntries, EntryFacts
  <2>3. txn' \in [Writers -> Txn]
    BY DEF Commit, LogIInv, TypeOK, Txn, NoTxn
  <2>. QED BY <2>1, <2>2, <2>3 DEF LogIInv, TypeOK, Commit
<1>2. TxnInv'
  BY CommitEntries DEF LogIInv, TxnInv
<1>3. LogInv'
  BY CommitEntries DEF LogIInv, LogInv
<1>4. RowInv'
  <2>1. ASSUME NEW r \in Rows PROVE db'[r] <= lastSeq'
    BY CommitRows, CommitEntries, EntryFacts DEF LogIInv, RowInv
  <2>2. ASSUME NEW e \in log' PROVE e.seq <= db'[e.row]
    <3>1. e \in Entry /\ e.row \in Rows /\ e.seq \in Nat
      BY CommitEntries, EntryFacts DEF Entry
    <3>2. CASE e \in txn[w].wrote
      BY <3>1, <3>2, CommitRows
    <3>3. CASE e \in log
      <4>1. e.seq <= db[e.row]
        BY <3>3 DEF LogIInv, RowInv
      <4>2. db[e.row] <= db'[e.row]
        BY <3>1, CommitRows
      <4>. QED BY <3>1, <4>1, <4>2, CommitRows
    <3>. QED BY <3>2, <3>3, CommitEntries
  <2>3. ASSUME NEW e \in Pending' PROVE db'[e.row] < e.seq
    <3>1. e \in Pending /\ e \in Entry /\ e.row \in Rows
      BY CommitEntries, EntryFacts DEF Entry
    <3>2. db'[e.row] = db[e.row]
      BY <3>1, CommitRows, CommitEntries
    <3>. QED BY <3>1, <3>2 DEF LogIInv, RowInv
  <2>4. ASSUME NEW v \in Writers, NEW u \in Writers, NEW e \in txn'[v].wrote,
               NEW x \in txn'[u].wrote, e.row = x.row
        PROVE  v = u
    BY <2>4, CommitEntries DEF LogIInv, RowInv
  <2>5. ASSUME NEW r \in Rows
        PROVE  \/ \E e \in log' : e.row = r /\ e.seq = db'[r]
               \/ \A x \in log' : x.row = r => x.at + Retention < clock' + MaxTxn
    <3>1. CASE \E e \in txn[w].wrote : e.row = r
      BY <3>1, CommitRows, CommitEntries
    <3>2. CASE \A e \in txn[w].wrote : e.row # r
      <4>1. db'[r] = db[r] /\ \A x \in log' : x.row = r => x \in log
        BY <3>2, CommitRows, CommitEntries
      <4>. QED BY <4>1, CommitEntries DEF LogIInv, RowInv
    <3>. QED BY <3>1, <3>2
  <2>. QED BY <2>1, <2>2, <2>3, <2>4, <2>5 DEF RowInv
<1>. QED BY <1>1, <1>2, <1>3, <1>4 DEF LogIInv

\* After a commit the log is as safe to follow from a fleet as before: the new
\* entries are past its cursor, and they are too young to have been stable when
\* it was read.
LEMMA CommitCurrent ==
  ASSUME LogIInv, Timing, NEW w \in Writers, Commit(w)
  PROVE  Current \subseteq Current'
<1>. SUFFICES ASSUME NEW f \in Current
              PROVE  f \in Current'
  OBVIOUS
<1>1. /\ f \in Fleet /\ f.at <= clock /\ f.cursor <= lastSeq
      /\ f.at \in Nat /\ f.cursor \in Nat /\ f.row \in [Rows -> Nat]
      /\ \A e \in Pending : f.cursor < e.seq
      /\ \A r \in Rows : f.row[r] <= db[r] /\ Covered(f, r)
  BY DEF Current, Fleet
<1>2. ASSUME NEW r \in Rows PROVE f.row[r] <= db'[r] /\ Covered(f, r)'
  <2>1. CASE \E e \in txn[w].wrote : e.row = r
    <3>1. PICK e \in txn[w].wrote : e.row = r /\ e.seq = db'[r]
      BY <2>1, CommitRows
    <3>2. f.cursor < e.seq
      BY <1>1, EntryFacts
    <3>3. f.at <= e.at + Lag
      <4>1. clock <= e.at + MaxTxn /\ e \in Entry
        BY EntryFacts
      <4>2. clock \in Nat
        BY DEF LogIInv, TypeOK
      <4>. QED BY <1>1, <4>1, <4>2, NatAssumption DEF Timing, Entry
    <3>4. f.row[r] <= db'[r]
      BY <1>1, <2>1, CommitRows
    <3>. QED BY <3>1, <3>2, <3>3, <3>4, CommitEntries DEF Covered
  <2>2. CASE \A e \in txn[w].wrote : e.row # r
    <3>1. db'[r] = db[r] /\ \A x \in log' : x.row = r => x \in log
      BY <2>2, CommitRows, CommitEntries
    <3>2. log \subseteq log'
      BY CommitEntries
    <3>. QED BY <1>1, <3>1, <3>2 DEF Covered
  <2>. QED BY <2>1, <2>2
<1>. QED BY <1>1, <1>2, CommitEntries DEF Current

LEMMA AbortStep ==
  ASSUME LogIInv, NEW w \in Writers, Abort(w)
  PROVE  LogIInv' /\ Pending' \subseteq Pending
<1>1. /\ log' = log /\ db' = db /\ clock' = clock /\ lastSeq' = lastSeq
      /\ \A v \in Writers \ {w} : txn'[v] = txn[v]
      /\ txn'[w].wrote = {} /\ ~txn'[w].open
      /\ txn' \in [Writers -> Txn]
  BY DEF Abort, LogIInv, TypeOK, NoTxn, Txn
<1>2. Pending' \subseteq Pending
  BY <1>1 DEF Pending
<1>3. TypeOK'
  BY <1>1 DEF LogIInv, TypeOK, Abort
<1>4. TxnInv'
  BY <1>1 DEF LogIInv, TxnInv
<1>5. LogInv'
  BY <1>1, <1>2 DEF LogIInv, LogInv
<1>6. RowInv'
  BY <1>1, <1>2 DEF LogIInv, RowInv
<1>. QED BY <1>2, <1>3, <1>4, <1>5, <1>6 DEF LogIInv

\* Nothing a fleet needs depends on how many more entries there may be, nor on
\* transactions that end without a commit, nor on time.
LEMMA CurrentKept ==
  ASSUME LogIInv, log' = log, db' = db,
         clock' \in Nat, clock <= clock', lastSeq' \in Nat, lastSeq <= lastSeq',
         \A e \in Pending' : e \in Pending \/ (e.seq \in Nat /\ lastSeq < e.seq)
  PROVE  Current \subseteq Current'
<1>. SUFFICES ASSUME NEW f \in Current
              PROVE  f \in Current'
  OBVIOUS
<1>1. /\ f \in Fleet /\ f.at <= clock /\ f.cursor <= lastSeq
      /\ f.at \in Nat /\ f.cursor \in Nat
      /\ \A e \in Pending : f.cursor < e.seq
      /\ \A r \in Rows : f.row[r] <= db[r] /\ Covered(f, r)
      /\ clock \in Nat /\ lastSeq \in Nat
  BY DEF Current, Fleet, LogIInv, TypeOK
<1>2. f.at <= clock' /\ f.cursor <= lastSeq'
  BY <1>1
<1>3. ASSUME NEW e \in Pending' PROVE f.cursor < e.seq
  BY <1>1
<1>4. \A r \in Rows : f.row[r] <= db'[r] /\ Covered(f, r)'
  BY <1>1 DEF Covered
<1>. QED BY <1>1, <1>2, <1>3, <1>4 DEF Current

LEMMA TickStep ==
  ASSUME LogIInv, Tick
  PROVE  LogIInv' /\ Pending' = Pending
<1>1. /\ clock' = clock + 1 /\ clock \in Nat /\ lastSeq' = lastSeq /\ log' = log
      /\ db' = db /\ txn' = txn /\ pod' = pod
  BY DEF Tick, LogIInv, TypeOK
<1>2. Pending' = Pending
  BY <1>1 DEF Pending
<1>3. TypeOK'
  BY <1>1 DEF LogIInv, TypeOK
<1>4. TxnInv'
  <2>1. ASSUME NEW w \in Writers, txn[w].open
        PROVE  txn[w].began <= clock + 1 /\ clock + 1 <= txn[w].began + MaxTxn
    <3>1. txn[w].began \in Nat
      BY DEF LogIInv, TypeOK, Txn
    <3>2. txn[w].began <= clock /\ clock < txn[w].began + MaxTxn
      BY <2>1 DEF LogIInv, TxnInv, Tick
    <3>. QED BY <1>1, <3>1, <3>2, NatAssumption
  <2>. QED BY <1>1, <2>1 DEF LogIInv, TxnInv
<1>5. LogInv'
  <2>1. \A e \in log \cup Pending : e.at <= clock /\ e.at \in Nat
    BY EntryFacts DEF LogIInv, LogInv, Entry
  <2>. QED BY <1>1, <1>2, <2>1 DEF LogIInv, LogInv
<1>6. RowInv'
  <2>1. ASSUME NEW x \in log, x.at + Retention < clock + MaxTxn
        PROVE  x.at + Retention < clock' + MaxTxn
    BY <1>1, <2>1, NatAssumption, EntryFacts DEF Entry
  <2>. QED BY <1>1, <1>2, <2>1 DEF LogIInv, RowInv
<1>. QED BY <1>2, <1>3, <1>4, <1>5, <1>6 DEF LogIInv

\* What pruning leaves: a part of the log, and what it takes is Retention old.
LEMMA PruneEntries ==
  ASSUME LogIInv, NEW p \in Pods, Prune(p)
  PROVE  /\ log' \subseteq log
         /\ \A e \in log : e \notin log' => e.at + Retention < clock
         /\ clock' = clock /\ lastSeq' = lastSeq /\ db' = db /\ txn' = txn
         /\ Pending' = Pending
<1>1. \A e \in log : e.at \in Nat
  BY EntryFacts DEF Entry
<1>2. clock \in Nat
  BY DEF LogIInv, TypeOK
<1>3. clock' = clock /\ lastSeq' = lastSeq /\ db' = db /\ txn' = txn
  BY DEF Prune
<1>4. log' = log \/ log' = {e \in log : e.at + Retention >= clock}
  BY DEF Prune
<1>5. \A e \in log : e \notin log' => e.at + Retention < clock
  BY <1>1, <1>2, <1>4, NatAssumption
<1>. QED BY <1>3, <1>4, <1>5 DEF Pending

LEMMA PruneStep ==
  ASSUME LogIInv, NEW p \in Pods, Prune(p), pod' \in [Pods -> Pod]
  PROVE  LogIInv'
<1>1. TypeOK'
  BY PruneEntries DEF LogIInv, TypeOK
<1>2. TxnInv'
  BY PruneEntries DEF LogIInv, TxnInv
<1>3. LogInv'
  BY PruneEntries DEF LogIInv, LogInv
<1>4. RowInv'
  <2>1. ASSUME NEW r \in Rows
        PROVE  \/ \E e \in log' : e.row = r /\ e.seq = db[r]
               \/ \A x \in log' : x.row = r => x.at + Retention < clock + MaxTxn
    <3>1. CASE \E e \in log : e.row = r /\ e.seq = db[r] /\ e \notin log'
      <4>1. PICK e \in log : e.row = r /\ e.seq = db[r] /\ e \notin log'
        BY <3>1
      <4>2. e.at + Retention < clock /\ e.at \in Nat /\ clock \in Nat
        BY <4>1, PruneEntries, EntryFacts DEF Entry, LogIInv, TypeOK
      <4>3. ASSUME NEW x \in log', x.row = r
            PROVE  x.at + Retention < clock + MaxTxn
        <5>1. x \in log /\ x.at \in Nat
          BY PruneEntries, EntryFacts DEF Entry
        <5>2. x.seq <= e.seq
          BY <4>1, <4>3, <5>1 DEF LogIInv, RowInv
        <5>3. x.at <= e.at + MaxTxn
          BY <4>1, <5>1, <5>2 DEF LogIInv, LogInv
        <5>. QED BY <4>2, <5>1, <5>3, NatAssumption
      <4>. QED BY <4>3
    <3>2. CASE \A e \in log : e.row = r /\ e.seq = db[r] => e \in log'
      BY <3>2, PruneEntries DEF LogIInv, RowInv
    <3>. QED BY <3>1, <3>2
  <2>. QED BY <2>1, PruneEntries DEF LogIInv, RowInv
<1>. QED BY <1>1, <1>2, <1>3, <1>4 DEF LogIInv

\* Pruning takes nothing from a fleet that was read recently: what it takes was
\* stable by then, so the cursor is past it and the fleet has the row's content.
LEMMA PruneCurrent ==
  ASSUME LogIInv, Timing, NEW p \in Pods, Prune(p), NEW f \in Current,
         clock <= f.at + MaxBehind
  PROVE  f \in Current'
<1>1. /\ f \in Fleet /\ f.at <= clock /\ f.cursor <= lastSeq
      /\ f.at \in Nat /\ f.cursor \in Nat
      /\ \A e \in Pending : f.cursor < e.seq
      /\ \A r \in Rows : f.row[r] <= db[r] /\ Covered(f, r)
      /\ clock \in Nat
  BY DEF Current, Fleet, LogIInv, TypeOK
<1>2. ASSUME NEW r \in Rows PROVE Covered(f, r)'
  <2>1. CASE \E e \in log : /\ e.row = r /\ e.seq = db[r]
                            /\ f.row[r] = db[r] \/ f.cursor < e.seq
                            /\ f.at <= e.at + Lag \/ e.seq <= f.cursor
    <3>1. PICK e \in log : /\ e.row = r /\ e.seq = db[r]
                           /\ f.row[r] = db[r] \/ f.cursor < e.seq
                           /\ f.at <= e.at + Lag \/ e.seq <= f.cursor
      BY <2>1
    <3>2. CASE e \in log'
      BY <3>1, <3>2, PruneEntries DEF Covered
    <3>3. CASE e \notin log'
      <4>1. e.at + Retention < clock /\ e \in Entry /\ e.at \in Nat /\ e.seq \in Nat
        BY <3>3, PruneEntries, EntryFacts DEF Entry
      <4>2. ~(f.at <= e.at + Lag)
        BY <1>1, <4>1, NatAssumption DEF Timing
      <4>3. e.seq <= f.cursor /\ f.row[r] = db[r]
        BY <1>1, <3>1, <4>1, <4>2
      <4>4. ASSUME NEW x \in log', x.row = r PROVE x.seq <= f.cursor
        <5>1. x \in log /\ x.seq \in Nat
          BY PruneEntries, EntryFacts DEF Entry
        <5>2. x.seq <= e.seq
          BY <3>1, <4>4, <5>1 DEF LogIInv, RowInv
        <5>. QED BY <1>1, <4>1, <4>3, <5>1, <5>2
      <4>. QED BY <4>3, <4>4, PruneEntries DEF Covered
    <3>. QED BY <3>2, <3>3
  <2>2. CASE f.row[r] = db[r] /\ \A x \in log : x.row = r => x.seq <= f.cursor
    BY <2>2, PruneEntries DEF Covered
  <2>. QED BY <1>1, <2>1, <2>2 DEF Covered
<1>. QED BY <1>1, <1>2, PruneEntries DEF Current

-----------------------------------------------------------------------------
(* Pods *)

\* A snapshot is safe to follow the log from.
LEMMA SnapshotCurrent ==
  ASSUME LogIInv, Timing
  PROVE  [row |-> db, cursor |-> Max(Stable(log) \cup {0}), at |-> clock] \in Current
<1>. DEFINE c == Max(Stable(log) \cup {0})
            f == [row |-> db, cursor |-> c, at |-> clock]
<1>1. /\ log \in SUBSET Entry /\ lastSeq \in Nat /\ clock \in Nat /\ db \in [Rows -> Nat]
      /\ \A e \in log : e.seq <= lastSeq
  BY EntryFacts DEF LogIInv, TypeOK
<1>2. /\ c \in Nat /\ c <= lastSeq
      /\ \A e \in log : e.at + Lag < clock => e.seq <= c
      /\ c = 0 \/ \E e \in log : e.seq = c /\ e.at + Lag < clock
  <2>1. PICK z \in Nat : z = 0
    OBVIOUS
  <2>2. z <= lastSeq
    BY <1>1, <2>1
  <2>. QED BY <1>1, <2>1, <2>2, CursorFact
<1>. HIDE DEF c
<1>3. f \in Fleet /\ f.row = db /\ f.cursor = c /\ f.at = clock
  BY <1>1, <1>2 DEF Fleet
<1>. HIDE DEF f
<1>4. ASSUME NEW e \in Pending PROVE c < e.seq
  <2>1. e \in Entry /\ clock <= e.at + MaxTxn /\ e.seq \in Nat /\ e.at \in Nat /\ 0 < e.seq
    BY EntryFacts DEF Entry, LogIInv, LogInv
  <2>2. ASSUME NEW x \in log, x.seq = c, x.at + Lag < clock, e.seq <= c
        PROVE  FALSE
    <3>1. e.at <= x.at + MaxTxn /\ x.at \in Nat
      BY <2>2, <1>1 DEF LogIInv, LogInv, Entry
    <3>. QED BY <1>1, <2>1, <2>2, <3>1, NatAssumption DEF Timing
  <2>. QED BY <1>2, <2>1, <2>2
<1>5. ASSUME NEW r \in Rows PROVE Covered(f, r)
  <2>1. CASE \E e \in log : e.row = r /\ e.seq = db[r]
    <3>1. PICK e \in log : e.row = r /\ e.seq = db[r]
      BY <2>1
    <3>2. f.at <= e.at + Lag \/ e.seq <= f.cursor
      BY <1>1, <1>2, <1>3, NatAssumption DEF Entry
    <3>. QED BY <1>3, <3>1, <3>2 DEF Covered
  <2>2. CASE \A x \in log : x.row = r => x.at + Retention < clock + MaxTxn
    <3>1. ASSUME NEW x \in log, x.row = r PROVE x.seq <= c
      <4>1. x.at + Lag < clock
        BY <1>1, <2>2, <3>1, NatAssumption DEF Timing, Entry
      <4>. QED BY <1>2, <4>1
    <3>. QED BY <1>3, <3>1 DEF Covered
  <2>. QED BY <2>1, <2>2 DEF LogIInv, RowInv
<1>6. \A r \in Rows : f.row[r] <= db[r]
  BY <1>1, <1>3
<1>7. f \in Current
  BY <1>1, <1>2, <1>3, <1>4, <1>5, <1>6 DEF Current
<1>. QED BY <1>7 DEF f, c

\* A pull makes a fleet equal to the database, and safe to pull from again.
LEMMA PullCurrent ==
  ASSUME LogIInv, Timing, NEW old \in Current
  PROVE  LET batch == {e \in log : e.seq > old.cursor}
             f == [row |-> [r \in Rows |-> Newest(batch, r, old.row)],
                   cursor |-> Max(Stable(batch) \cup {old.cursor}),
                   at |-> clock]
         IN  f \in Current /\ f.row = db
<1>. DEFINE batch == {e \in log : e.seq > old.cursor}
            c == Max(Stable(batch) \cup {old.cursor})
            f == [row |-> [r \in Rows |-> Newest(batch, r, old.row)],
                  cursor |-> c, at |-> clock]
<1>1. /\ batch \in SUBSET Entry /\ lastSeq \in Nat /\ clock \in Nat
      /\ db \in [Rows -> Nat] /\ \A e \in batch : e.seq <= lastSeq
      /\ log \in SUBSET Entry /\ batch \subseteq log
  BY EntryFacts DEF LogIInv, TypeOK
<1>2. /\ old \in Fleet /\ old.cursor <= lastSeq
      /\ old.cursor \in Nat /\ old.row \in [Rows -> Nat]
      /\ \A e \in Pending : old.cursor < e.seq
      /\ \A r \in Rows : Covered(old, r)
  BY DEF Current, Fleet
<1>3. /\ c \in Nat /\ c <= lastSeq /\ old.cursor <= c
      /\ \A e \in batch : e.at + Lag < clock => e.seq <= c
      /\ c = old.cursor \/ \E e \in batch : e.seq = c /\ e.at + Lag < clock
  <2>. HIDE DEF batch
  <2>. QED BY <1>1, <1>2, CursorFact
<1>4. ASSUME NEW r \in Rows PROVE Newest(batch, r, old.row) = db[r]
  <2>1. /\ (\A e \in batch : e.row # r) => Newest(batch, r, old.row) = old.row[r]
        /\ (\E e \in batch : e.row = r) =>
             /\ \E e \in batch : e.row = r /\ e.seq = Newest(batch, r, old.row)
             /\ \A e \in batch : e.row = r => e.seq <= Newest(batch, r, old.row)
        /\ Newest(batch, r, old.row) \in Nat
    <3>. HIDE DEF batch
    <3>. QED BY <1>1, <1>2, NewestFact
  <2>2. \A e \in log : e.seq \in Nat /\ (e.row = r => e.seq <= db[r])
    BY <1>1 DEF LogIInv, RowInv, Entry
  <2>3. CASE \E e \in batch : e.row = r /\ e.seq = db[r]
    BY <1>1, <2>1, <2>2, <2>3
  <2>4. CASE ~\E e \in batch : e.row = r /\ e.seq = db[r]
    <3>1. old.row[r] = db[r]
      BY <1>2, <2>4 DEF Covered
    <3>2. ASSUME NEW x \in log, x.row = r PROVE ~(x.seq > old.cursor)
      <4>1. CASE \A y \in log : y.row = r => y.seq <= old.cursor
        BY <1>2, <2>2, <3>2, <4>1
      <4>2. CASE \E y \in log : y.row = r /\ y.seq = db[r]
        <5>1. PICK y \in log : y.row = r /\ y.seq = db[r]
          BY <4>2
        <5>2. ~(y.seq > old.cursor)
          BY <2>4, <5>1
        <5>. QED BY <1>2, <2>2, <3>2, <5>1, <5>2
      <4>. QED BY <1>2, <4>1, <4>2 DEF Covered
    <3>. QED BY <2>1, <3>1, <3>2
  <2>. QED BY <2>3, <2>4
<1>5. f.row = db /\ f.cursor = c /\ f.at = clock /\ f \in Fleet
  <2>1. [r \in Rows |-> Newest(batch, r, old.row)] = db
    BY <1>1, <1>4
  <2>. HIDE DEF c
  <2>. QED BY <1>1, <1>3, <2>1 DEF Fleet
<1>. HIDE DEF c, f
<1>6. ASSUME NEW e \in Pending PROVE c < e.seq
  <2>1. e \in Entry /\ clock <= e.at + MaxTxn /\ e.seq \in Nat /\ e.at \in Nat
    BY EntryFacts DEF Entry
  <2>2. ASSUME NEW x \in batch, x.seq = c, x.at + Lag < clock, e.seq <= c
        PROVE  FALSE
    <3>1. e.at <= x.at + MaxTxn /\ x.at \in Nat
      BY <2>2, <1>1 DEF LogIInv, LogInv, Entry
    <3>. QED BY <1>1, <2>1, <2>2, <3>1, NatAssumption DEF Timing
  <2>. HIDE DEF batch
  <2>. QED BY <1>2, <1>3, <2>1, <2>2
<1>7. ASSUME NEW r \in Rows PROVE Covered(f, r)
  <2>1. CASE \E e \in log : e.row = r /\ e.seq = db[r]
    <3>1. PICK e \in log : e.row = r /\ e.seq = db[r]
      BY <2>1
    <3>2. e.at \in Nat /\ e.seq \in Nat
      BY <1>1 DEF Entry
    <3>3. clock <= e.at + Lag \/ e.seq <= c
      BY <1>1, <1>2, <1>3, <3>2, NatAssumption
    <3>. QED BY <1>5, <3>1, <3>3 DEF Covered
  <2>2. CASE ~\E e \in log : e.row = r /\ e.seq = db[r]
    <3>1. \A x \in log : x.row = r => x.seq <= old.cursor
      BY <1>2, <2>2 DEF Covered
    <3>2. \A x \in log : x.row = r => x.seq <= c
      BY <1>1, <1>2, <1>3, <3>1 DEF Entry
    <3>. QED BY <1>5, <3>2 DEF Covered
  <2>. QED BY <2>1, <2>2
<1>8. \A r \in Rows : f.row[r] <= db[r]
  BY <1>1, <1>5
<1>9. f \in Current
  BY <1>1, <1>3, <1>5, <1>6, <1>7, <1>8 DEF Current
<1>. QED BY <1>5, <1>9 DEF f, c

\* A pod's step that leaves the database alone, and puts the pod in a state
\* that is sound, keeps the invariant.
LEMMA PodMoved ==
  ASSUME IInv, UNCHANGED <<clock, lastSeq, log, db, txn>>,
         NEW p \in Pods, NEW x \in Sound, pod' = [pod EXCEPT ![p] = x]
  PROVE  IInv'
<1>1. x \in Pod /\ pod \in [Pods -> Pod]
  BY DEF Sound, IInv, LogIInv, TypeOK
<1>2. pod' \in [Pods -> Pod] /\ pod'[p] = x /\ \A q \in Pods \ {p} : pod'[q] = pod[q]
  BY <1>1
<1>3. Pending' = Pending
  BY DEF Pending
<1>4. Current' = Current
  BY <1>3 DEF Current, Covered
<1>5. Sound' = Sound
  BY <1>4 DEF Sound
<1>6. PodInv'
  BY <1>2, <1>5 DEF IInv, PodInv
<1>7. TypeOK'
  BY <1>2 DEF IInv, LogIInv, TypeOK
<1>8. TxnInv' /\ LogInv' /\ RowInv'
  BY <1>3 DEF IInv, LogIInv, TxnInv, LogInv, RowInv
<1>. QED BY <1>6, <1>7, <1>8 DEF IInv, LogIInv

\* What the invariant says of one pod.
LEMMA PodFacts ==
  ASSUME IInv, NEW p \in Pods
  PROVE  /\ pod[p] \in Pod /\ pod[p].fleet \in Fleet /\ pod[p].read \in Fleet
         /\ pod[p].pc = "starting" => clock <= pod[p].read.at + MaxBehind
         /\ Serving(p) => /\ clock <= pod[p].fleet.at + MaxBehind
                          /\ pod[p].fleet \in Current
         /\ pod[p].pc \in {"starting", "apply", "rebuilding"} => pod[p].read \in Current
         /\ pod[p].pc \in {"apply", "rebuilding"} =>
              /\ pod[p].fleet.at <= pod[p].read.at
              /\ \A r \in Rows : pod[p].fleet.row[r] <= pod[p].read.row[r]
         /\ pod \in [Pods -> Pod]
  BY DEF IInv, PodInv, Sound, Serving, Pod, LogIInv, TypeOK

\* A fleet that is current is no newer than the database.
LEMMA CurrentFacts ==
  ASSUME IInv, NEW f \in Current
  PROVE  /\ f \in Fleet /\ f.at <= clock /\ f.at \in Nat /\ clock \in Nat
         /\ \A r \in Rows : f.row[r] <= db[r]
  BY DEF Current, Fleet, IInv, LogIInv, TypeOK

LEMMA NoFleetTyped == NoFleet \in Fleet
  BY DEF NoFleet, Fleet

LEMMA SnapshotStep ==
  ASSUME IInv, Timing, NEW p \in Pods, Snapshot(p)
  PROVE  IInv'
<1>. DEFINE f == [row |-> db, cursor |-> Max(Stable(log) \cup {0}), at |-> clock]
            x == [pc |-> IF pod[p].pc = "down" THEN "starting" ELSE "rebuilding",
                  fleet |-> pod[p].fleet, read |-> f]
<1>1. f \in Current
  BY SnapshotCurrent DEF IInv
<1>2. f.row = db /\ f.at = clock
  OBVIOUS
<1>3. pod' = [pod EXCEPT ![p] = x]
  BY PodFacts DEF Snapshot
<1>. HIDE DEF f
<1>4. x \in Pod
  BY <1>1, PodFacts, CurrentFacts DEF Pod
<1>5. clock \in Nat /\ f.at \in Nat /\ clock <= f.at + MaxBehind
  BY <1>1, <1>2, CurrentFacts, NatAssumption
<1>6. x \in Sound
  <2>1. CASE pod[p].pc = "down"
    <3>1. x.pc = "starting" /\ x.read = f
      BY <2>1
    <3>. HIDE DEF x
    <3>. QED BY <1>1, <1>4, <1>5, <3>1 DEF Sound
  <2>2. CASE pod[p].pc = "failed"
    <3>1. x.pc = "rebuilding" /\ x.read = f /\ x.fleet = pod[p].fleet
      BY <2>2
    <3>2. clock <= x.fleet.at + MaxBehind /\ x.fleet \in Current
      BY <2>2, <3>1, PodFacts DEF Serving
    <3>3. x.fleet.at <= f.at /\ \A r \in Rows : x.fleet.row[r] <= f.row[r]
      BY <1>2, <3>2, CurrentFacts
    <3>. HIDE DEF x
    <3>. QED BY <1>1, <1>4, <3>1, <3>2, <3>3 DEF Sound
  <2>. QED BY <2>1, <2>2 DEF Snapshot
<1>. HIDE DEF x
<1>. QED BY <1>3, <1>6, PodMoved DEF Snapshot

LEMMA PullStep ==
  ASSUME IInv, Timing, NEW p \in Pods, Pull(p)
  PROVE  IInv'
<1>. DEFINE old == pod[p].fleet
            batch == {e \in log : e.seq > old.cursor}
            f == [row |-> [r \in Rows |-> Newest(batch, r, old.row)],
                  cursor |-> Max(Stable(batch) \cup {old.cursor}),
                  at |-> clock]
            x == [pc |-> "apply", fleet |-> old, read |-> f]
<1>1. old \in Current /\ clock <= old.at + MaxBehind
  BY PodFacts DEF Pull, Serving
<1>2. f.at = clock /\ f \in Current /\ f.row = db
  BY <1>1, PullCurrent DEF IInv
<1>3. pod' = [pod EXCEPT ![p] = x]
  BY DEF Pull
<1>. HIDE DEF f
<1>4. x \in Pod /\ x.pc = "apply" /\ x.fleet = old /\ x.read = f
  BY <1>1, <1>2, CurrentFacts DEF Pod
<1>5. old.at <= f.at /\ \A r \in Rows : old.row[r] <= f.row[r]
  BY <1>1, <1>2, CurrentFacts
<1>. HIDE DEF x, old
<1>6. x \in Sound
  BY <1>1, <1>2, <1>4, <1>5 DEF Sound
<1>. QED BY <1>3, <1>6, PodMoved DEF Pull

LEMMA InstallStep ==
  ASSUME IInv, NEW p \in Pods, Install(p)
  PROVE  /\ IInv'
         /\ Serving(p) => \A r \in Rows : pod[p].fleet.row[r] <= pod'[p].fleet.row[r]
         /\ \A q \in Pods \ {p} : pod'[q] = pod[q]
<1>. DEFINE x == [pc |-> IF pod[p].pc = "apply" THEN "pulled" ELSE "pull",
                  fleet |-> pod[p].read, read |-> NoFleet]
<1>1. pod' = [pod EXCEPT ![p] = x]
  BY PodFacts DEF Install
<1>2. x \in Pod /\ x.pc \in {"pulled", "pull"} /\ x.fleet = pod[p].read
  BY PodFacts, NoFleetTyped DEF Pod
<1>3. pod[p].read \in Current /\ pod[p].read.at \in Nat /\ clock \in Nat
  BY PodFacts, CurrentFacts DEF Install
<1>4. clock <= pod[p].read.at + MaxBehind
  <2>1. CASE pod[p].pc = "starting"
    BY <2>1, PodFacts
  <2>2. CASE pod[p].pc \in {"apply", "rebuilding"}
    <3>1. /\ clock <= pod[p].fleet.at + MaxBehind /\ pod[p].fleet.at <= pod[p].read.at
          /\ pod[p].fleet.at \in Nat
      BY <2>2, PodFacts DEF Serving, Fleet
    <3>. QED BY <1>3, <3>1, NatAssumption
  <2>. QED BY <2>1, <2>2 DEF Install
<1>. HIDE DEF x
<1>5. x \in Sound
  BY <1>2, <1>3, <1>4 DEF Sound
<1>6. IInv'
  BY <1>1, <1>5, PodMoved DEF Install
<1>7. pod'[p] = x /\ \A q \in Pods \ {p} : pod'[q] = pod[q]
  BY <1>1, PodFacts
<1>8. Serving(p) => \A r \in Rows : pod[p].fleet.row[r] <= pod'[p].fleet.row[r]
  BY <1>2, <1>7, PodFacts DEF Serving, Install
<1>. QED BY <1>6, <1>7, <1>8

\* The steps of the loop that read nothing and serve nothing new.
LEMMA LoopStep ==
  ASSUME IInv, NEW p \in Pods, Wake(p) \/ Fail(p) \/ RebuildFail(p) \/ Crash(p)
  PROVE  IInv'
<1>1. CASE Wake(p) \/ Fail(p)
  <2>. DEFINE x == [pod[p] EXCEPT !.pc = IF Wake(p) THEN "pull" ELSE "failed"]
  <2>1. pod' = [pod EXCEPT ![p] = x] /\ UNCHANGED <<clock, lastSeq, log, db, txn>>
    BY <1>1, PodFacts DEF Wake, Fail, Advance
  <2>2. x \in Pod /\ x.pc \in {"pull", "failed"} /\ x.fleet = pod[p].fleet
    BY PodFacts DEF Pod
  <2>3. pod[p].fleet \in Current /\ clock <= pod[p].fleet.at + MaxBehind
    BY <1>1, PodFacts DEF Wake, Fail, Serving
  <2>. HIDE DEF x
  <2>4. x \in Sound
    BY <2>2, <2>3 DEF Sound
  <2>. QED BY <2>1, <2>4, PodMoved
<1>2. CASE RebuildFail(p)
  <2>. DEFINE x == [pc |-> "pull", fleet |-> pod[p].fleet, read |-> NoFleet]
  <2>1. pod' = [pod EXCEPT ![p] = x] /\ UNCHANGED <<clock, lastSeq, log, db, txn>>
    BY <1>2 DEF RebuildFail
  <2>2. x \in Pod /\ x.pc = "pull" /\ x.fleet = pod[p].fleet
    BY PodFacts, NoFleetTyped DEF Pod
  <2>3. pod[p].fleet \in Current /\ clock <= pod[p].fleet.at + MaxBehind
    BY <1>2, PodFacts DEF RebuildFail, Serving
  <2>. HIDE DEF x
  <2>4. x \in Sound
    BY <2>2, <2>3 DEF Sound
  <2>. QED BY <2>1, <2>4, PodMoved
<1>3. CASE Crash(p)
  <2>. DEFINE x == [pc |-> "down", fleet |-> NoFleet, read |-> NoFleet]
  <2>1. pod' = [pod EXCEPT ![p] = x] /\ UNCHANGED <<clock, lastSeq, log, db, txn>>
    BY <1>3 DEF Crash
  <2>2. x \in Pod /\ x.pc = "down"
    BY NoFleetTyped DEF Pod
  <2>. HIDE DEF x
  <2>3. x \in Sound
    BY <2>2 DEF Sound
  <2>. QED BY <2>1, <2>3, PodMoved
<1>. QED BY <1>1, <1>2, <1>3

\* Every pod that runs has read within MaxBehind, so pruning is safe for all of
\* them, whichever prunes.
LEMMA PruneIInv ==
  ASSUME IInv, Timing, NEW p \in Pods, Prune(p)
  PROVE  IInv'
<1>1. LogIInv
  BY DEF IInv
<1>2. /\ pod' = [pod EXCEPT ![p].pc = "wait"] /\ pod[p].pc = "pulled"
      /\ pod' \in [Pods -> Pod] /\ \A q \in Pods \ {p} : pod'[q] = pod[q]
      /\ pod'[p].pc = "wait" /\ pod'[p].fleet = pod[p].fleet
  BY PodFacts DEF Prune, Advance, Pod
<1>3. LogIInv' /\ clock' = clock
  BY <1>1, <1>2, PruneStep, PruneEntries
<1>4. ASSUME NEW q \in Pods PROVE pod'[q] \in Sound'
  <2>1. Serving(q) => pod[q].fleet \in Current'
    BY <1>1, PodFacts, PruneCurrent
  <2>2. pod[q].pc \in {"apply", "rebuilding", "starting"} => pod[q].read \in Current'
    <3>1. CASE pod[q].pc = "starting"
      BY <1>1, <3>1, PodFacts, PruneCurrent
    <3>2. CASE pod[q].pc \in {"apply", "rebuilding"}
      <4>1. /\ clock <= pod[q].fleet.at + MaxBehind /\ pod[q].fleet.at <= pod[q].read.at
            /\ pod[q].fleet.at \in Nat /\ pod[q].read.at \in Nat /\ clock \in Nat
            /\ pod[q].read \in Current
        BY <3>2, PodFacts DEF Serving, Fleet, IInv, LogIInv, TypeOK
      <4>2. clock <= pod[q].read.at + MaxBehind
        BY <4>1, NatAssumption
      <4>. QED BY <1>1, <4>1, <4>2, PruneCurrent
    <3>. QED BY <3>1, <3>2
  <2>3. CASE q = p
    BY <1>2, <1>3, <2>1, <2>3, PodFacts DEF Sound, Serving
  <2>4. CASE q # p
    BY <1>2, <1>3, <2>1, <2>2, <2>4, PodFacts DEF Sound, Serving
  <2>. QED BY <2>3, <2>4
<1>. QED BY <1>3, <1>4 DEF IInv, PodInv

-----------------------------------------------------------------------------
(* The specification *)

LEMMA WriterIInv ==
  ASSUME IInv, Timing, NEW w \in Writers, WriterStep(w)
  PROVE  IInv' /\ pod' = pod
<1>1. LogIInv /\ pod' = pod /\ clock' = clock
  BY DEF IInv, WriterStep, Begin, Write, Commit, Abort
<1>2. clock \in Nat /\ lastSeq \in Nat /\ clock <= clock /\ lastSeq <= lastSeq
  BY DEF IInv, LogIInv, TypeOK
<1>3. LogIInv' /\ Current \subseteq Current'
  <2>1. CASE Begin(w)
    <3>1. LogIInv' /\ Pending' = Pending /\ log' = log /\ db' = db /\ lastSeq' = lastSeq
      BY <1>1, <2>1, BeginStep DEF Begin
    <3>. QED BY <1>1, <1>2, <3>1, CurrentKept
  <2>2. CASE Commit(w)
    BY <1>1, <2>2, CommitStep, CommitCurrent
  <2>3. CASE Abort(w)
    <3>1. /\ LogIInv' /\ Pending' \subseteq Pending
          /\ log' = log /\ db' = db /\ lastSeq' = lastSeq
      BY <1>1, <2>3, AbortStep DEF Abort
    <3>. QED BY <1>1, <1>2, <3>1, CurrentKept
  <2>4. ASSUME NEW r \in Rows, Write(w, r)
        PROVE  LogIInv' /\ Current \subseteq Current'
    <3>1. /\ LogIInv'
          /\ \A e \in Pending' : e \in Pending \/ (e.seq \in Nat /\ lastSeq < e.seq)
      BY <1>1, <2>4, WriteStep
    <3>2. /\ log' = log /\ db' = db /\ clock \in Nat /\ lastSeq \in Nat
          /\ lastSeq' = lastSeq + 1
      BY <1>1, <2>4 DEF Write, LogIInv, TypeOK
    <3>3. clock' \in Nat /\ clock <= clock' /\ lastSeq' \in Nat /\ lastSeq <= lastSeq'
      BY <1>1, <3>2
    <3>. QED BY <1>1, <3>1, <3>2, <3>3, CurrentKept
  <2>. QED BY <2>1, <2>2, <2>3, <2>4 DEF WriterStep
<1>4. PodInv'
  BY <1>1, <1>3 DEF IInv, PodInv, Sound
<1>. QED BY <1>1, <1>3, <1>4 DEF IInv

LEMMA TickIInv ==
  ASSUME IInv, Tick
  PROVE  IInv' /\ pod' = pod
<1>1. /\ LogIInv /\ LogIInv' /\ Pending' = Pending /\ pod' = pod
      /\ log' = log /\ db' = db /\ lastSeq' = lastSeq /\ clock' = clock + 1
      /\ clock \in Nat /\ lastSeq \in Nat
  BY TickStep DEF IInv, Tick, LogIInv, TypeOK
<1>2. Current \subseteq Current'
  BY <1>1, CurrentKept
<1>3. ASSUME NEW p \in Pods PROVE pod[p] \in Sound'
  <2>1. pod[p].fleet.at \in Nat /\ pod[p].read.at \in Nat
    BY PodFacts DEF Fleet
  <2>2. pod[p].pc # "down" => clock < ReadAt(p) + MaxBehind
    BY DEF Tick
  <2>3. pod[p].pc = "starting" => clock' <= pod[p].read.at + MaxBehind
    BY <1>1, <2>1, <2>2, NatAssumption DEF ReadAt
  <2>4. pod[p].pc \notin {"down", "starting"} => clock' <= pod[p].fleet.at + MaxBehind
    BY <1>1, <2>1, <2>2, NatAssumption DEF ReadAt
  <2>. QED BY <1>2, <2>3, <2>4 DEF IInv, PodInv, Sound
<1>. QED BY <1>1, <1>3 DEF IInv, PodInv

LEMMA InitIInv == Init => IInv
<1>. SUFFICES ASSUME Init PROVE IInv
  OBVIOUS
<1>1. TypeOK
  BY NoFleetTyped DEF Init, TypeOK, Pod, Txn, NoTxn
<1>2. Pending = {}
  BY DEF Init, Pending, NoTxn
<1>3. TxnInv /\ LogInv /\ RowInv
  BY <1>2 DEF Init, TxnInv, LogInv, RowInv, NoTxn
<1>4. PodInv
  BY NoFleetTyped DEF Init, PodInv, Sound, Pod
<1>. QED BY <1>1, <1>3, <1>4 DEF IInv, LogIInv

LEMMA NextIInv ==
  ASSUME IInv, Timing, [Next]_vars
  PROVE  IInv'
<1>1. ASSUME NEW w \in Writers, WriterStep(w) PROVE IInv'
  BY <1>1, WriterIInv
<1>2. ASSUME NEW p \in Pods, PodStep(p) PROVE IInv'
  BY <1>2, SnapshotStep, PullStep, InstallStep, PruneIInv, LoopStep DEF PodStep
<1>3. CASE Tick
  BY <1>3, TickIInv
<1>4. CASE UNCHANGED vars
  <2>1. Pending' = Pending
    BY <1>4 DEF vars, Pending
  <2>2. Current' = Current
    BY <1>4, <2>1 DEF vars, Current, Covered
  <2>3. Sound' = Sound
    BY <1>4, <2>2 DEF vars, Sound
  <2>. QED BY <1>4, <2>1, <2>3
           DEF vars, IInv, LogIInv, TypeOK, TxnInv, LogInv, RowInv, PodInv
<1>. QED BY <1>1, <1>2, <1>3, <1>4 DEF Next

THEOREM Invariance ==
  ASSUME Timing
  PROVE  Spec => []IInv
<1>1. Init => IInv
  BY InitIInv
<1>2. IInv /\ [Next]_vars => IInv'
  BY NextIInv
<1>. QED BY <1>1, <1>2, PTL DEF Spec

\* The clock, the log, the transactions and what the pods hold have their
\* types: in particular the newest entry of a commit and the cursor a read
\* leads to always exist.
THEOREM TypeCorrect ==
  ASSUME Timing
  PROVE  Spec => []TypeOK
<1>1. IInv => TypeOK
  BY DEF IInv, LogIInv
<1>. QED BY <1>1, Invariance, PTL

\* For every setting that satisfies Timing, a pod that follows the log serves
\* the committed content of a row or will still read the entry that has it.
THEOREM NothingSkippedAlways ==
  ASSUME Timing
  PROVE  Spec => []NothingSkipped
<1>1. ASSUME IInv PROVE NothingSkipped
  <2>1. ASSUME NEW p \in Pods, NEW r \in Rows, Following(p),
               pod[p].fleet.row[r] # db[r]
        PROVE  \E e \in log : /\ e.row = r /\ e.seq = db[r]
                              /\ e.seq > pod[p].fleet.cursor
    <3>1. pod[p].fleet \in Current /\ pod[p].fleet.cursor \in Nat
      BY <1>1, <2>1, PodFacts DEF Following, Serving, Fleet
    <3>2. Covered(pod[p].fleet, r)
      BY <3>1 DEF Current
    <3>3. \A e \in log : e.seq \in Nat
      BY <1>1, EntryFacts DEF Entry, IInv
    <3>. QED BY <2>1, <3>1, <3>2, <3>3 DEF Covered
  <2>. QED BY <2>1 DEF NothingSkipped
<1>. QED BY <1>1, Invariance, PTL

\* For every setting that satisfies Timing, no step takes a row a pod serves
\* back to an older content, whatever is re-delivered or pruned.
THEOREM NeverBackInTimeAlways ==
  ASSUME Timing
  PROVE  Spec => NeverBackInTime
<1>. DEFINE Forward == \A p \in Pods, r \in Rows :
               Serving(p) /\ Serving(p)'
               => pod'[p].fleet.row[r] >= pod[p].fleet.row[r]
<1>1. ASSUME IInv, [Next]_vars PROVE [Forward]_vars
  <2>1. \A p \in Pods, r \in Rows : pod[p].fleet.row[r] \in Nat
    BY <1>1, PodFacts DEF Fleet
  <2>2. ASSUME \A p \in Pods : Serving(p)' => pod'[p].fleet = pod[p].fleet
        PROVE  Forward
    BY <2>1, <2>2
  <2>3. ASSUME NEW q \in Pods, PodStep(q) PROVE Forward
    <3>1. CASE Install(q)
      BY <1>1, <2>1, <3>1, InstallStep
    <3>2. CASE Snapshot(q)
      BY <1>1, <2>2, <3>2, PodFacts DEF Snapshot
    <3>3. CASE Pull(q)
      BY <1>1, <2>2, <3>3, PodFacts DEF Pull
    <3>4. CASE Wake(q) \/ Prune(q) \/ Fail(q)
      <4>1. PICK pc : pod' = [pod EXCEPT ![q].pc = pc]
        BY <3>4 DEF Wake, Prune, Fail, Advance
      <4>2. ASSUME NEW p \in Pods PROVE pod'[p].fleet = pod[p].fleet
        BY <1>1, <4>1, PodFacts DEF Pod
      <4>. QED BY <2>2, <4>2
    <3>5. CASE RebuildFail(q)
      BY <1>1, <2>2, <3>5, PodFacts DEF RebuildFail
    <3>6. CASE Crash(q)
      BY <1>1, <2>2, <3>6, PodFacts DEF Crash, Serving
    <3>. QED BY <2>3, <3>1, <3>2, <3>3, <3>4, <3>5, <3>6 DEF PodStep
  <2>4. CASE pod' = pod
    BY <2>2, <2>4
  <2>5. ASSUME NEW w \in Writers, WriterStep(w) PROVE pod' = pod
    BY <2>5 DEF WriterStep, Begin, Write, Commit, Abort
  <2>6. Tick \/ UNCHANGED vars => pod' = pod
    BY DEF Tick, vars
  <2>. QED BY <1>1, <2>3, <2>4, <2>5, <2>6 DEF Next
<1>2. Spec => [][Forward]_vars
  BY <1>1, Invariance, PTL DEF Spec
<1>. QED BY <1>2 DEF NeverBackInTime

=============================================================================
