-------------------------- MODULE FleetSearchProofs --------------------------
(***************************************************************************)
(* What a search finds is what the tables have free, proved from the       *)
(* invariant of FleetModelProofs and from what the log past the cursor     *)
(* accounts for.                                                           *)
(***************************************************************************)
EXTENDS FleetModelProofs

-----------------------------------------------------------------------------
(* The inductive invariant *)

\* Rows, whichever table they are of.
RowTables == {"car", "reservation", "recurrence"}
HeldTables == {"reservation", "recurrence"}

Rows(d, h) == IF h = "car" THEN d.cars ELSE IF h = "reservation" THEN d.resv ELSE d.recs

Of(e, h, x) == e.table = h /\ e.id = x

\* The entries from lo + 1 to hi say nothing of a row.
Silent(l, h, x, lo, hi) == \A i \in lo + 1 .. hi : ~Of(l[i], h, x)

Inserts(e, c) == OfCar(e, c) /\ e.op = "INSERT"

Inserted(l, c, lo, hi) == \E i \in lo + 1 .. hi : Inserts(l[i], c)

\* A TRUNCATE took the row.
Gone(X, h, x) == h # "car" /\ x \in X

\* The row, of which nothing is said, is the same in v and d, or a TRUNCATE took it.
SameRow(v, d, h, x, X) ==
    /\ x \in DOMAIN Rows(d, h) => x \in DOMAIN Rows(v, h) /\ Rows(v, h)[x] = Rows(d, h)[x]
    /\ x \in DOMAIN Rows(v, h) /\ x \notin DOMAIN Rows(d, h) => Gone(X, h, x)

\* What changed from v to d is in the log from lo + 1 to hi.
Accounted(l, v, d, lo, hi, X) ==
    /\ \A h \in RowTables : \A x : Silent(l, h, x, lo, hi) => SameRow(v, d, h, x, X)
    /\ \A c \in DOMAIN d.cars : c \in DOMAIN v.cars \/ Inserted(l, c, lo, hi)

\* d has what the entry says.
Holds(d, e, X) ==
    IF e.op = "DELETE" THEN e.id \notin DOMAIN Rows(d, e.table)
    ELSE IF e.id \in DOMAIN Rows(d, e.table) THEN Rows(d, e.table)[e.id] = e.row
    ELSE Gone(X, e.table, e.id)

\* The last of the first hi entries about a row is what d has.
LastWord(l, d, hi, X) ==
    \A i \in 1 .. hi : Silent(l, l[i].table, l[i].id, i, hi) => Holds(d, l[i], X)

\* Entries about the rows of a car come after the one that added the car.
CarsFirst(l) ==
    \A i, j \in 1 .. Len(l) :
        Inserts(l[i], l[i].id) /\ l[j].table # "car" /\ l[j].row.car = l[i].id => i < j

\* What a model holds of a row, and the rows it holds.
Held(m, c, h) == IF h = "reservation" THEN m.cars[c].busy ELSE m.cars[c].recurrences

Shape(h, x, row) ==
    IF h = "reservation"
    THEN [id |-> x, start |-> row.start, end |-> row.end, expires |-> row.expires]
    ELSE [id |-> x, start |-> row.start, end |-> row.end]

Counts(h, row) == IF h = "reservation" THEN row.confirmed ELSE row.active

Live(h, row, t) == Counts(h, row) /\ (h = "reservation" => row.end > t)

\* The model m shows the tables v at time t, but for what a TRUNCATE took.
SameCar(m, v, c) == m.cars[c].cell = v.cars[c].cell /\ m.cars[c].listed = v.cars[c].listed

Shown(m, v, h, r, t) ==
    Live(h, Rows(v, h)[r], t) =>
        /\ Rows(v, h)[r].car \in DOMAIN m.cars
        /\ Shape(h, r, Rows(v, h)[r]) \in Held(m, Rows(v, h)[r].car, h)

Backed(v, h, c, b) ==
    /\ b.id \in DOMAIN Rows(v, h) /\ Rows(v, h)[b.id].car = c
    /\ Counts(h, Rows(v, h)[b.id])
    /\ b = Shape(h, b.id, Rows(v, h)[b.id])

Mirrors(m, v, X, t) ==
    /\ DOMAIN m.cars = DOMAIN v.cars
    /\ \A c \in DOMAIN v.cars : SameCar(m, v, c)
    /\ \A h \in HeldTables :
          /\ \A r \in DOMAIN Rows(v, h) : Shown(m, v, h, r, t)
          /\ \A c \in DOMAIN v.cars : \A b \in Held(m, c, h) : b.id \in X \/ Backed(v, h, c, b)

MirrorInv ==
    /\ CarsFirst(log)
    /\ LastWord(log, db, Len(log), erased)
    /\ References(pod.next.view)
    /\ pod.phase \in {"up", "rebuilding", "pulled"} =>
          /\ Mirrors(pod.model, pod.view, erased, now)
          /\ Accounted(log, pod.view, db, 0, Len(log), erased)
    /\ pod.phase \in {"starting", "rebuilding", "pulled"} =>
          Accounted(log, pod.next.view, db, pod.next.read, Len(log), erased)
    /\ pod.phase \in {"starting", "rebuilding"} =>
          Mirrors(pod.next.model, pod.next.view, erased, now)
    /\ pod.phase = "pulled" =>
          /\ Accounted(log, pod.view, pod.next.view, 0, pod.next.read, erased)
          /\ LastWord(log, pod.next.view, pod.next.read, erased)

-----------------------------------------------------------------------------
(* What a log accounts for *)

LEMMA Parts ==
    ASSUME NEW w, NEW s, NEW t, Len(s) \in Nat, Len(t) \in Nat, Joined(w, s, t)
    PROVE  /\ Len(w) \in Nat
           /\ \A h, x : \A lo \in 0 .. Len(s) : Silent(w, h, x, lo, Len(w)) =>
                 Silent(s, h, x, lo, Len(s)) /\ Silent(t, h, x, 0, Len(t))
           /\ \A h, x : \A i \in 1 .. Len(t) :
                 Silent(w, h, x, Len(s) + i, Len(w)) => Silent(t, h, x, i, Len(t))
           /\ \A c : \A lo \in 0 .. Len(s) :
                 Inserted(s, c, lo, Len(s)) \/ Inserted(t, c, 0, Len(t)) =>
                     Inserted(w, c, lo, Len(w))
<1>1. /\ Len(w) = Len(s) + Len(t)
      /\ \A i \in 1 .. Len(s) : w[i] = s[i]
      /\ \A i \in 1 .. Len(t) : w[Len(s) + i] = t[i]
    BY DEF Joined
<1>2. ASSUME NEW h, NEW x, NEW lo \in Nat, Silent(w, h, x, lo, Len(w))
      PROVE  Silent(s, h, x, lo, Len(s))
  <2>1. ASSUME NEW i \in lo + 1 .. Len(s)
        PROVE  ~Of(s[i], h, x)
    <3>1. i \in lo + 1 .. Len(w) /\ w[i] = s[i]
        BY <1>1
    <3> QED BY <1>2, <3>1, Zenon DEF Silent
  <2> QED BY <2>1 DEF Silent
<1>3. ASSUME NEW h, NEW x, NEW lo \in Nat, NEW i \in Nat, lo <= Len(s) + i,
             Silent(w, h, x, lo, Len(w))
      PROVE  Silent(t, h, x, i, Len(t))
  <2>1. ASSUME NEW j \in i + 1 .. Len(t)
        PROVE  ~Of(t[j], h, x)
    <3>1. Len(s) + j \in lo + 1 .. Len(w) /\ w[Len(s) + j] = t[j]
        BY <1>1, <1>3
    <3> QED BY <1>3, <3>1, Zenon DEF Silent
  <2> QED BY <2>1 DEF Silent
<1>4. ASSUME NEW c, NEW lo \in 0 .. Len(s), Inserted(s, c, lo, Len(s))
      PROVE  Inserted(w, c, lo, Len(w))
  <2>1. PICK i \in lo + 1 .. Len(s) : Inserts(s[i], c)
      BY <1>4 DEF Inserted
  <2>2. i \in lo + 1 .. Len(w) /\ w[i] = s[i]
      BY <1>1
  <2> QED BY <2>1, <2>2 DEF Inserted
<1>5. ASSUME NEW c, NEW lo \in 0 .. Len(s), Inserted(t, c, 0, Len(t))
      PROVE  Inserted(w, c, lo, Len(w))
  <2>1. PICK i \in 0 + 1 .. Len(t) : Inserts(t[i], c)
      BY <1>5 DEF Inserted
  <2>2. Len(s) + i \in lo + 1 .. Len(w) /\ w[Len(s) + i] = t[i]
      BY <1>1
  <2> QED BY <2>1, <2>2 DEF Inserted
<1>6. Len(w) \in Nat
    BY <1>1
<1>7. \A h, x : \A lo \in 0 .. Len(s) : Silent(w, h, x, lo, Len(w)) =>
          Silent(s, h, x, lo, Len(s)) /\ Silent(t, h, x, 0, Len(t))
  <2> TAKE h, x
  <2> TAKE lo \in 0 .. Len(s)
  <2> HAVE Silent(w, h, x, lo, Len(w))
  <2>1. lo \in Nat /\ 0 \in Nat /\ lo <= Len(s) + 0
      OBVIOUS
  <2> QED BY <1>2, <1>3, <2>1, Zenon
<1>8. \A h, x : \A i \in 1 .. Len(t) :
          Silent(w, h, x, Len(s) + i, Len(w)) => Silent(t, h, x, i, Len(t))
  <2> TAKE h, x
  <2> TAKE i \in 1 .. Len(t)
  <2> HAVE Silent(w, h, x, Len(s) + i, Len(w))
  <2>1. Len(s) + i \in Nat /\ i \in Nat /\ Len(s) + i <= Len(s) + i
      OBVIOUS
  <2> QED BY <1>3, <2>1, Zenon
<1> QED BY <1>4, <1>5, <1>6, <1>7, <1>8, Zenon

LEMMA SameTwice ==
    ASSUME NEW v, NEW d, NEW e, NEW h, NEW x, NEW X, NEW Y, X \subseteq Y,
           SameRow(v, d, h, x, X), SameRow(d, e, h, x, Y)
    PROVE  SameRow(v, e, h, x, Y)
  BY DEF SameRow, Gone

LEMMA SameMore ==
    ASSUME NEW v, NEW d, NEW h, NEW x, NEW X, NEW Y, X \subseteq Y, SameRow(v, d, h, x, X)
    PROVE  SameRow(v, d, h, x, Y)
  BY DEF SameRow, Gone

LEMMA AccountedMore ==
    ASSUME NEW l, NEW v, NEW d, NEW lo, NEW hi, NEW X, NEW Y, X \subseteq Y,
           Accounted(l, v, d, lo, hi, X)
    PROVE  Accounted(l, v, d, lo, hi, Y)
  BY SameMore, Zenon DEF Accounted

\* The log grows by what leads from d to e.
LEMMA AccountedOn ==
    ASSUME NEW w, NEW s, NEW t, Len(s) \in Nat, Len(t) \in Nat, Joined(w, s, t),
           NEW v, NEW d, NEW e, NEW lo \in 0 .. Len(s), NEW X, NEW Y, X \subseteq Y,
           Accounted(s, v, d, lo, Len(s), X), Accounted(t, d, e, 0, Len(t), Y)
    PROVE  Accounted(w, v, e, lo, Len(w), Y)
<1>1. ASSUME NEW h \in RowTables, NEW x, Silent(w, h, x, lo, Len(w))
      PROVE  SameRow(v, e, h, x, Y)
  <2>1. Silent(s, h, x, lo, Len(s)) /\ Silent(t, h, x, 0, Len(t))
      BY <1>1, Parts, Zenon
  <2>2. SameRow(v, d, h, x, X) /\ SameRow(d, e, h, x, Y)
      BY <2>1, Zenon DEF Accounted
  <2> QED BY <2>2, SameTwice, Zenon
<1>2. ASSUME NEW c \in DOMAIN e.cars, c \notin DOMAIN v.cars
      PROVE  Inserted(w, c, lo, Len(w))
  <2>1. Inserted(s, c, lo, Len(s)) \/ Inserted(t, c, 0, Len(t))
      BY <1>2, Zenon DEF Accounted
  <2> QED BY <2>1, Parts, Zenon
<1> QED BY <1>1, <1>2, Zenon DEF Accounted

LEMMA HoldsOn ==
    ASSUME NEW d, NEW e, NEW X, NEW Y, X \subseteq Y, NEW y, Holds(d, y, X),
           SameRow(d, e, y.table, y.id, Y)
    PROVE  Holds(e, y, Y)
  BY DEF Holds, SameRow, Gone

LEMMA LastWordOn ==
    ASSUME NEW w, NEW s, NEW t, s \in Seq(Entries), t \in Seq(Entries), Joined(w, s, t),
           NEW d, NEW e, NEW X, NEW Y, X \subseteq Y,
           LastWord(s, d, Len(s), X), Accounted(t, d, e, 0, Len(t), Y),
           LastWord(t, e, Len(t), Y)
    PROVE  LastWord(w, e, Len(w), Y)
<1> SUFFICES ASSUME NEW i \in 1 .. Len(w), Silent(w, w[i].table, w[i].id, i, Len(w))
             PROVE  Holds(e, w[i], Y)
    BY DEF LastWord
<1>1. Len(s) \in Nat /\ Len(t) \in Nat
    OBVIOUS
<1>2. CASE i \in 1 .. Len(s)
  <2>1. w[i] = s[i] /\ i \in 0 .. Len(s) /\ s[i] \in Entries
      BY <1>2 DEF Joined
  <2> DEFINE y == s[i]
  <2>2. y.table \in RowTables
      BY <2>1, EntryHas, Zenon DEF RowTables
  <2>6. Silent(w, y.table, y.id, i, Len(w))
      BY <2>1
  <2>3. Silent(s, y.table, y.id, i, Len(s)) /\ Silent(t, y.table, y.id, 0, Len(t))
      BY <1>1, <2>1, <2>6, Parts
  <2>4. Holds(d, y, X)
      BY <1>2, <2>3, Zenon DEF LastWord
  <2>5. SameRow(d, e, y.table, y.id, Y)
      BY <2>2, <2>3, Zenon DEF Accounted
  <2> QED BY <2>1, <2>4, <2>5, HoldsOn, Zenon
<1>3. CASE i \notin 1 .. Len(s)
  <2>1. PICK j \in 1 .. Len(t) : i = Len(s) + j
      BY <1>3 DEF Joined
  <2>2. w[i] = t[j]
      BY <2>1 DEF Joined
  <2>4. Silent(w, t[j].table, t[j].id, Len(s) + j, Len(w))
      BY <2>1, <2>2
  <2>3. Silent(t, t[j].table, t[j].id, j, Len(t))
      BY <1>1, <2>4, Parts
  <2> QED BY <2>2, <2>3, Zenon DEF LastWord
<1> QED BY <1>2, <1>3

\* What is known of the first hi entries does not depend on the others.
LEMMA Early ==
    ASSUME NEW w, NEW s, NEW hi \in Nat, \A i \in 1 .. hi : w[i] = s[i],
           NEW d, NEW X
    PROVE  /\ \A v : Accounted(s, v, d, 0, hi, X) => Accounted(w, v, d, 0, hi, X)
           /\ LastWord(s, d, hi, X) => LastWord(w, d, hi, X)
<1>1. ASSUME NEW h, NEW x, NEW lo \in Nat, Silent(w, h, x, lo, hi)
      PROVE  Silent(s, h, x, lo, hi)
  <2>1. \A i \in lo + 1 .. hi : w[i] = s[i]
      OBVIOUS
  <2> QED BY <1>1, <2>1 DEF Silent
<1>2. ASSUME NEW v, Accounted(s, v, d, 0, hi, X)
      PROVE  Accounted(w, v, d, 0, hi, X)
  <2>1. \A h, x : Silent(w, h, x, 0, hi) => Silent(s, h, x, 0, hi)
      BY <1>1
  <2>2. \A c : Inserted(s, c, 0, hi) => Inserted(w, c, 0, hi)
      BY DEF Inserted
  <2> QED BY <1>2, <2>1, <2>2, Zenon DEF Accounted
<1>3. ASSUME LastWord(s, d, hi, X), NEW i \in 1 .. hi,
             Silent(w, w[i].table, w[i].id, i, hi)
      PROVE  Holds(d, w[i], X)
  <2>1. w[i] = s[i] /\ i \in Nat
      OBVIOUS
  <2>2. Silent(s, s[i].table, s[i].id, i, hi)
      BY <1>1, <1>3, <2>1
  <2>3. Holds(d, s[i], X)
      BY <1>3, <2>2, Zenon DEF LastWord
  <2> QED BY <2>1, <2>3
<1>4. LastWord(s, d, hi, X) => LastWord(w, d, hi, X)
    BY <1>3 DEF LastWord
<1> QED BY <1>2, <1>4, Zenon

LEMMA LastWordMore ==
    ASSUME NEW l, NEW d, NEW hi, NEW X, NEW Y, X \subseteq Y, LastWord(l, d, hi, X)
    PROVE  LastWord(l, d, hi, Y)
<1>1. \A e : Holds(d, e, X) => Holds(d, e, Y)
    BY DEF Holds, Gone
<1> QED BY <1>1, Zenon DEF LastWord

\* The cursor moves: w is s without its first n entries.
LEMMA Later ==
    ASSUME NEW s \in Seq(Entries), NEW n \in 0 .. Len(s), NEW w, w = SubSeq(s, n + 1, Len(s))
    PROVE  /\ \A v, d, X : \A lo \in n .. Len(s) :
                 Accounted(s, v, d, lo, Len(s), X) => Accounted(w, v, d, 0, Len(w), X)
           /\ \A d, X : LastWord(s, d, Len(s), X) => LastWord(w, d, Len(w), X)
           /\ CarsFirst(s) => CarsFirst(w)
<1>1. /\ Len(w) = Len(s) - n
      /\ \A i \in 1 .. Len(w) : i + n \in 1 .. Len(s) /\ w[i] = s[i + n]
    BY Rest
<1>2. Len(s) \in Nat
    OBVIOUS
<1>3. ASSUME NEW h, NEW x, NEW lo \in Nat, NEW k \in Nat, lo + n <= k, Silent(w, h, x, lo, Len(w))
      PROVE  Silent(s, h, x, k, Len(s))
  <2>1. ASSUME NEW i \in k + 1 .. Len(s)
        PROVE  ~Of(s[i], h, x)
    <3>1. i - n \in lo + 1 .. Len(w) /\ i - n \in 1 .. Len(w) /\ (i - n) + n = i
        BY <1>1, <1>2, <1>3
    <3> QED BY <1>1, <1>3, <3>1 DEF Silent
  <2> QED BY <2>1 DEF Silent
<1>4. ASSUME NEW v, NEW d, NEW X, NEW lo \in n .. Len(s), Accounted(s, v, d, lo, Len(s), X)
      PROVE  Accounted(w, v, d, 0, Len(w), X)
  <2>1. lo \in Nat /\ 0 \in Nat /\ 0 + n <= lo
      OBVIOUS
  <2>2. \A h, x : Silent(w, h, x, 0, Len(w)) => Silent(s, h, x, lo, Len(s))
      BY <1>3, <2>1, Zenon
  <2>3. ASSUME NEW c, Inserted(s, c, lo, Len(s))
        PROVE  Inserted(w, c, 0, Len(w))
    <3>1. PICK i \in lo + 1 .. Len(s) : Inserts(s[i], c)
        BY <2>3 DEF Inserted
    <3>2. i - n \in 1 .. Len(w) /\ (i - n) + n = i /\ i - n \in 0 + 1 .. Len(w)
        BY <1>1, <1>2
    <3>3. w[i - n] = s[i]
        BY <1>1, <3>2
    <3> QED BY <3>1, <3>2, <3>3, Zenon DEF Inserted
  <2> QED BY <1>4, <2>2, <2>3, Zenon DEF Accounted
<1>5. ASSUME NEW d, NEW X, LastWord(s, d, Len(s), X), NEW i \in 1 .. Len(w),
             Silent(w, w[i].table, w[i].id, i, Len(w))
      PROVE  Holds(d, w[i], X)
  <2>1. i \in Nat /\ i + n \in Nat /\ i + n <= i + n /\ i + n \in 1 .. Len(s) /\ w[i] = s[i + n]
      BY <1>1
  <2>2. Silent(s, w[i].table, w[i].id, i + n, Len(s))
      BY <1>3, <1>5, <2>1
  <2>3. Silent(s, s[i + n].table, s[i + n].id, i + n, Len(s))
      BY <2>1, <2>2
  <2>4. Holds(d, s[i + n], X)
      BY <1>5, <2>1, <2>3, Zenon DEF LastWord
  <2> QED BY <2>1, <2>4
<1>6. \A d, X : LastWord(s, d, Len(s), X) => LastWord(w, d, Len(w), X)
    BY <1>5 DEF LastWord
<1>7. ASSUME CarsFirst(s), NEW i \in 1 .. Len(w), NEW j \in 1 .. Len(w),
             Inserts(w[i], w[i].id), w[j].table # "car", w[j].row.car = w[i].id
      PROVE  i < j
  <2>1. /\ i + n \in 1 .. Len(s) /\ w[i] = s[i + n]
        /\ j + n \in 1 .. Len(s) /\ w[j] = s[j + n]
      BY <1>1
  <2>2. i + n < j + n
      BY <1>7, <2>1 DEF CarsFirst
  <2> QED BY <1>1, <2>2
<1> QED BY <1>4, <1>6, <1>7, Zenon DEF CarsFirst

LEMMA CarsFirstOn ==
    ASSUME NEW w, NEW s, NEW t, s \in Seq(Entries), t \in Seq(Entries), Joined(w, s, t),
           NEW U, \A i \in 1 .. Len(s) : s[i].table # "car" => s[i].row.car \in U,
           \A i \in 1 .. Len(t) : Inserts(t[i], t[i].id) =>
               t[i].id \notin U /\ \A j \in 1 .. Len(t) : t[j].table = "car",
           CarsFirst(s)
    PROVE  CarsFirst(w)
<1> SUFFICES ASSUME NEW i \in 1 .. Len(w), NEW j \in 1 .. Len(w),
                    Inserts(w[i], w[i].id), w[j].table # "car", w[j].row.car = w[i].id
             PROVE  i < j
    BY DEF CarsFirst
<1>1. CASE i \in 1 .. Len(s) /\ j \in 1 .. Len(s)
    BY <1>1 DEF CarsFirst, Joined
<1>2. CASE i \in 1 .. Len(s) /\ j \notin 1 .. Len(s)
    BY <1>2
<1>3. CASE i \notin 1 .. Len(s)
  <2>1. PICK k \in 1 .. Len(t) : i = Len(s) + k
      BY <1>3 DEF Joined
  <2>2. w[i] = t[k]
      BY <2>1 DEF Joined
  <2>3. t[k].id \notin U /\ \A p \in 1 .. Len(t) : t[p].table = "car"
      BY <2>2
  <2>4. CASE j \in 1 .. Len(s)
      BY <2>2, <2>3, <2>4 DEF Joined
  <2>5. CASE j \notin 1 .. Len(s)
    <3>1. PICK p \in 1 .. Len(t) : j = Len(s) + p
        BY <2>5 DEF Joined
    <3>2. w[j] = t[p]
        BY <3>1 DEF Joined
    <3> QED BY <2>3, <3>2
  <2> QED BY <2>4, <2>5
<1> QED BY <1>1, <1>2, <1>3

LEMMA MirrorsMore ==
    ASSUME NEW m, NEW v \in Tables, NEW X, NEW Y, X \subseteq Y, NEW t \in Nat, NEW u \in Nat, t <= u,
           Mirrors(m, v, X, t)
    PROVE  Mirrors(m, v, Y, u)
<1>1. \A r \in DOMAIN v.resv : v.resv[r].end \in Nat
    BY TablesHas DEF ResRow
<1>2. ASSUME NEW h \in HeldTables, NEW r \in DOMAIN Rows(v, h), Live(h, Rows(v, h)[r], u)
      PROVE  Live(h, Rows(v, h)[r], t)
    BY <1>1, <1>2 DEF Live, Rows, HeldTables
<1>3. \A h \in HeldTables : \A r \in DOMAIN Rows(v, h) :
          Shown(m, v, h, r, t) => Shown(m, v, h, r, u)
    BY <1>2, Zenon DEF Shown
<1> QED BY <1>3, Zenon DEF Mirrors

-----------------------------------------------------------------------------
(* A write accounts for what it changes *)

\* What the entries of a transaction say of the tables d it leaves, X being what
\* any TRUNCATE took.
Tells(es, d, X) ==
    /\ erased \subseteq X
    /\ Accounted(es, db, d, 0, Len(es), X)
    /\ LastWord(es, d, Len(es), X)
    /\ \A i \in 1 .. Len(es) : Inserts(es[i], es[i].id) =>
          es[i].id \notin used /\ \A j \in 1 .. Len(es) : es[j].table = "car"

LEMMA TellKeeps ==
    ASSUME IndexInv, MirrorInv, NEW es \in Seq(Entries), NEW d \in Tables, NEW X,
           Tells(es, d, X), log' = log \o es, db' = d, erased' = X, UNCHANGED <<now, pod>>
    PROVE  MirrorInv'
<1>1. /\ log \in Seq(Entries) /\ pod.next.read \in 0 .. Len(log) /\ now \in Nat
      /\ pod.view \in Tables /\ pod.next.view \in Tables
      /\ \A i \in 1 .. Len(log) : log[i].table # "car" => log[i].row.car \in used
    BY WindowAssumption DEF IndexInv, Typed, Given
<1>2. PICK w : w = log \o es
    OBVIOUS
<1>3. Joined(w, log, es)
    BY <1>1, <1>2, Appended, Zenon
<1>4. Len(log) \in Nat /\ Len(es) \in Nat /\ 0 \in 0 .. Len(log)
    BY <1>1
<1>5. /\ erased \subseteq X /\ now <= now
      /\ Accounted(es, db, d, 0, Len(es), X) /\ LastWord(es, d, Len(es), X)
    BY <1>1 DEF Tells
<1>13. LastWord(log, db, Len(log), erased)
    BY DEF MirrorInv
<1>6. CarsFirst(w)
    BY <1>1, <1>3, CarsFirstOn, Zenon DEF Tells, MirrorInv
<1>7. LastWord(w, d, Len(w), X)
    BY <1>1, <1>3, <1>5, <1>13, LastWordOn
<1>8. \A v : \A lo \in 0 .. Len(log) :
          Accounted(log, v, db, lo, Len(log), erased) => Accounted(w, v, d, lo, Len(w), X)
  <2> TAKE v
  <2> TAKE lo \in 0 .. Len(log)
  <2> HAVE Accounted(log, v, db, lo, Len(log), erased)
  <2> QED BY <1>3, <1>4, <1>5, AccountedOn
<1>9. \A m : \A v \in Tables : Mirrors(m, v, erased, now) => Mirrors(m, v, X, now)
    BY <1>1, <1>5, MirrorsMore, Zenon
<1>10. \A i \in 1 .. pod.next.read : w[i] = log[i]
    BY <1>1, <1>3 DEF Joined
<1>11. /\ \A v, e : Accounted(log, v, e, 0, pod.next.read, erased) =>
                        Accounted(w, v, e, 0, pod.next.read, X)
       /\ \A e : LastWord(log, e, pod.next.read, erased) => LastWord(w, e, pod.next.read, X)
  <2>1. pod.next.read \in Nat
      BY <1>1
  <2> QED BY <1>5, <1>10, <2>1, Early, AccountedMore, LastWordMore, Zenon
<1>12. log' = w /\ db' = d /\ erased' = X /\ now' = now /\ pod' = pod
    BY <1>2
<1> QED BY <1>1, <1>4, <1>6, <1>7, <1>8, <1>9, <1>11, <1>12, Zenon DEF MirrorInv, References

\* It is enough that every entry is what the tables have in the end.
LEMMA TellsBy ==
    ASSUME NEW es, NEW d, NEW X, erased \subseteq X,
           \A i \in 1 .. Len(es) : Holds(d, es[i], X),
           \A h \in RowTables : \A x :
               SameRow(db, d, h, x, X) \/ \E i \in 1 .. Len(es) : Of(es[i], h, x),
           \A c \in DOMAIN d.cars : c \in DOMAIN db.cars \/ \E i \in 1 .. Len(es) : Inserts(es[i], c),
           \A i \in 1 .. Len(es) : Inserts(es[i], es[i].id) =>
               es[i].id \notin used /\ \A j \in 1 .. Len(es) : es[j].table = "car"
    PROVE  Tells(es, d, X)
<1>1. \A h, x : (\E i \in 1 .. Len(es) : Of(es[i], h, x)) => ~Silent(es, h, x, 0, Len(es))
    BY DEF Silent
<1>2. \A c : (\E i \in 1 .. Len(es) : Inserts(es[i], c)) => Inserted(es, c, 0, Len(es))
    BY DEF Inserted
<1>3. Accounted(es, db, d, 0, Len(es), X)
    BY <1>1, <1>2, Zenon DEF Accounted
<1>4. LastWord(es, d, Len(es), X)
    BY DEF LastWord
<1> QED BY <1>3, <1>4 DEF Tells

LEMMA TellCar ==
    ASSUME NEW d, NEW c, NEW row, PutCar(db, d, c, row), NEW op,
           \/ op = "INSERT" /\ c \notin used
           \/ op = "UPDATE" /\ c \in DOMAIN db.cars,
           NEW e, Says(e, "car", op, c, row)
    PROVE  Tells(<<e>>, d, erased)
<1> DEFINE es == <<e>>
<1>1. Len(es) = 1 /\ es[1] = e /\ \A i \in 1 .. Len(es) : es[i] = e
    OBVIOUS
<1>2. /\ e.table = "car" /\ e.op = op /\ e.id = c /\ e.row = row
      /\ d.resv = db.resv /\ d.recs = db.recs
      /\ DOMAIN d.cars = DOMAIN db.cars \cup {c} /\ d.cars[c] = row
      /\ \A x \in DOMAIN db.cars : x # c => d.cars[x] = db.cars[x]
    BY DEF PutCar, Puts, Says
<1>3. Holds(d, e, erased)
    BY <1>2 DEF Holds, Rows
<1>4. ASSUME NEW h \in RowTables, NEW x, ~Of(e, h, x)
      PROVE  SameRow(db, d, h, x, erased)
    BY <1>2, <1>4 DEF SameRow, Rows, Of, RowTables
<1>5. ASSUME NEW x \in DOMAIN d.cars, x \notin DOMAIN db.cars
      PROVE  Inserts(e, x)
    BY <1>2, <1>5 DEF Inserts, OfCar
<1>6. Inserts(e, e.id) => e.id \notin used /\ e.table = "car"
    BY <1>2 DEF Inserts
<1> HIDE DEF es
<1>7. 1 \in 1 .. Len(es)
    BY <1>1
<1> QED BY <1>1, <1>3, <1>4, <1>5, <1>6, <1>7, TellsBy DEF es

LEMMA TellRec ==
    ASSUME NEW d, NEW r, NEW row, PutRec(db, d, r, row), NEW op, op # "DELETE",
           NEW e, Says(e, "recurrence", op, r, row)
    PROVE  Tells(<<e>>, d, erased)
<1> DEFINE es == <<e>>
<1>1. Len(es) = 1 /\ es[1] = e /\ \A i \in 1 .. Len(es) : es[i] = e
    OBVIOUS
<1>2. /\ e.table = "recurrence" /\ e.op = op /\ e.id = r /\ e.row = row
      /\ d.cars = db.cars /\ d.resv = db.resv
      /\ DOMAIN d.recs = DOMAIN db.recs \cup {r} /\ d.recs[r] = row
      /\ \A x \in DOMAIN db.recs : x # r => d.recs[x] = db.recs[x]
    BY DEF PutRec, Puts, Says
<1>3. Holds(d, e, erased)
    BY <1>2 DEF Holds, Rows
<1>4. ASSUME NEW h \in RowTables, NEW x, ~Of(e, h, x)
      PROVE  SameRow(db, d, h, x, erased)
    BY <1>2, <1>4 DEF SameRow, Rows, Of, RowTables
<1>5. ~Inserts(e, e.id)
    BY <1>2 DEF Inserts, OfCar
<1> HIDE DEF es
<1>6. 1 \in 1 .. Len(es)
    BY <1>1
<1> QED BY <1>1, <1>2, <1>3, <1>4, <1>5, <1>6, TellsBy DEF es

\* A booking deletes the rows of S first.
LEMMA TellRes ==
    ASSUME NEW d, NEW S \in SUBSET DOMAIN db.resv, NEW r, r \notin S, NEW row,
           PutRes(db, d, S, r, row), NEW op, op # "DELETE",
           NEW e, Says(e, "reservation", op, r, row),
           NEW gone, Deletes(gone, "reservation", db.resv, S), NEW es, es = Append(gone, e)
    PROVE  Tells(es, d, erased)
<1>1. /\ Len(gone) \in Nat /\ Len(es) = Len(gone) + 1 /\ es[Len(es)] = e
      /\ \A i \in 1 .. Len(gone) : es[i] = gone[i]
      /\ \A i \in 1 .. Len(es) : i \in 1 .. Len(gone) \/ i = Len(es)
      /\ Len(es) \in 1 .. Len(es) /\ \A i \in 1 .. Len(gone) : i \in 1 .. Len(es)
    BY DEF Deletes, Says
<1>2. /\ e.table = "reservation" /\ e.op = op /\ e.id = r /\ e.row = row
      /\ d.cars = db.cars /\ d.recs = db.recs
      /\ DOMAIN d.resv = (DOMAIN db.resv \ S) \cup {r} /\ d.resv[r] = row
      /\ \A x \in DOMAIN db.resv \ S : x # r => d.resv[x] = db.resv[x]
    BY DEF PutRes, Puts, Says
<1>3. \A i \in 1 .. Len(gone) : \E x \in S :
          gone[i].table = "reservation" /\ gone[i].op = "DELETE" /\ gone[i].id = x
    BY DEF Deletes, Says
<1>4. \A x \in S : \E i \in 1 .. Len(gone) : Of(gone[i], "reservation", x)
    BY DEF Deletes, Says, Of
<1>5. \A i \in 1 .. Len(es) : Holds(d, es[i], erased)
  <2> TAKE i \in 1 .. Len(es)
  <2>1. CASE i \in 1 .. Len(gone)
    <3>1. es[i] = gone[i]
        BY <1>1, <2>1
    <3>2. PICK x \in S : gone[i].table = "reservation" /\ gone[i].op = "DELETE" /\ gone[i].id = x
        BY <1>3, <2>1
    <3>3. x \notin DOMAIN d.resv
        BY <1>2
    <3> QED BY <3>1, <3>2, <3>3 DEF Holds, Rows
  <2>2. CASE i = Len(es)
      BY <1>1, <1>2, <2>2 DEF Holds, Rows
  <2> QED BY <1>1, <2>1, <2>2
<1>6. ASSUME NEW h \in RowTables, NEW x
      PROVE  SameRow(db, d, h, x, erased) \/ \E i \in 1 .. Len(es) : Of(es[i], h, x)
  <2>1. CASE h = "reservation" /\ x = r
    <3>1. Of(es[Len(es)], h, x)
        BY <1>1, <1>2, <2>1 DEF Of
    <3> QED BY <1>1, <3>1, Zenon
  <2>2. CASE h = "reservation" /\ x \in S
    <3>1. PICK i \in 1 .. Len(gone) : Of(gone[i], h, x)
        BY <1>4, <2>2
    <3>2. i \in 1 .. Len(es) /\ es[i] = gone[i]
        BY <1>1
    <3> QED BY <3>1, <3>2
  <2>3. CASE ~(h = "reservation" /\ (x = r \/ x \in S))
      BY <1>2, <2>3 DEF SameRow, Rows, RowTables
  <2> QED BY <2>1, <2>2, <2>3
<1>7. \A i \in 1 .. Len(es) : es[i].table = "reservation"
    BY <1>1, <1>2, <1>3
<1>8. \A i \in 1 .. Len(es) : ~Inserts(es[i], es[i].id)
    BY <1>7 DEF Inserts, OfCar
<1> QED BY <1>2, <1>5, <1>6, <1>8, TellsBy, Zenon

LEMMA TellNothing ==
    ASSUME NEW d, d.cars = db.cars, d.resv = Nothing, NEW X, erased \cup DOMAIN db.resv \subseteq X,
           d.recs = db.recs \/ (d.recs = Nothing /\ DOMAIN db.recs \subseteq X)
    PROVE  Tells(<<>>, d, X)
<1>1. DOMAIN Nothing = {}
    BY DEF Nothing
<1>2. \A h \in RowTables : \A x : SameRow(db, d, h, x, X)
    BY <1>1 DEF SameRow, Rows, RowTables, Gone
<1>3. Len(<<>>) = 0 /\ \A i : i \notin 1 .. 0
    OBVIOUS
<1> DEFINE es == <<>>
<1>4. Len(es) = 0
    BY <1>3
<1> HIDE DEF es
<1>5. \A i : i \notin 1 .. Len(es)
    BY <1>3, <1>4
<1>6. Tells(es, d, X)
    BY <1>2, <1>5, TellsBy
<1> QED BY <1>6 DEF es

LEMMA TellWipe ==
    ASSUME NEW es, Wiped(es)
    PROVE  Tells(es, NoRows, erased)
<1>1. \A h \in RowTables : DOMAIN Rows(NoRows, h) = {}
    BY Empty DEF Rows
<1>2. \A i \in 1 .. Len(es) : es[i].op = "DELETE" /\ es[i].table \in RowTables
    BY DEF Wiped, Says, RowTables
<1>3. \A i \in 1 .. Len(es) : Holds(NoRows, es[i], erased) /\ ~Inserts(es[i], es[i].id)
    BY <1>1, <1>2 DEF Holds, Inserts
<1>4. ASSUME NEW h \in RowTables, NEW x \in DOMAIN Rows(db, h)
      PROVE  \E i \in 1 .. Len(es) : Of(es[i], h, x)
  <2>1. CASE h = "car"
      BY <2>1, <1>4 DEF Wiped, Says, Rows, Of
  <2>2. CASE h = "reservation"
      BY <2>2, <1>4 DEF Wiped, Says, Rows, Of
  <2>3. CASE h = "recurrence"
      BY <2>3, <1>4 DEF Wiped, Says, Rows, Of
  <2> QED BY <2>1, <2>2, <2>3 DEF RowTables
<1>5. \A h \in RowTables : \A x :
          x \notin DOMAIN Rows(db, h) => SameRow(db, NoRows, h, x, erased)
    BY <1>1 DEF SameRow
<1>6. \A c : c \notin DOMAIN NoRows.cars
    BY Empty
<1> QED BY <1>3, <1>4, <1>5, <1>6, TellsBy, Zenon

\* What a TRUNCATE leaves.
LEMMA TruncateTells ==
    ASSUME db \in Tables, BenchTruncate \/ WipeTruncate
    PROVE  \E d \in Tables : \E X : db' = d /\ erased' = X /\ Tells(<<>>, d, X)
<1>1. PICK d \in Tables :
         db' = d /\ d.cars = db.cars /\ d.resv = Nothing /\ d.recs \in {db.recs, Nothing}
    BY TruncateIs, Zenon
<1> PICK X : X = erased'
    OBVIOUS
<1>2. CASE BenchTruncate
  <2>1. X = erased \cup DOMAIN db.resv
      BY <1>2, Zenon DEF BenchTruncate
  <2>2. d = [db EXCEPT !.resv = Nothing]
      BY <1>1, <1>2, Zenon DEF BenchTruncate
  <2>3. d.recs = db.recs
    <3>1. d = [cars |-> db.cars, resv |-> Nothing, recs |-> db.recs]
        BY <2>2, ResvSet, Zenon
    <3> QED BY <3>1
  <2>4. Tells(<<>>, d, X)
      BY <1>1, <2>1, <2>3, TellNothing
  <2> QED BY <1>1, <2>4, Zenon
<1>3. CASE WipeTruncate
  <2>1. X = erased \cup DOMAIN db.resv \cup DOMAIN db.recs
      BY <1>3, Zenon DEF WipeTruncate
  <2>2. Tells(<<>>, d, X)
      BY <1>1, <2>1, TellNothing
  <2> QED BY <1>1, <2>2, Zenon
<1> QED BY <1>2, <1>3

LEMMA WritesMirror ==
    ASSUME IndexInv, MirrorInv, WriteStep
    PROVE  MirrorInv'
<1>0. /\ db \in Tables /\ Finite /\ now \in Nat /\ References(db) /\ Given
      /\ \A c \in DOMAIN db.cars : c \in CarIds
    BY WindowAssumption, TablesHas DEF IndexInv, Typed
<1>1. ASSUME NEW c \in CarIds, NEW row \in CarRow, NEW op,
             \/ op = "INSERT" /\ c \notin used
             \/ op = "UPDATE" /\ c \in DOMAIN db.cars,
             \E d \in Tables, e \in Entries :
                 /\ db' = d /\ PutCar(db, d, c, row)
                 /\ Says(e, "car", op, c, row) /\ log' = log \o <<e>>,
             UNCHANGED <<now, erased, pod>>
      PROVE  MirrorInv'
  <2>1. PICK d \in Tables, e \in Entries :
              /\ db' = d /\ PutCar(db, d, c, row)
              /\ Says(e, "car", op, c, row) /\ log' = log \o <<e>>
      BY <1>1
  <2> PICK es : es = <<e>>
      OBVIOUS
  <2>2. es \in Seq(Entries) /\ Tells(es, d, erased)
      BY <1>1, <2>1, TellCar
  <2>3. log' = log \o es /\ erased' = erased
      BY <1>1, <2>1
  <2> QED BY <1>1, <2>1, <2>2, <2>3, TellKeeps, Zenon
<1>2. ASSUME NEW x \in RecIds, NEW op, op # "DELETE",
             \E row \in RecRow, d \in Tables, e \in Entries :
                 /\ db' = d /\ PutRec(db, d, x, row)
                 /\ Says(e, "recurrence", op, x, row) /\ log' = log \o <<e>>,
             UNCHANGED <<now, erased, pod>>
      PROVE  MirrorInv'
  <2>1. PICK row \in RecRow, d \in Tables, e \in Entries :
              /\ db' = d /\ PutRec(db, d, x, row)
              /\ Says(e, "recurrence", op, x, row) /\ log' = log \o <<e>>
      BY <1>2
  <2> PICK es : es = <<e>>
      OBVIOUS
  <2>2. es \in Seq(Entries) /\ Tells(es, d, erased)
      BY <1>2, <2>1, TellRec
  <2>3. log' = log \o es /\ erased' = erased
      BY <1>2, <2>1
  <2> QED BY <1>2, <2>1, <2>2, <2>3, TellKeeps, Zenon
<1>3. ASSUME NEW r \in ResIds, NEW S \in SUBSET DOMAIN db.resv, r \notin S,
             NEW op, op # "DELETE", NEW row, NEW d \in Tables, NEW e \in Entries,
             NEW gone \in Seq(Entries), NEW es, es = Append(gone, e),
             db' = d, PutRes(db, d, S, r, row), Says(e, "reservation", op, r, row),
             Deletes(gone, "reservation", db.resv, S), log' = log \o es,
             UNCHANGED <<now, erased, pod>>
      PROVE  MirrorInv'
  <2>1. Tells(es, d, erased)
      BY <1>3, TellRes, Zenon
  <2>2. es \in Seq(Entries) /\ erased' = erased
      BY <1>3
  <2> QED BY <1>3, <2>1, <2>2, TellKeeps, Zenon
<1>4. "INSERT" # "DELETE" /\ "UPDATE" # "DELETE"
    OBVIOUS
<1>5. ASSUME NEW c \in CarIds, NEW cell \in Cells, ListCar(c, cell)
      PROVE  MirrorInv'
  <2> PICK row : row = [cell |-> cell, listed |-> TRUE]
      OBVIOUS
  <2>1. /\ row \in CarRow /\ c \notin used
        /\ \E d \in Tables, e \in Entries :
              /\ db' = d /\ PutCar(db, d, c, row)
              /\ Says(e, "car", "INSERT", c, row) /\ log' = log \o <<e>>
        /\ UNCHANGED <<now, erased, pod>>
      BY <1>0, <1>5, ListCarIs, Zenon
  <2> QED BY <1>1, <2>1, Zenon
<1>6. ASSUME NEW c \in CarIds, NEW cell \in Cells, NEW b \in BOOLEAN, EditCar(c, cell, b)
      PROVE  MirrorInv'
  <2> PICK row : row = [cell |-> cell, listed |-> b]
      OBVIOUS
  <2>1. /\ row \in CarRow /\ c \in DOMAIN db.cars
        /\ \E d \in Tables, e \in Entries :
              /\ db' = d /\ PutCar(db, d, c, row)
              /\ Says(e, "car", "UPDATE", c, row) /\ log' = log \o <<e>>
        /\ UNCHANGED <<now, used, erased, pod>>
      BY <1>0, <1>6, EditCarIs, Zenon
  <2>2. UNCHANGED <<now, erased, pod>>
      BY <2>1
  <2> QED BY <1>1, <2>1, <2>2, Zenon
<1>7. ASSUME NEW r \in ResIds, NEW c \in CarIds, NEW w \in Windows, NEW k \in Kinds,
             Book(r, c, w, k)
      PROVE  MirrorInv'
  <2>1. /\ r \notin used /\ used' = used \cup {r}
        /\ \E row \in ResRow, d \in Tables, e \in Entries, gone \in Seq(Entries) :
              /\ row.car = c /\ c \in DOMAIN db.cars
              /\ db' = d /\ PutRes(db, d, Lapsed(c), r, row)
              /\ Says(e, "reservation", "INSERT", r, row)
              /\ Deletes(gone, "reservation", db.resv, Lapsed(c))
              /\ log' = log \o Append(gone, e)
        /\ UNCHANGED <<now, erased, pod>>
      BY <1>0, <1>7, BookIs, Zenon
  <2>2. PICK row \in ResRow, d \in Tables, e \in Entries, gone \in Seq(Entries) :
              /\ row.car = c /\ c \in DOMAIN db.cars
              /\ db' = d /\ PutRes(db, d, Lapsed(c), r, row)
              /\ Says(e, "reservation", "INSERT", r, row)
              /\ Deletes(gone, "reservation", db.resv, Lapsed(c))
              /\ log' = log \o Append(gone, e)
      BY <2>1
  <2>3. Lapsed(c) \in SUBSET DOMAIN db.resv /\ r \notin Lapsed(c)
      BY <1>0, <2>1 DEF Lapsed, Given
  <2> QED BY <1>3, <1>4, <2>1, <2>2, <2>3, Zenon
<1>8. ASSUME NEW r \in DOMAIN db.resv, NEW row \in ResRow, UpdateReservation(r, row)
      PROVE  MirrorInv'
  <2>1. /\ \E d \in Tables, e \in Entries :
              /\ db' = d /\ PutRes(db, d, {}, r, row)
              /\ Says(e, "reservation", "UPDATE", r, row) /\ log' = log \o <<e>>
        /\ UNCHANGED <<now, used, erased, pod>>
      BY <1>0, UpdateIs, <1>8, Zenon
  <2>2. PICK d \in Tables, e \in Entries :
              /\ db' = d /\ PutRes(db, d, {}, r, row)
              /\ Says(e, "reservation", "UPDATE", r, row) /\ log' = log \o <<e>>
      BY <2>1
  <2> PICK es : es = Append(<<>>, e)
      OBVIOUS
  <2>3. es = <<e>> /\ {} \in SUBSET DOMAIN db.resv /\ r \notin {} /\ r \in ResIds
        /\ <<>> \in Seq(Entries)
      BY <1>0, TablesHas
  <2>4. Deletes(<<>>, "reservation", db.resv, {})
      BY DEF Deletes
  <2>5. log' = log \o es /\ UNCHANGED <<now, erased, pod>>
      BY <2>1, <2>2, <2>3
  <2> QED BY <1>3, <1>4, <2>2, <2>3, <2>4, <2>5, Zenon
<1>9. ASSUME NEW r \in ResIds, ConfirmHold(r) \/ CancelReservation(r)
      PROVE  MirrorInv'
  <2>1. r \in DOMAIN db.resv /\ db.resv[r] \in ResRow
      BY <1>0, <1>9, TablesHas, Zenon DEF ConfirmHold, CancelReservation
  <2>2. CASE ConfirmHold(r)
    <3> PICK row : row = [db.resv[r] EXCEPT !.expires = Null]
        OBVIOUS
    <3>1. UpdateReservation(r, row)
        BY <2>2, Zenon DEF ConfirmHold
    <3>2. row \in ResRow
        BY <2>1, ResChange, Zenon
    <3> QED BY <1>8, <2>1, <3>1, <3>2, Zenon
  <2>3. CASE CancelReservation(r)
    <3> PICK row : row = [db.resv[r] EXCEPT !.confirmed = FALSE]
        OBVIOUS
    <3>1. UpdateReservation(r, row)
        BY <2>3, Zenon DEF CancelReservation
    <3>2. row \in ResRow
        BY <2>1, ResChange, Zenon
    <3> QED BY <1>8, <2>1, <3>1, <3>2, Zenon
  <2> QED BY <1>9, <2>2, <2>3
<1>10. ASSUME NEW x \in RecIds, NEW c \in CarIds, NEW w \in Windows, CreateSchedule(x, c, w)
       PROVE  MirrorInv'
  <2>1. /\ \E row \in RecRow, d \in Tables, e \in Entries :
              /\ row.car = c /\ c \in DOMAIN db.cars
              /\ db' = d /\ PutRec(db, d, x, row)
              /\ Says(e, "recurrence", "INSERT", x, row) /\ log' = log \o <<e>>
        /\ UNCHANGED <<now, erased, pod>>
      BY <1>0, <1>10, CreateScheduleIs, Zenon
  <2> QED BY <1>2, <1>4, <2>1, Zenon
<1>11. ASSUME NEW x \in RecIds, DeactivateSchedule(x)
       PROVE  MirrorInv'
  <2>1. /\ \E row \in RecRow, d \in Tables, e \in Entries :
              /\ row.car = db.recs[x].car
              /\ db' = d /\ PutRec(db, d, x, row)
              /\ Says(e, "recurrence", "UPDATE", x, row) /\ log' = log \o <<e>>
        /\ UNCHANGED <<now, used, erased, pod>>
      BY <1>0, <1>11, DeactivateScheduleIs, Zenon
  <2>2. UNCHANGED <<now, erased, pod>>
      BY <2>1
  <2> QED BY <1>2, <1>4, <2>1, <2>2, Zenon
<1>12. ASSUME BenchTruncate \/ WipeTruncate
       PROVE  MirrorInv'
  <2>1. PICK d \in Tables : \E X : db' = d /\ erased' = X /\ Tells(<<>>, d, X)
      BY <1>0, <1>12, TruncateTells, Zenon
  <2>2. PICK X : db' = d /\ erased' = X /\ Tells(<<>>, d, X)
      BY <2>1
  <2>3. log' = log \o <<>> /\ UNCHANGED <<now, pod>>
      BY <1>12, Zenon DEF BenchTruncate, WipeTruncate, Logged
  <2>4. <<>> \in Seq(Entries)
      OBVIOUS
  <2> QED BY <2>2, <2>3, <2>4, TellKeeps, Zenon
<1>13. ASSUME WipeCars
       PROVE  MirrorInv'
  <2>1. PICK es : Wiped(es) /\ log' = log \o es
      BY <1>0, <1>13, WipeCarsIs, Zenon
  <2>2. db' = NoRows /\ erased' = erased /\ UNCHANGED <<now, pod>>
      BY <1>0, <1>13, WipeCarsIs, Zenon
  <2>3. es \in Seq(Entries) /\ Tells(es, NoRows, erased)
      BY <2>1, TellWipe DEF Wiped
  <2> QED BY <2>1, <2>2, <2>3, Empty, TellKeeps, Zenon
<1> QED BY <1>5, <1>6, <1>7, <1>9, <1>10, <1>11, <1>12, <1>13, Zenon DEF WriteStep

-----------------------------------------------------------------------------
(* One entry brings the model closer to the tables *)

\* What the entry of a reservation or a schedule does to what a model holds.
TakesRow(m, e, t, m2) ==
    /\ DOMAIN m2.cars = DOMAIN m.cars
    /\ \A c \in DOMAIN m.cars :
          m2.cars[c].cell = m.cars[c].cell /\ m2.cars[c].listed = m.cars[c].listed
    /\ \A h \in HeldTables : \A c \in DOMAIN m.cars : \A b :
          h # e.table \/ b.id # e.id => (b \in Held(m2, c, h) <=> b \in Held(m, c, h))
    /\ \A c \in DOMAIN m.cars : Linked(m, c) =>
          \A b \in Held(m2, c, e.table) : b.id = e.id =>
              /\ e.op # "DELETE" /\ Live(e.table, e.row, t)
              /\ e.row.car = c /\ b = Shape(e.table, e.id, e.row)
    /\ e.op # "DELETE" /\ Live(e.table, e.row, t) /\ e.row.car \in DOMAIN m.cars =>
          Shape(e.table, e.id, e.row) \in Held(m2, e.row.car, e.table)

LEMMA ReservationApplied ==
    ASSUME NEW m \in Models, NEW e \in Entries, e.table = "reservation", NEW t \in Nat,
           e.id \in DOMAIN m.reservationCar => m.reservationCar[e.id] = e.row.car,
           NEW m2, m2 = Apply(m, e, t)
    PROVE  TakesRow(m, e, t, m2)
<1>1. /\ e.id \in ResIds /\ e.row.car \in CarIds /\ e.row.end \in Nat
      /\ Window(e) \in Busy /\ Window(e).id = e.id
      /\ Window(e) = Shape("reservation", e.id, e.row)
    BY EntryHas DEF ResRow, Shape, Window
<1>2. \A c \in DOMAIN m.cars : Linked(m, c) =>
          \A b \in m.cars[c].busy : b.id \in DOMAIN m.reservationCar /\ m.reservationCar[b.id] = c
    BY DEF Linked
<1>3. Live("reservation", e.row, t) <=> (e.row.confirmed /\ ~(e.row.end <= t))
    BY <1>1 DEF Live, Counts
<1>4. CASE e.op # "DELETE" /\ Live("reservation", e.row, t)
  <2>1. m2 = UpsertWindow(m, e.row.car, Window(e))
      BY <1>3, <1>4, ApplyIs
  <2>2. CASE e.row.car \notin DOMAIN m.cars
    <3>1. m2 = m
        BY <1>1, <2>1, <2>2, UpsertWindowIs, Zenon
    <3> QED BY <1>2, <2>2, <3>1 DEF TakesRow, Held, HeldTables
  <2>3. CASE e.row.car \in DOMAIN m.cars
    <3> DEFINE a == {b \in m.cars[e.row.car].busy : b.id # Window(e).id} \cup {Window(e)}
    <3>1. BusyChanged(m, m2, e.row.car, With(m.reservationCar, Window(e).id, e.row.car), a)
        BY <1>1, <2>1, <2>3, UpsertWindowIs, Zenon
    <3>2. /\ DOMAIN m2.cars = DOMAIN m.cars
          /\ \A c \in DOMAIN m.cars :
                /\ m2.cars[c].cell = m.cars[c].cell /\ m2.cars[c].listed = m.cars[c].listed
                /\ m2.cars[c].recurrences = m.cars[c].recurrences
                /\ c # e.row.car => m2.cars[c].busy = m.cars[c].busy
          /\ m2.cars[e.row.car].busy = a
        BY <3>1 DEF BusyChanged
    <3>3. /\ \A b : b.id # e.id => (b \in a <=> b \in m.cars[e.row.car].busy)
          /\ \A b \in a : b.id = e.id => b = Window(e)
          /\ Window(e) \in a
        BY <1>1
    <3> HIDE DEF a
    <3> QED BY <1>1, <1>2, <1>4, <2>3, <3>2, <3>3 DEF TakesRow, Held, HeldTables
  <2> QED BY <2>2, <2>3
<1>5. CASE e.op = "DELETE" \/ ~Live("reservation", e.row, t)
  <2>1. m2 = RemoveWindow(m, e.id)
      BY <1>3, <1>5, ApplyIs
  <2>2. CASE e.id \notin DOMAIN m.reservationCar
    <3>1. m2 = m
        BY <1>1, <2>1, <2>2, RemoveWindowIs, Zenon
    <3> QED BY <1>2, <1>5, <2>2, <3>1 DEF TakesRow, Held, HeldTables
  <2>3. CASE e.id \in DOMAIN m.reservationCar /\ e.row.car \notin DOMAIN m.cars
    <3>1. m2.cars = m.cars
        BY <1>1, <2>1, <2>3, RemoveWindowIs
    <3> QED BY <1>2, <1>5, <2>3, <3>1 DEF TakesRow, Held, HeldTables
  <2>4. CASE e.id \in DOMAIN m.reservationCar /\ e.row.car \in DOMAIN m.cars
    <3> DEFINE a == {b \in m.cars[e.row.car].busy : b.id # e.id}
    <3>1. BusyChanged(m, m2, e.row.car, Without(m.reservationCar, {e.id}), a)
        BY <1>1, <2>1, <2>4, RemoveWindowIs
    <3>2. /\ DOMAIN m2.cars = DOMAIN m.cars
          /\ \A c \in DOMAIN m.cars :
                /\ m2.cars[c].cell = m.cars[c].cell /\ m2.cars[c].listed = m.cars[c].listed
                /\ m2.cars[c].recurrences = m.cars[c].recurrences
                /\ c # e.row.car => m2.cars[c].busy = m.cars[c].busy
          /\ m2.cars[e.row.car].busy = a
        BY <3>1 DEF BusyChanged
    <3>3. /\ \A b : b.id # e.id => (b \in a <=> b \in m.cars[e.row.car].busy)
          /\ \A b \in a : b.id # e.id
        OBVIOUS
    <3> HIDE DEF a
    <3> QED BY <1>1, <1>2, <1>5, <2>4, <3>2, <3>3 DEF TakesRow, Held, HeldTables
  <2> QED BY <2>2, <2>3, <2>4
<1> QED BY <1>4, <1>5

LEMMA RecurrenceApplied ==
    ASSUME NEW m \in Models, NEW e \in Entries, e.table = "recurrence", NEW t \in Nat,
           e.id \in DOMAIN m.recurrenceCar => m.recurrenceCar[e.id] = e.row.car,
           NEW m2, m2 = Apply(m, e, t)
    PROVE  TakesRow(m, e, t, m2)
<1>1. /\ e.id \in RecIds /\ e.row.car \in CarIds
      /\ Plan(e) \in Schedule /\ Plan(e).id = e.id
      /\ Plan(e) = Shape("recurrence", e.id, e.row)
    BY EntryHas DEF RecRow, Shape, Plan
<1>2. \A c \in DOMAIN m.cars : Linked(m, c) =>
          \A b \in m.cars[c].recurrences :
              b.id \in DOMAIN m.recurrenceCar /\ m.recurrenceCar[b.id] = c
    BY DEF Linked
<1>3. Live("recurrence", e.row, t) <=> e.row.active
    BY <1>1 DEF Live, Counts
<1>4. CASE e.op # "DELETE" /\ Live("recurrence", e.row, t)
  <2>1. m2 = UpsertRecurrence(m, e.row.car, Plan(e))
      BY <1>3, <1>4, ApplyIs
  <2>2. CASE e.row.car \notin DOMAIN m.cars
    <3>1. m2 = m
        BY <1>1, <2>1, <2>2, UpsertRecurrenceIs, Zenon
    <3> QED BY <1>2, <2>2, <3>1 DEF TakesRow, Held, HeldTables
  <2>3. CASE e.row.car \in DOMAIN m.cars
    <3> DEFINE a == {b \in m.cars[e.row.car].recurrences : b.id # Plan(e).id} \cup {Plan(e)}
    <3>1. PlansChanged(m, m2, e.row.car, With(m.recurrenceCar, Plan(e).id, e.row.car), a)
        BY <1>1, <2>1, <2>3, UpsertRecurrenceIs, Zenon
    <3>2. /\ DOMAIN m2.cars = DOMAIN m.cars
          /\ \A c \in DOMAIN m.cars :
                /\ m2.cars[c].cell = m.cars[c].cell /\ m2.cars[c].listed = m.cars[c].listed
                /\ m2.cars[c].busy = m.cars[c].busy
                /\ c # e.row.car => m2.cars[c].recurrences = m.cars[c].recurrences
          /\ m2.cars[e.row.car].recurrences = a
        BY <3>1 DEF PlansChanged
    <3>3. /\ \A b : b.id # e.id => (b \in a <=> b \in m.cars[e.row.car].recurrences)
          /\ \A b \in a : b.id = e.id => b = Plan(e)
          /\ Plan(e) \in a
        BY <1>1
    <3> HIDE DEF a
    <3> QED BY <1>1, <1>2, <1>4, <2>3, <3>2, <3>3 DEF TakesRow, Held, HeldTables
  <2> QED BY <2>2, <2>3
<1>5. CASE e.op = "DELETE" \/ ~Live("recurrence", e.row, t)
  <2>1. m2 = RemoveRecurrence(m, e.id)
      BY <1>3, <1>5, ApplyIs
  <2>2. CASE e.id \notin DOMAIN m.recurrenceCar
    <3>1. m2 = m
        BY <1>1, <2>1, <2>2, RemoveRecurrenceIs, Zenon
    <3> QED BY <1>2, <1>5, <2>2, <3>1 DEF TakesRow, Held, HeldTables
  <2>3. CASE e.id \in DOMAIN m.recurrenceCar /\ e.row.car \notin DOMAIN m.cars
    <3>1. m2.cars = m.cars
        BY <1>1, <2>1, <2>3, RemoveRecurrenceIs
    <3> QED BY <1>2, <1>5, <2>3, <3>1 DEF TakesRow, Held, HeldTables
  <2>4. CASE e.id \in DOMAIN m.recurrenceCar /\ e.row.car \in DOMAIN m.cars
    <3> DEFINE a == {b \in m.cars[e.row.car].recurrences : b.id # e.id}
    <3>1. PlansChanged(m, m2, e.row.car, Without(m.recurrenceCar, {e.id}), a)
        BY <1>1, <2>1, <2>4, RemoveRecurrenceIs
    <3>2. /\ DOMAIN m2.cars = DOMAIN m.cars
          /\ \A c \in DOMAIN m.cars :
                /\ m2.cars[c].cell = m.cars[c].cell /\ m2.cars[c].listed = m.cars[c].listed
                /\ m2.cars[c].busy = m.cars[c].busy
                /\ c # e.row.car => m2.cars[c].recurrences = m.cars[c].recurrences
          /\ m2.cars[e.row.car].recurrences = a
        BY <3>1 DEF PlansChanged
    <3>3. /\ \A b : b.id # e.id => (b \in a <=> b \in m.cars[e.row.car].recurrences)
          /\ \A b \in a : b.id # e.id
        OBVIOUS
    <3> HIDE DEF a
    <3> QED BY <1>1, <1>2, <1>5, <2>4, <3>2, <3>3 DEF TakesRow, Held, HeldTables
  <2> QED BY <2>2, <2>3, <2>4
<1> QED BY <1>4, <1>5

-----------------------------------------------------------------------------
(* A batch brings the model to the tables *)

\* After the first n entries, what the rest up to k says nothing of is as in v.
Toward(m, v, n, k, X, t) ==
    /\ \A c : Silent(log, "car", c, n, k) =>
          /\ c \in DOMAIN m.cars <=> c \in DOMAIN v.cars
          /\ c \in DOMAIN v.cars => SameCar(m, v, c)
    /\ \A c \in DOMAIN v.cars : c \in DOMAIN m.cars \/ Inserted(log, c, n, k)
    /\ \A h \in HeldTables :
          /\ \A r \in DOMAIN Rows(v, h) : Silent(log, h, r, n, k) => Shown(m, v, h, r, t)
          /\ \A c \in DOMAIN v.cars \cap DOMAIN m.cars : \A b \in Held(m, c, h) :
                Silent(log, h, b.id, n, k) => b.id \in X \/ Backed(v, h, c, b)

LEMMA TowardStarts ==
    ASSUME NEW m, NEW u, NEW v, NEW k, NEW X, NEW t,
           Mirrors(m, u, X, t), Accounted(log, u, v, 0, k, X)
    PROVE  Toward(m, v, 0, k, X, t)
<1>1. \A h \in RowTables : \A x : Silent(log, h, x, 0, k) => SameRow(u, v, h, x, X)
    BY Zenon DEF Accounted
<1>2. HeldTables \subseteq RowTables /\ "car" \in RowTables
    BY DEF HeldTables, RowTables
<1>3. ASSUME NEW c, Silent(log, "car", c, 0, k)
      PROVE  /\ c \in DOMAIN m.cars <=> c \in DOMAIN v.cars
             /\ c \in DOMAIN v.cars => SameCar(m, v, c)
  <2>1. SameRow(u, v, "car", c, X)
      BY <1>1, <1>2, <1>3, Zenon
  <2>2. /\ c \in DOMAIN v.cars <=> c \in DOMAIN u.cars
        /\ c \in DOMAIN v.cars => v.cars[c] = u.cars[c]
      BY <2>1 DEF SameRow, Gone, Rows
  <2>3. DOMAIN m.cars = DOMAIN u.cars /\ \A y \in DOMAIN u.cars : SameCar(m, u, y)
      BY Zenon DEF Mirrors
  <2> QED BY <2>2, <2>3 DEF SameCar
<1>4. \A c \in DOMAIN v.cars : c \in DOMAIN m.cars \/ Inserted(log, c, 0, k)
    BY Zenon DEF Accounted, Mirrors
<1>5. ASSUME NEW h \in HeldTables, NEW r \in DOMAIN Rows(v, h), Silent(log, h, r, 0, k)
      PROVE  Shown(m, v, h, r, t)
  <2>1. SameRow(u, v, h, r, X)
      BY <1>1, <1>2, <1>5
  <2>2. r \in DOMAIN Rows(u, h) /\ Rows(u, h)[r] = Rows(v, h)[r]
      BY <2>1 DEF SameRow
  <2>3. Shown(m, u, h, r, t)
      BY <2>2, Zenon DEF Mirrors
  <2> QED BY <2>2, <2>3 DEF Shown
<1>6. ASSUME NEW h \in HeldTables, NEW c \in DOMAIN v.cars \cap DOMAIN m.cars,
             NEW b \in Held(m, c, h), Silent(log, h, b.id, 0, k), b.id \notin X
      PROVE  Backed(v, h, c, b)
  <2>1. SameRow(u, v, h, b.id, X)
      BY <1>1, <1>2, <1>6
  <2>2. c \in DOMAIN u.cars
      BY DEF Mirrors
  <2>3. Backed(u, h, c, b)
      BY <1>6, <2>2, Zenon DEF Mirrors
  <2>4. b.id \in DOMAIN Rows(v, h) /\ Rows(v, h)[b.id] = Rows(u, h)[b.id]
      BY <1>6, <2>1, <2>3 DEF SameRow, Backed, Gone
  <2> QED BY <2>3, <2>4 DEF Backed
<1> QED BY <1>3, <1>4, <1>5, <1>6, Zenon DEF Toward

LEMMA TowardEnds ==
    ASSUME NEW m, NEW v, NEW k \in Nat, NEW X, NEW t, Toward(m, v, k, k, X, t)
    PROVE  Mirrors(m, v, X, t)
<1>1. \A h, x : Silent(log, h, x, k, k)
    BY DEF Silent
<1>2. \A c : c \in DOMAIN m.cars <=> c \in DOMAIN v.cars
    BY <1>1, Zenon DEF Toward
<1>3. \A c \in DOMAIN v.cars : SameCar(m, v, c)
    BY <1>1, Zenon DEF Toward
<1>4. \A h \in HeldTables : \A r \in DOMAIN Rows(v, h) : Shown(m, v, h, r, t)
    BY <1>1, Zenon DEF Toward
<1>5. \A h \in HeldTables : \A c \in DOMAIN v.cars : \A b \in Held(m, c, h) :
          b.id \in X \/ Backed(v, h, c, b)
  <2> TAKE h \in HeldTables
  <2> TAKE c \in DOMAIN v.cars
  <2> TAKE b \in Held(m, c, h)
  <2>1. c \in DOMAIN v.cars \cap DOMAIN m.cars
      BY <1>2
  <2> QED BY <1>1, <2>1, Zenon DEF Toward
<1>6. DOMAIN m.cars = DOMAIN v.cars
    BY <1>2, Zenon
<1> QED BY <1>3, <1>4, <1>5, <1>6, Zenon DEF Mirrors

LEMMA NextEntry ==
    ASSUME NEW l, NEW n \in Nat, NEW k \in Nat, n < k
    PROVE  /\ \A h, x : Silent(l, h, x, n + 1, k) /\ ~Of(l[n + 1], h, x) => Silent(l, h, x, n, k)
           /\ \A c : Inserted(l, c, n, k) =>
                 Inserts(l[n + 1], c) \/ Inserted(l, c, n + 1, k)
           /\ \A d, X : LastWord(l, d, k, X)
                        /\ Silent(l, l[n + 1].table, l[n + 1].id, n + 1, k) => Holds(d, l[n + 1], X)
<1>1. n + 1 \in 1 .. k /\ \A i \in n + 1 .. k : i = n + 1 \/ i \in (n + 1) + 1 .. k
    OBVIOUS
<1>2. \A h, x : Silent(l, h, x, n + 1, k) /\ ~Of(l[n + 1], h, x) => Silent(l, h, x, n, k)
    BY <1>1 DEF Silent
<1>3. \A c : Inserted(l, c, n, k) => Inserts(l[n + 1], c) \/ Inserted(l, c, n + 1, k)
    BY <1>1, Zenon DEF Inserted
<1>4. \A d, X : LastWord(l, d, k, X)
          /\ Silent(l, l[n + 1].table, l[n + 1].id, n + 1, k) => Holds(d, l[n + 1], X)
    BY <1>1, Zenon DEF LastWord
<1> QED BY <1>2, <1>3, <1>4, Zenon

\* What a batch up to k owes to the tables v that were read with it.
Ahead(v, k, X) ==
    /\ log \in Seq(Entries) /\ k \in Nat /\ k <= Len(log)
    /\ LifeOfCar /\ CarsFirst(log)
    /\ v \in Tables /\ References(v) /\ LastWord(log, v, k, X)

\* A car of the tables is not removed by the batch.
LEMMA NotRemoved ==
    ASSUME NEW v, NEW k, NEW X, Ahead(v, k, X), NEW c \in DOMAIN v.cars, NEW i \in 1 .. k
    PROVE  ~Removes(log[i], c)
<1> SUFFICES ASSUME Removes(log[i], c) PROVE FALSE
    OBVIOUS
<1>1. c \in CarIds /\ i \in 1 .. Len(log)
    BY TablesHas DEF Ahead
<1>2. \A j \in i + 1 .. Len(log) : ~OfCar(log[j], c)
    BY <1>1, Zenon DEF Ahead, LifeOfCar
<1>3. \A j \in i + 1 .. k : ~OfCar(log[j], c)
    BY <1>2 DEF Ahead
<1>4. log[i].table = "car" /\ log[i].id = c /\ log[i].op = "DELETE"
    BY DEF Removes, OfCar
<1>5. Silent(log, log[i].table, log[i].id, i, k)
    BY <1>3, <1>4 DEF Silent, Of, OfCar
<1>6. Holds(v, log[i], X)
    BY <1>5, Zenon DEF Ahead, LastWord
<1> QED BY <1>4, <1>6 DEF Holds, Rows

\* What the entry of a car does to a model.
TakesCar(m, e, m2) ==
    /\ \A c : c # e.id => /\ c \in DOMAIN m2.cars <=> c \in DOMAIN m.cars
                          /\ c \in DOMAIN m.cars => m2.cars[c] = m.cars[c]
    /\ e.op = "DELETE" => e.id \notin DOMAIN m2.cars
    /\ e.op # "DELETE" =>
          /\ e.id \in DOMAIN m2.cars
          /\ m2.cars[e.id].cell = e.row.cell /\ m2.cars[e.id].listed = e.row.listed
          /\ \A h \in HeldTables :
                Held(m2, e.id, h) = IF e.id \in DOMAIN m.cars THEN Held(m, e.id, h) ELSE {}

LEMMA CarApplied ==
    ASSUME NEW m \in Models, NEW e \in Entries, e.table = "car", NEW t,
           NEW m2, m2 = Apply(m, e, t)
    PROVE  TakesCar(m, e, m2)
<1>1. e.id \in CarIds /\ e.row \in CarRow
    BY EntryHas
<1>2. CASE e.op = "DELETE"
  <2>1. m2 = RemoveCar(m, e.id)
      BY <1>2, ApplyIs
  <2>2. DOMAIN m2.cars = DOMAIN m.cars \ {e.id} /\ \A c \in DOMAIN m2.cars : m2.cars[c] = m.cars[c]
      BY <1>1, <2>1, RemoveCarIs
  <2> QED BY <1>2, <2>2 DEF TakesCar
<1>3. CASE e.op # "DELETE"
  <2>1. m2 = UpsertCar(m, e.id, e.row)
      BY <1>3, ApplyIs
  <2>2. /\ DOMAIN m2.cars = DOMAIN m.cars \cup {e.id}
        /\ \A c \in DOMAIN m.cars : c # e.id => m2.cars[c] = m.cars[c]
        /\ m2.cars[e.id].cell = e.row.cell /\ m2.cars[e.id].listed = e.row.listed
        /\ e.id \in DOMAIN m.cars => /\ m2.cars[e.id].busy = m.cars[e.id].busy
                                     /\ m2.cars[e.id].recurrences = m.cars[e.id].recurrences
        /\ e.id \notin DOMAIN m.cars => m2.cars[e.id].busy = {} /\ m2.cars[e.id].recurrences = {}
      BY <1>1, <2>1, UpsertCarIs
  <2> QED BY <1>3, <2>2 DEF TakesCar, Held, HeldTables
<1> QED BY <1>2, <1>3

LEMMA CarStep ==
    ASSUME NEW v, NEW k, NEW X, Ahead(v, k, X), NEW n \in Nat, n < k,
           NEW e, e = log[n + 1], e.table = "car", NEW m, NEW m2, TakesCar(m, e, m2),
           NEW t, Toward(m, v, n, k, X, t)
    PROVE  Toward(m2, v, n + 1, k, X, t)
<1>1. k \in Nat /\ n + 1 \in 1 .. k
    BY DEF Ahead
<1>2. \A h, x : Silent(log, h, x, n + 1, k) /\ ~Of(e, h, x) => Silent(log, h, x, n, k)
    BY <1>1, NextEntry, Zenon
<1>3. Silent(log, "car", e.id, n + 1, k) => Holds(v, e, X)
    BY <1>1, NextEntry, Zenon DEF Ahead
<1>4. ASSUME e.id \in DOMAIN v.cars
      PROVE  e.op # "DELETE"
  <2>1. ~Removes(e, e.id)
      BY <1>1, <1>4, NotRemoved
  <2> QED BY <2>1 DEF Removes, OfCar
<1>5. ASSUME NEW c, Silent(log, "car", c, n + 1, k)
      PROVE  /\ c \in DOMAIN m2.cars <=> c \in DOMAIN v.cars
             /\ c \in DOMAIN v.cars => SameCar(m2, v, c)
  <2>1. CASE c = e.id
    <3>1. Holds(v, e, X)
        BY <1>3, <1>5, <2>1
    <3>2. /\ e.op = "DELETE" => c \notin DOMAIN v.cars
          /\ e.op # "DELETE" => c \in DOMAIN v.cars /\ v.cars[c] = e.row
        BY <2>1, <3>1 DEF Holds, Rows, Gone
    <3> QED BY <2>1, <3>2 DEF TakesCar, SameCar
  <2>2. CASE c # e.id
    <3>1. Silent(log, "car", c, n, k)
        BY <1>2, <1>5, <2>2 DEF Of
    <3>2. /\ c \in DOMAIN m.cars <=> c \in DOMAIN v.cars
          /\ c \in DOMAIN v.cars => SameCar(m, v, c)
        BY <3>1, Zenon DEF Toward
    <3> QED BY <2>2, <3>2 DEF TakesCar, SameCar
  <2> QED BY <2>1, <2>2
<1>6. ASSUME NEW c \in DOMAIN v.cars
      PROVE  c \in DOMAIN m2.cars \/ Inserted(log, c, n + 1, k)
  <2>1. c \in DOMAIN m.cars \/ Inserted(log, c, n, k)
      BY Zenon DEF Toward
  <2>2. Inserted(log, c, n, k) => Inserts(e, c) \/ Inserted(log, c, n + 1, k)
      BY <1>1, NextEntry, Zenon
  <2>3. Inserts(e, c) => e.id = c
      BY DEF Inserts, OfCar
  <2> QED BY <1>4, <2>1, <2>2, <2>3 DEF TakesCar
<1>7. ASSUME NEW c \in DOMAIN v.cars, NEW h \in HeldTables, c \in DOMAIN m.cars
      PROVE  c \in DOMAIN m2.cars /\ Held(m2, c, h) = Held(m, c, h)
    BY <1>4, <1>7 DEF TakesCar, Held
<1>8. \A h \in HeldTables : \A x : ~Of(e, h, x)
    BY DEF Of, HeldTables
<1>9. ASSUME NEW h \in HeldTables, NEW r \in DOMAIN Rows(v, h), Silent(log, h, r, n + 1, k)
      PROVE  Shown(m2, v, h, r, t)
  <2>1. Shown(m, v, h, r, t)
      BY <1>2, <1>8, <1>9, Zenon DEF Toward
  <2>2. Rows(v, h)[r].car \in DOMAIN v.cars
      BY DEF Ahead, References, Rows, HeldTables
  <2> QED BY <1>7, <2>1, <2>2 DEF Shown
<1>10. ASSUME NEW h \in HeldTables, NEW c \in DOMAIN v.cars \cap DOMAIN m2.cars,
              NEW b \in Held(m2, c, h), Silent(log, h, b.id, n + 1, k)
       PROVE  b.id \in X \/ Backed(v, h, c, b)
  <2>1. Silent(log, h, b.id, n, k)
      BY <1>2, <1>8, <1>10
  <2>2. CASE c \in DOMAIN m.cars
    <3>1. b \in Held(m, c, h) /\ c \in DOMAIN v.cars \cap DOMAIN m.cars
        BY <1>7, <2>2
    <3> QED BY <2>1, <3>1, Zenon DEF Toward
  <2>3. CASE c \notin DOMAIN m.cars
    <3>1. c = e.id /\ e.op # "DELETE"
        BY <1>4, <2>3 DEF TakesCar
    <3>2. Held(m2, c, h) = {}
        BY <2>3, <3>1 DEF TakesCar
    <3> QED BY <3>2
  <2> QED BY <2>2, <2>3
<1> QED BY <1>5, <1>6, <1>9, <1>10, Zenon DEF Toward

LEMMA RowStep ==
    ASSUME NEW v, NEW k, NEW X, Ahead(v, k, X), NEW n \in Nat, n < k,
           NEW e, e = log[n + 1], e.table \in HeldTables, NEW t, NEW m, NEW m2,
           TakesRow(m, e, t, m2), Toward(m, v, n, k, X, t),
           \A c \in DOMAIN v.cars \cap DOMAIN m.cars : Linked(m, c)
    PROVE  Toward(m2, v, n + 1, k, X, t)
<1>1. k \in Nat /\ n + 1 \in 1 .. k /\ k <= Len(log) /\ e.table # "car"
    BY DEF Ahead, HeldTables
<1>2. \A h, x : Silent(log, h, x, n + 1, k) /\ ~Of(e, h, x) => Silent(log, h, x, n, k)
    BY <1>1, NextEntry, Zenon
<1>3. Silent(log, e.table, e.id, n + 1, k) => Holds(v, e, X)
    BY <1>1, NextEntry, Zenon DEF Ahead
<1>4. \A c : ~Of(e, "car", c) /\ ~Inserts(e, c)
    BY <1>1 DEF Of, Inserts, OfCar
<1>5. /\ DOMAIN m2.cars = DOMAIN m.cars
      /\ \A c \in DOMAIN m.cars :
            m2.cars[c].cell = m.cars[c].cell /\ m2.cars[c].listed = m.cars[c].listed
    BY DEF TakesRow
<1>6. ASSUME NEW c, Silent(log, "car", c, n + 1, k)
      PROVE  /\ c \in DOMAIN m2.cars <=> c \in DOMAIN v.cars
             /\ c \in DOMAIN v.cars => SameCar(m2, v, c)
  <2>1. /\ c \in DOMAIN m.cars <=> c \in DOMAIN v.cars
        /\ c \in DOMAIN v.cars => SameCar(m, v, c)
      BY <1>2, <1>4, <1>6, Zenon DEF Toward
  <2> QED BY <1>5, <2>1 DEF SameCar
<1>7. ASSUME NEW c \in DOMAIN v.cars
      PROVE  c \in DOMAIN m2.cars \/ Inserted(log, c, n + 1, k)
  <2>1. c \in DOMAIN m.cars \/ Inserted(log, c, n, k)
      BY Zenon DEF Toward
  <2>2. Inserted(log, c, n, k) => Inserts(e, c) \/ Inserted(log, c, n + 1, k)
      BY <1>1, NextEntry, Zenon
  <2> QED BY <1>4, <1>5, <2>1, <2>2
<1>8. ASSUME NEW h \in HeldTables, NEW r \in DOMAIN Rows(v, h), Silent(log, h, r, n + 1, k),
             Live(h, Rows(v, h)[r], t)
      PROVE  /\ Rows(v, h)[r].car \in DOMAIN m2.cars
             /\ Shape(h, r, Rows(v, h)[r]) \in Held(m2, Rows(v, h)[r].car, h)
  <2>1. Rows(v, h)[r].car \in DOMAIN v.cars
      BY DEF Ahead, References, Rows, HeldTables
  <2>2. CASE Of(e, h, r)
    <3>1. e.table = h /\ e.id = r
        BY <2>2 DEF Of
    <3>2. Holds(v, e, X)
        BY <1>3, <1>8, <3>1
    <3>3. e.op # "DELETE" /\ Rows(v, h)[r] = e.row
        BY <3>1, <3>2 DEF Holds
    <3>4. e.row.car \in DOMAIN m.cars
      <4>1. SUFFICES ASSUME Inserted(log, e.row.car, n, k) PROVE FALSE
          BY <2>1, <3>3, Zenon DEF Toward
      <4>2. PICK i \in n + 1 .. k : Inserts(log[i], e.row.car)
          BY <4>1 DEF Inserted
      <4>3. log[i].id = e.row.car /\ Inserts(log[i], log[i].id)
          BY <4>2 DEF Inserts, OfCar
      <4>4. i \in 1 .. Len(log) /\ n + 1 \in 1 .. Len(log)
          BY <1>1 DEF Ahead
      <4>5. i < n + 1
          BY <1>1, <4>3, <4>4 DEF Ahead, CarsFirst
      <4> QED BY <4>5
    <3> QED BY <1>5, <1>8, <3>1, <3>3, <3>4, Zenon DEF TakesRow
  <2>3. CASE ~Of(e, h, r)
    <3>1. Shown(m, v, h, r, t)
        BY <1>2, <1>8, <2>3, Zenon DEF Toward
    <3>2. /\ Rows(v, h)[r].car \in DOMAIN m.cars
          /\ Shape(h, r, Rows(v, h)[r]) \in Held(m, Rows(v, h)[r].car, h)
        BY <1>8, <3>1, Zenon DEF Shown
    <3>3. Shape(h, r, Rows(v, h)[r]).id = r
        BY DEF Shape
    <3>4. h # e.table \/ Shape(h, r, Rows(v, h)[r]).id # e.id
        BY <2>3, <3>3 DEF Of
    <3> QED BY <1>5, <3>2, <3>4, Zenon DEF TakesRow
  <2> QED BY <2>2, <2>3
<1>9. ASSUME NEW h \in HeldTables, NEW c \in DOMAIN v.cars \cap DOMAIN m2.cars,
             NEW b \in Held(m2, c, h), Silent(log, h, b.id, n + 1, k), b.id \notin X
      PROVE  Backed(v, h, c, b)
  <2>1. c \in DOMAIN m.cars /\ c \in DOMAIN v.cars \cap DOMAIN m.cars
      BY <1>5
  <2>2. CASE Of(e, h, b.id)
    <3>1. e.table = h /\ e.id = b.id
        BY <2>2 DEF Of
    <3>2. /\ e.op # "DELETE" /\ Live(h, e.row, t)
          /\ e.row.car = c /\ b = Shape(h, b.id, e.row)
        BY <2>1, <3>1 DEF TakesRow
    <3>3. Holds(v, e, X)
        BY <1>3, <1>9, <3>1
    <3>4. b.id \in DOMAIN Rows(v, h) /\ Rows(v, h)[b.id] = e.row
        BY <1>9, <3>1, <3>2, <3>3 DEF Holds, Gone
    <3> QED BY <3>2, <3>4 DEF Backed, Live
  <2>3. CASE ~Of(e, h, b.id)
    <3>1. b \in Held(m, c, h)
        BY <2>1, <2>3 DEF TakesRow, Of
    <3>2. Silent(log, h, b.id, n, k)
        BY <1>2, <1>9, <2>3
    <3> QED BY <1>9, <2>1, <3>1, <3>2, Zenon DEF Toward
  <2> QED BY <2>2, <2>3
<1>10. \A h \in HeldTables : \A r \in DOMAIN Rows(v, h) :
          Silent(log, h, r, n + 1, k) => Shown(m2, v, h, r, t)
    BY <1>8, Zenon DEF Shown
<1> QED BY <1>6, <1>7, <1>9, <1>10, Zenon DEF Toward

LEMMA BatchMirrors ==
    ASSUME NEW v, NEW k, NEW X, Ahead(v, k, X), Given, now \in Nat, NEW o, NEW q, Owned(o, q),
           NEW m, NEW f, BatchOf(f, m, k, o, q), Toward(m, v, 0, k, X, now)
    PROVE  Mirrors(f[k], v, X, now)
<1>1. k \in Nat /\ k <= Len(log) /\ log \in Seq(Entries)
    BY DEF Ahead
<1>2. ASSUME NEW n \in 0 .. k, n < k, Toward(f[n], v, n, k, X, now)
      PROVE  Toward(f[n + 1], v, n + 1, k, X, now)
  <2>1. n + 1 \in 1 .. k /\ (n + 1) - 1 = n /\ n + 1 \in 1 .. Len(log) /\ n \in Nat
        /\ log[n + 1] \in Entries
      BY <1>1, <1>2
  <2> PICK e : e = log[n + 1]
      OBVIOUS
  <2> PICK a : a = f[n]
      OBVIOUS
  <2> PICK b : b = f[n + 1]
      OBVIOUS
  <2>2. b = Apply(a, e, now)
    <3>1. f[n + 1] = Apply(f[(n + 1) - 1], log[n + 1], now)
        BY <2>1, Zenon DEF BatchOf
    <3> QED BY <2>1, <3>1, Zenon
  <2>3. BatchInv(a, n, k, o, q)
      BY <1>2, Zenon DEF BatchOf
  <2>4. Toward(a, v, n, k, X, now) /\ e \in Entries
      BY <1>2, <2>1
  <2>5. a \in Models
      BY <2>3 DEF BatchInv
  <2>6. Toward(b, v, n + 1, k, X, now)
    <3>1. CASE e.table = "car"
      <4>1. TakesCar(a, e, b)
          BY <2>2, <2>4, <2>5, <3>1, CarApplied, Zenon
      <4> QED BY <1>2, <2>1, <2>4, <3>1, <4>1, CarStep, Zenon
    <3>2. CASE e.table \in HeldTables
      <4>1. /\ e.table = "reservation" /\ e.id \in DOMAIN a.reservationCar =>
                   a.reservationCar[e.id] = e.row.car
            /\ e.table = "recurrence" /\ e.id \in DOMAIN a.recurrenceCar =>
                   a.recurrenceCar[e.id] = e.row.car
          BY <2>1, <2>3 DEF Owned, BatchInv
      <4>2. TakesRow(a, e, now, b)
          BY <2>2, <2>4, <2>5, <3>2, <4>1, ReservationApplied, RecurrenceApplied DEF HeldTables
      <4>3. \A c \in DOMAIN v.cars \cap DOMAIN a.cars : Linked(a, c)
        <5> TAKE c \in DOMAIN v.cars \cap DOMAIN a.cars
        <5>1. Linked(a, c) \/ Doomed(c, n, k)
            BY <2>3, Zenon DEF BatchInv
        <5>2. \A j \in n + 1 .. k : j \in 1 .. k
            BY <2>1
        <5>3. ~Doomed(c, n, k)
            BY <5>2, NotRemoved, Zenon DEF Doomed
        <5> QED BY <5>1, <5>3
      <4> QED BY <1>2, <2>1, <2>4, <3>2, <4>2, <4>3, RowStep, Zenon
    <3>3. e.table = "car" \/ e.table \in HeldTables
        BY <2>4, EntryHas DEF HeldTables
    <3> QED BY <3>1, <3>2, <3>3
  <2> QED BY <2>6
<1> DEFINE S == {n \in 0 .. k : Toward(f[n], v, n, k, X, now)}
<1>3. 0 \in S
  <2>1. f[0] = m /\ 0 \in 0 .. k
      BY <1>1 DEF BatchOf
  <2> QED BY <2>1
<1>4. \A n \in 0 .. k : n < k /\ n \in S => n + 1 \in S
  <2> TAKE n \in 0 .. k
  <2> HAVE n < k /\ n \in S
  <2>1. n + 1 \in 0 .. k
      BY <1>1
  <2> QED BY <1>2, <2>1, Zenon
<1>5. \A n \in S : Toward(f[n], v, n, k, X, now)
    OBVIOUS
<1> HIDE DEF S
<1>6. \A n \in 0 .. k : n \in S
    BY <1>1, <1>3, <1>4, CountUp
<1>7. k \in 0 .. k
    BY <1>1
<1>8. Toward(f[k], v, k, k, X, now)
    BY <1>5, <1>6, <1>7, Zenon
<1> QED BY <1>1, <1>8, TowardEnds, Zenon

\* A snapshot shows the tables.
LEMMA LoadMirrors ==
    ASSUME NEW d \in Tables, References(d), NEW t \in Nat, NEW m, m = Load(d, t), NEW X
    PROVE  Mirrors(m, d, X, t)
<1>1. Loaded(m, d, t)
    BY LoadIs, Zenon
<1>2. /\ DOMAIN m.cars = DOMAIN d.cars
      /\ \A c \in DOMAIN d.cars :
            /\ m.cars[c].cell = d.cars[c].cell /\ m.cars[c].listed = d.cars[c].listed
            /\ m.cars[c].busy = LoadedBusy(d, t, c)
            /\ m.cars[c].recurrences = LoadedPlans(d, c)
  <2>1. m.cars = [c \in DOMAIN d.cars |-> m.cars[c]]
      BY <1>1, Zenon DEF Loaded
  <2>2. DOMAIN m.cars = DOMAIN d.cars
      BY <2>1
  <2> QED BY <1>1, <2>2, Zenon DEF Loaded
<1>3. \A r : Shape("reservation", r, d.resv[r]) = Windowed(d, r)
    BY DEF Shape, Windowed
<1>4. \A x : Shape("recurrence", x, d.recs[x]) = Scheduled(d, x)
    BY DEF Shape, Scheduled
<1>5. ASSUME NEW h \in HeldTables, NEW r \in DOMAIN Rows(d, h), Live(h, Rows(d, h)[r], t)
      PROVE  /\ Rows(d, h)[r].car \in DOMAIN m.cars
             /\ Shape(h, r, Rows(d, h)[r]) \in Held(m, Rows(d, h)[r].car, h)
  <2>1. CASE h = "reservation"
    <3>1. /\ r \in DOMAIN d.resv /\ d.resv[r].confirmed /\ d.resv[r].end > t
          /\ d.resv[r].car \in DOMAIN d.cars
        BY <1>5, <2>1 DEF Rows, Live, Counts, References
    <3>2. Windowed(d, r) \in LoadedBusy(d, t, d.resv[r].car)
        BY <3>1, Zenon DEF LoadedBusy
    <3> QED BY <1>2, <1>3, <2>1, <3>1, <3>2 DEF Rows, Held
  <2>2. CASE h = "recurrence"
    <3>1. r \in DOMAIN d.recs /\ d.recs[r].active /\ d.recs[r].car \in DOMAIN d.cars
        BY <1>5, <2>2 DEF Rows, Live, Counts, References
    <3>2. Scheduled(d, r) \in LoadedPlans(d, d.recs[r].car)
        BY <3>1, Zenon DEF LoadedPlans
    <3> QED BY <1>2, <1>4, <2>2, <3>1, <3>2 DEF Rows, Held
  <2> QED BY <2>1, <2>2 DEF HeldTables
<1>6. ASSUME NEW h \in HeldTables, NEW c \in DOMAIN d.cars, NEW b \in Held(m, c, h)
      PROVE  Backed(d, h, c, b)
  <2>1. CASE h = "reservation"
    <3>1. b \in LoadedBusy(d, t, c)
        BY <1>2, <2>1 DEF Held
    <3>2. PICK r \in DOMAIN d.resv : /\ d.resv[r].confirmed /\ d.resv[r].car = c
                                     /\ b = Windowed(d, r)
        BY <3>1 DEF LoadedBusy
    <3>3. b.id = r
        BY <3>2 DEF Windowed
    <3> QED BY <1>3, <2>1, <3>2, <3>3 DEF Backed, Rows, Counts
  <2>2. CASE h = "recurrence"
    <3>1. b \in LoadedPlans(d, c)
        BY <1>2, <2>2 DEF Held
    <3>2. PICK x \in DOMAIN d.recs : d.recs[x].active /\ d.recs[x].car = c /\ b = Scheduled(d, x)
        BY <3>1 DEF LoadedPlans
    <3>3. b.id = x
        BY <3>2 DEF Scheduled
    <3> QED BY <1>4, <2>2, <3>2, <3>3 DEF Backed, Rows, Counts
  <2> QED BY <2>1, <2>2 DEF HeldTables
<1>7. \A c \in DOMAIN d.cars : SameCar(m, d, c)
    BY <1>2 DEF SameCar
<1>8. \A h \in HeldTables : \A r \in DOMAIN Rows(d, h) : Shown(m, d, h, r, t)
    BY <1>5, Zenon DEF Shown
<1> QED BY <1>2, <1>6, <1>7, <1>8, Zenon DEF Mirrors

-----------------------------------------------------------------------------
(* Every step keeps the invariant *)

LEMMA AccountedNow ==
    ASSUME NEW l, NEW d, NEW n \in Nat, NEW X
    PROVE  Accounted(l, d, d, n, n, X)
  BY DEF Accounted, SameRow

LEMMA SnapshotMirrors ==
    ASSUME IndexInv, MirrorInv, Snapshot
    PROVE  MirrorInv'
<1>1. /\ db \in Tables /\ References(db) /\ now \in Nat /\ Len(log) \in Nat
    BY WindowAssumption DEF IndexInv, Typed
<1>2. PICK y \in Pods :
         /\ pod' = y /\ y.model = pod.model /\ y.view = pod.view
         /\ pod.phase \in {"down", "up"}
         /\ y.phase = IF pod.phase = "down" THEN "starting" ELSE "rebuilding"
         /\ y.next.view = db /\ y.next.model = Load(db, now) /\ y.next.read = Len(log)
    BY SnapshotIs, Zenon
<1>3. UNCHANGED <<now, db, erased, log>>
    BY SnapshotIs, Zenon
<1> PICK m : m = Load(db, now)
    OBVIOUS
<1>4. Mirrors(m, db, erased, now)
    BY <1>1, LoadMirrors, Zenon
<1>5. Accounted(log, db, db, Len(log), Len(log), erased)
    BY <1>1, AccountedNow, Zenon
<1>6. /\ y.phase \in {"starting", "rebuilding"} /\ y.phase # "pulled"
      /\ y.phase \in {"up", "rebuilding", "pulled"} => pod.phase \in {"up", "rebuilding", "pulled"}
    BY <1>2
<1>7. CarsFirst(log) /\ LastWord(log, db, Len(log), erased)
    BY DEF MirrorInv
<1>8. pod.phase \in {"up", "rebuilding", "pulled"} =>
          /\ Mirrors(y.model, y.view, erased, now)
          /\ Accounted(log, y.view, db, 0, Len(log), erased)
    BY <1>2, Zenon DEF MirrorInv
<1>9. y.next.view = db /\ y.next.model = m /\ y.next.read = Len(log)
    BY <1>2
<1> QED BY <1>1, <1>2, <1>3, <1>4, <1>5, <1>6, <1>7, <1>8, <1>9, Zenon DEF MirrorInv, References

LEMMA PullMirrors ==
    ASSUME IndexInv, MirrorInv, Pull
    PROVE  MirrorInv'
<1>1. /\ db \in Tables /\ References(db) /\ now \in Nat /\ Len(log) \in Nat
    BY WindowAssumption DEF IndexInv, Typed
<1>2. PICK y \in Pods :
         /\ pod' = y /\ y.model = pod.model /\ y.view = pod.view
         /\ pod.phase = "up" /\ y.phase = "pulled"
         /\ y.next.view = db /\ y.next.model = NewModel /\ y.next.read = Len(log)
    BY PullIs, Zenon
<1>3. UNCHANGED <<now, db, erased, log>>
    BY PullIs, Zenon
<1>4. CarsFirst(log) /\ LastWord(log, db, Len(log), erased)
    BY DEF MirrorInv
<1>5. /\ Mirrors(y.model, y.view, erased, now)
      /\ Accounted(log, y.view, db, 0, Len(log), erased)
  <2>1. pod.phase \in {"up", "rebuilding", "pulled"}
      BY <1>2
  <2> QED BY <1>2, <2>1, Zenon DEF MirrorInv
<1>6. Accounted(log, db, db, Len(log), Len(log), erased)
    BY <1>1, AccountedNow, Zenon
<1>7. y.phase \notin {"starting", "rebuilding"}
    BY <1>2
<1> QED BY <1>1, <1>2, <1>3, <1>4, <1>5, <1>6, <1>7, Zenon DEF MirrorInv, References

LEMMA InstallMirrors ==
    ASSUME IndexInv, MirrorInv, NEW passed \in 0 .. pod.next.read, Install(passed)
    PROVE  MirrorInv'
<1>0. /\ Typed /\ References(db) /\ Given /\ LifeOfCar /\ Owners /\ Orphans
      /\ Agree(pod.model)
      /\ db \in Tables /\ now \in Nat /\ log \in Seq(Entries)
      /\ pod.next.read \in Nat /\ pod.next.read <= Len(log)
      /\ pod.model \in Models /\ pod.next.model \in Models /\ pod.next.view \in Tables
    BY WindowAssumption DEF IndexInv, Typed
<1> PICK k : k = pod.next.read
    OBVIOUS
<1> PICK v : v = pod.next.view
    OBVIOUS
<1>1. pod.phase \in {"starting", "rebuilding", "pulled"}
    BY Zenon DEF Install
<1> PICK m : m = IF pod.phase = "pulled"
                 THEN Applied(pod.model, SubSeq(log, 1, pod.next.read)) ELSE pod.next.model
    OBVIOUS
<1>2. m \in Models /\ Mirrors(m, v, erased, now)
  <2>1. CASE pod.phase = "pulled"
    <3>1. PICK o, q : Owned(o, q)
        BY <1>0 DEF Owners
    <3>2. BatchInv(pod.model, 0, k, o, q)
      <4>1. /\ \A r \in DOMAIN pod.model.reservationCar :
                  pod.model.reservationCar[r] = o[r] /\ r \in used
            /\ \A x \in DOMAIN pod.model.recurrenceCar :
                  pod.model.recurrenceCar[x] = q[x] /\ x \in used
          BY <1>0, <3>1 DEF Owned, Given
      <4>2. \A c \in CarIds \ DOMAIN pod.model.cars :
               Unowned(pod.model, c) \/ (c \in used \ DOMAIN db.cars /\ Ends(c, 0, k))
          BY <1>0, <2>1 DEF Orphans
      <4> QED BY <1>0, <4>1, <4>2 DEF BatchInv, Agree
    <3>3. k \in Nat /\ k <= Len(log)
        BY <1>0
    <3>4. PICK f : BatchOf(f, pod.model, k, o, q)
        BY <1>0, <3>1, <3>2, <3>3, BatchRun, Zenon
    <3>5. Ahead(v, k, erased)
        BY <1>0, <2>1 DEF Ahead, MirrorInv
    <3>6. Toward(pod.model, v, 0, k, erased, now)
      <4>1. Mirrors(pod.model, pod.view, erased, now) /\ Accounted(log, pod.view, v, 0, k, erased)
          BY <2>1 DEF MirrorInv
      <4> QED BY <4>1, TowardStarts, Zenon
    <3>7. m = f[k]
        BY <2>1, <3>4, Zenon DEF BatchOf
    <3>8. Mirrors(f[k], v, erased, now)
        BY <1>0, <3>1, <3>4, <3>5, <3>6, BatchMirrors, Zenon
    <3>9. m \in Models
      <4>1. k \in 0 .. k
          BY <3>3
      <4> QED BY <3>4, <3>7, <4>1, Zenon DEF BatchOf, BatchInv
    <3> QED BY <3>7, <3>8, <3>9
  <2>2. CASE pod.phase # "pulled"
    <3>1. pod.phase \in {"starting", "rebuilding"} /\ m = pod.next.model
        BY <1>1, <2>2
    <3>2. Mirrors(pod.next.model, pod.next.view, erased, now)
        BY <3>1, Zenon DEF MirrorInv
    <3> QED BY <1>0, <3>1, <3>2
  <2> QED BY <2>1, <2>2
<1>3. PICK y \in Pods : /\ pod' = y /\ y.model = m /\ y.view = pod.next.view
                        /\ y.phase = "up" /\ y.next = NoRead
    BY <1>2, InstallIs, Zenon
<1> PICK w : w = log'
    OBVIOUS
<1>4. w = SubSeq(log, passed + 1, Len(log)) /\ UNCHANGED <<now, db, erased>>
    BY <1>2, InstallIs, Zenon
<1>5. passed \in 0 .. Len(log) /\ k \in passed .. Len(log) /\ 0 \in 0 .. Len(log)
    BY <1>0
<1>6. /\ CarsFirst(log) /\ LastWord(log, db, Len(log), erased)
      /\ Accounted(log, v, db, k, Len(log), erased)
    BY <1>1, Zenon DEF MirrorInv
<1>7. /\ CarsFirst(w) /\ LastWord(w, db, Len(w), erased)
      /\ Accounted(w, v, db, 0, Len(w), erased)
    BY <1>0, <1>4, <1>5, <1>6, Later, Zenon
<1>8. /\ y.phase \notin {"starting", "rebuilding", "pulled"}
      /\ y.phase \notin {"starting", "rebuilding"} /\ y.phase # "pulled"
    BY <1>3
<1>9. y.next.view = NoRows /\ References(NoRows)
    BY <1>3, Empty
<1>10. y.model = m /\ y.view = v
    BY <1>3
<1> QED BY <1>2, <1>3, <1>4, <1>7, <1>8, <1>9, <1>10, Zenon DEF MirrorInv, References

LEMMA TickMirrors ==
    ASSUME IndexInv, MirrorInv, Tick
    PROVE  MirrorInv'
<1>1. /\ now \in Nat /\ pod.view \in Tables /\ pod.next.view \in Tables
    BY WindowAssumption DEF IndexInv, Typed
<1> PICK t : t = now + 1
    OBVIOUS
<1>2. t \in Nat /\ now <= t /\ erased \subseteq erased
    BY <1>1
<1>3. now' = t /\ UNCHANGED <<db, erased, log, pod>>
    BY Zenon DEF Tick
<1>4. \A m : \A v \in Tables : Mirrors(m, v, erased, now) => Mirrors(m, v, erased, t)
    BY <1>1, <1>2, MirrorsMore, Zenon
<1> QED BY <1>1, <1>3, <1>4, Zenon DEF MirrorInv, References

LEMMA MirrorKeeps ==
    ASSUME IndexInv, MirrorInv, [Next]_vars
    PROVE  MirrorInv'
<1>1. CASE PodStep
    BY <1>1, SnapshotMirrors, PullMirrors, InstallMirrors, Zenon DEF PodStep
<1>2. CASE UNCHANGED vars
  <2>1. UNCHANGED <<now, db, erased, log, pod>>
      BY <1>2 DEF vars
  <2> QED BY <2>1, Zenon DEF MirrorInv, CarsFirst, References
<1> QED BY <1>1, <1>2, WritesMirror, TickMirrors, Zenon DEF Next

LEMMA MirrorEstablished == Init => MirrorInv
<1> SUFFICES ASSUME Init PROVE MirrorInv
    OBVIOUS
<1>1. Len(log) = 0 /\ pod.phase = "down" /\ pod.next = NoRead
    BY DEF Init
<1>2. CarsFirst(log) /\ LastWord(log, db, Len(log), erased)
    BY <1>1 DEF CarsFirst, LastWord
<1>3. References(pod.next.view)
    BY <1>1, Empty
<1> QED BY <1>1, <1>2, <1>3 DEF MirrorInv

LEMMA MirrorHolds == Spec => [](IndexInv /\ MirrorInv)
<1>1. Init => IndexInv /\ MirrorInv
    BY InitEstablishes, MirrorEstablished
<1>2. IndexInv /\ MirrorInv /\ [Next]_vars => (IndexInv /\ MirrorInv)'
    BY NextKeeps, MirrorKeeps
<1> QED BY <1>1, <1>2, PTL DEF Spec

-----------------------------------------------------------------------------
(* The theorems *)

\* What a pod that serves knows of a row.
Serves(m, v) ==
    /\ v \in Tables /\ Cellular(m) /\ Mirrors(m, v, erased, now)

LEMMA Serving ==
    ASSUME IndexInv, MirrorInv, pod.phase \notin {"down", "starting"}
    PROVE  Serves(pod.model, pod.view)
<1>1. pod.phase \in {"up", "rebuilding", "pulled"} /\ pod.view \in Tables
    BY DEF IndexInv, Typed, Phases
<1>2. Mirrors(pod.model, pod.view, erased, now)
    BY <1>1, Zenon DEF MirrorInv
<1> QED BY <1>1, <1>2 DEF Serves, IndexInv, Agree

LEMMA Bucketed ==
    ASSUME NEW m, NEW v, Serves(m, v), NEW cell, NEW c
    PROVE  <<cell, c>> \in m.cells <=> c \in DOMAIN v.cars /\ v.cars[c].cell = cell
<1>1. m.cells = {<<m.cars[x].cell, x>> : x \in DOMAIN m.cars}
    BY DEF Serves, Cellular
<1>2. DOMAIN m.cars = DOMAIN v.cars /\ \A x \in DOMAIN v.cars : m.cars[x].cell = v.cars[x].cell
    BY DEF Serves, Mirrors, SameCar
<1> QED BY <1>1, <1>2

\* The rows of a car that keep it from being found.
LEMMA BusyShown ==
    ASSUME NEW m, NEW v, Serves(m, v), NEW r \in DOMAIN v.resv,
           v.resv[r].confirmed, v.resv[r].end > now
    PROVE  \E b \in m.cars[v.resv[r].car].busy :
              /\ b.start = v.resv[r].start /\ b.end = v.resv[r].end
              /\ b.expires = v.resv[r].expires
<1>1. "reservation" \in HeldTables /\ Rows(v, "reservation") = v.resv
    BY DEF HeldTables, Rows
<1>2. Live("reservation", v.resv[r], now)
    BY DEF Live, Counts
<1>3. Shown(m, v, "reservation", r, now)
    BY <1>1, Zenon DEF Serves, Mirrors
<1>4. Shape("reservation", r, v.resv[r]) \in m.cars[v.resv[r].car].busy
    BY <1>1, <1>2, <1>3 DEF Shown, Held
<1> QED BY <1>4 DEF Shape

LEMMA PlansShown ==
    ASSUME NEW m, NEW v, Serves(m, v), NEW x \in DOMAIN v.recs, v.recs[x].active
    PROVE  \E y \in m.cars[v.recs[x].car].recurrences :
              y.start = v.recs[x].start /\ y.end = v.recs[x].end
<1>1. "recurrence" \in HeldTables /\ Rows(v, "recurrence") = v.recs
    BY DEF HeldTables, Rows
<1>2. Live("recurrence", v.recs[x], now)
    BY DEF Live, Counts
<1>3. Shown(m, v, "recurrence", x, now)
    BY <1>1, Zenon DEF Serves, Mirrors
<1>4. Shape("recurrence", x, v.recs[x]) \in m.cars[v.recs[x].car].recurrences
    BY <1>1, <1>2, <1>3 DEF Shown, Held
<1> QED BY <1>4 DEF Shape

\* The other way round, but for what a TRUNCATE took.
LEMMA BusyBacked ==
    ASSUME NEW m, NEW v, Serves(m, v), NEW c \in DOMAIN v.cars,
           NEW b \in m.cars[c].busy, b.id \notin erased
    PROVE  \E r \in DOMAIN v.resv :
              /\ v.resv[r].car = c /\ v.resv[r].confirmed
              /\ b.start = v.resv[r].start /\ b.end = v.resv[r].end
              /\ b.expires = v.resv[r].expires
<1>1. /\ "reservation" \in HeldTables /\ Rows(v, "reservation") = v.resv
      /\ b \in Held(m, c, "reservation")
    BY DEF HeldTables, Rows, Held
<1>2. Backed(v, "reservation", c, b)
    BY <1>1, Zenon DEF Serves, Mirrors
<1> PICK r : r = b.id
    OBVIOUS
<1>3. /\ r \in DOMAIN v.resv /\ v.resv[r].car = c /\ v.resv[r].confirmed
      /\ b = Shape("reservation", r, v.resv[r])
    BY <1>1, <1>2 DEF Backed, Counts
<1> QED BY <1>3 DEF Shape

LEMMA PlansBacked ==
    ASSUME NEW m, NEW v, Serves(m, v), NEW c \in DOMAIN v.cars,
           NEW y \in m.cars[c].recurrences, y.id \notin erased
    PROVE  \E x \in DOMAIN v.recs :
              /\ v.recs[x].car = c /\ v.recs[x].active
              /\ y.start = v.recs[x].start /\ y.end = v.recs[x].end
<1>1. /\ "recurrence" \in HeldTables /\ Rows(v, "recurrence") = v.recs
      /\ y \in Held(m, c, "recurrence")
    BY DEF HeldTables, Rows, Held
<1>2. Backed(v, "recurrence", c, y)
    BY <1>1, Zenon DEF Serves, Mirrors
<1> PICK x : x = y.id
    OBVIOUS
<1>3. /\ x \in DOMAIN v.recs /\ v.recs[x].car = c /\ v.recs[x].active
      /\ y = Shape("recurrence", x, v.recs[x])
    BY <1>1, <1>2 DEF Backed, Counts
<1> QED BY <1>3 DEF Shape

\* Schedules with the same window recur alike.
LEMMA RecursAlike ==
    ASSUME NEW x, NEW y, x.start = y.start, x.end = y.end, NEW s, NEW e
    PROVE  Recurs(x, s, e) <=> Recurs(y, s, e)
  BY DEF Recurs

\* What a search offers is free: a car found for a window that has not begun has
\* no booking or schedule in that window, in the tables the pod last read, after
\* any number of entries delivered again and snapshots (fleet.go:71).
THEOREM FoundIsFreeAlways == Spec => []FoundIsFree
<1>1. ASSUME IndexInv, MirrorInv
      PROVE  FoundIsFree
  <2> SUFFICES ASSUME pod.phase \notin {"down", "starting"},
                      NEW cell \in Cells, NEW s \in now .. MaxTime, NEW e \in 1 .. MaxTime + 1,
                      s < e, NEW c \in Offered(pod.model, cell, s, e)
               PROVE  c \in Free(pod.view, cell, s, e)
      BY Zenon DEF FoundIsFree
  <2> PICK m, v : m = pod.model /\ v = pod.view
      OBVIOUS
  <2>1. Serves(m, v)
      BY <1>1, Serving, Zenon
  <2>2. /\ c \in DOMAIN m.cars /\ <<cell, c>> \in m.cells
        /\ m.cars[c].listed
        /\ \A b \in m.cars[c].busy :
              (b.expires # Null /\ b.expires <= now) \/ ~Meet(b.start, b.end, s, e)
        /\ \A x \in m.cars[c].recurrences : ~Recurs(x, s, e)
      BY DEF Offered, Available
  <2>3. c \in DOMAIN v.cars /\ v.cars[c].cell = cell
      BY <2>1, <2>2, Bucketed
  <2>4. v.cars[c].listed
      BY <2>1, <2>2, <2>3 DEF Serves, Mirrors, SameCar
  <2>5. now \in Nat
      BY <1>1, WindowAssumption DEF IndexInv, Typed
  <2>6. ASSUME NEW r \in DOMAIN v.resv, v.resv[r].car = c, v.resv[r].confirmed,
               v.resv[r].expires = Null \/ v.resv[r].expires > now,
               Meet(v.resv[r].start, v.resv[r].end, s, e)
        PROVE  FALSE
    <3>1. v.resv[r].end \in Nat /\ v.resv[r].expires \in Nat
        BY <2>1, TablesHas DEF Serves, ResRow
    <3>2. v.resv[r].end > now
        BY <2>5, <2>6, <3>1 DEF Meet
    <3>3. PICK b \in m.cars[c].busy : /\ b.start = v.resv[r].start /\ b.end = v.resv[r].end
                                      /\ b.expires = v.resv[r].expires
        BY <2>1, <2>6, <3>2, BusyShown
    <3>4. b.expires # Null /\ b.expires <= now
        BY <2>2, <2>6, <3>3
    <3> QED BY <2>5, <2>6, <3>1, <3>3, <3>4
  <2>7. ASSUME NEW x \in DOMAIN v.recs, v.recs[x].car = c, v.recs[x].active
        PROVE  ~Recurs(v.recs[x], s, e)
    <3>1. PICK y \in m.cars[c].recurrences :
             y.start = v.recs[x].start /\ y.end = v.recs[x].end
        BY <2>1, <2>7, PlansShown
    <3> QED BY <2>2, <3>1, RecursAlike
  <2> QED BY <2>3, <2>4, <2>6, <2>7, Zenon DEF Free
<1> QED BY <1>1, MirrorHolds, PTL

\* A car with some of its windows and schedules taken away.
LEMMA CarLess ==
    ASSUME NEW x \in Car, NEW y,
           y = [x EXCEPT !.busy        = {b \in @ : b.id \notin erased},
                         !.recurrences = {z \in @ : z.id \notin erased}]
    PROVE  /\ y.listed = x.listed
           /\ y.busy = {b \in x.busy : b.id \notin erased}
           /\ y.recurrences = {z \in x.recurrences : z.id \notin erased}
  BY DEF Car

\* What is free is offered: a car that the tables have free is in the bucket of its
\* cell, and nothing but windows and schedules that a TRUNCATE removed without an
\* entry keeps a search from offering it (fleet.go:71).
THEOREM FreeIsFoundAlways == Spec => []FreeIsFound
<1>1. ASSUME IndexInv, MirrorInv
      PROVE  FreeIsFound
  <2> SUFFICES ASSUME pod.phase \notin {"down", "starting"},
                      NEW cell \in Cells, NEW s \in now .. MaxTime, NEW e \in 1 .. MaxTime + 1,
                      s < e, NEW c \in Free(pod.view, cell, s, e)
               PROVE  /\ <<cell, c>> \in pod.model.cells
                      /\ Available([pod.model.cars[c] EXCEPT
                                       !.busy        = {b \in @ : b.id \notin erased},
                                       !.recurrences = {x \in @ : x.id \notin erased}], s, e)
      BY Zenon DEF FreeIsFound
  <2> PICK m, v : m = pod.model /\ v = pod.view
      OBVIOUS
  <2>1. Serves(m, v)
      BY <1>1, Serving, Zenon
  <2>2. /\ c \in DOMAIN v.cars /\ v.cars[c].cell = cell /\ v.cars[c].listed
        /\ \A r \in DOMAIN v.resv :
              v.resv[r].car = c /\ v.resv[r].confirmed
              /\ (v.resv[r].expires = Null \/ v.resv[r].expires > now)
              => ~Meet(v.resv[r].start, v.resv[r].end, s, e)
        /\ \A x \in DOMAIN v.recs :
              v.recs[x].car = c /\ v.recs[x].active => ~Recurs(v.recs[x], s, e)
      BY Zenon DEF Free
  <2>3. <<cell, c>> \in m.cells
      BY <2>1, <2>2, Bucketed
  <2>4. m.cars[c] \in Car /\ m.cars[c].listed /\ now \in Nat
    <3>1. m \in Models /\ now \in Nat
        BY <1>1, WindowAssumption DEF IndexInv, Typed
    <3>2. c \in DOMAIN m.cars /\ m.cars[c].listed = v.cars[c].listed
        BY <2>1, <2>2 DEF Serves, Mirrors, SameCar
    <3> QED BY <2>2, <3>1, <3>2, ModelHas
  <2> PICK y : y = [m.cars[c] EXCEPT !.busy        = {b \in @ : b.id \notin erased},
                                     !.recurrences = {z \in @ : z.id \notin erased}]
      OBVIOUS
  <2>5. /\ y.listed = m.cars[c].listed
        /\ y.busy = {b \in m.cars[c].busy : b.id \notin erased}
        /\ y.recurrences = {z \in m.cars[c].recurrences : z.id \notin erased}
      BY <2>4, CarLess, Zenon
  <2>6. ASSUME NEW b \in y.busy
        PROVE  (b.expires # Null /\ b.expires <= now) \/ ~Meet(b.start, b.end, s, e)
    <3>1. b \in m.cars[c].busy /\ b.id \notin erased
        BY <2>5
    <3>2. PICK r \in DOMAIN v.resv :
             /\ v.resv[r].car = c /\ v.resv[r].confirmed
             /\ b.start = v.resv[r].start /\ b.end = v.resv[r].end
             /\ b.expires = v.resv[r].expires
        BY <2>1, <2>2, <3>1, BusyBacked
    <3>3. v.resv[r].expires \in Nat
        BY <2>1, TablesHas DEF Serves, ResRow
    <3> QED BY <2>2, <2>4, <3>2, <3>3
  <2>7. ASSUME NEW z \in y.recurrences
        PROVE  ~Recurs(z, s, e)
    <3>1. z \in m.cars[c].recurrences /\ z.id \notin erased
        BY <2>5
    <3>2. PICK x \in DOMAIN v.recs :
             /\ v.recs[x].car = c /\ v.recs[x].active
             /\ z.start = v.recs[x].start /\ z.end = v.recs[x].end
        BY <2>1, <2>2, <3>1, PlansBacked
    <3> QED BY <2>2, <3>2, RecursAlike
  <2>8. Available(y, s, e)
      BY <2>4, <2>5, <2>6, <2>7, Zenon DEF Available
  <2> QED BY <2>3, <2>8, Zenon
<1> QED BY <1>1, MirrorHolds, PTL

=============================================================================
