--------------------------- MODULE FleetModelProofs ---------------------------
EXTENDS FleetModel, FiniteSetTheorems, TLAPS

-----------------------------------------------------------------------------
(* The inductive invariant *)

Table(K, V) == UNION {[D -> V] : D \in SUBSET K}

Ops == {"INSERT", "UPDATE", "DELETE"}

CarEntry == [table : {"car"}, op : Ops, id : CarIds, row : CarRow]
ResEntry == [table : {"reservation"}, op : Ops, id : ResIds, row : ResRow]
RecEntry == [table : {"recurrence"}, op : Ops, id : RecIds, row : RecRow]

Entries == CarEntry \cup ResEntry \cup RecEntry

Tables == [cars : Table(CarIds, CarRow), resv : Table(ResIds, ResRow),
           recs : Table(RecIds, RecRow)]

Models == [cars : Table(CarIds, Car), cells : SUBSET (Cells \X CarIds),
           reservationCar : Table(ResIds, CarIds), recurrenceCar : Table(RecIds, CarIds)]

Phases == {"down", "starting", "up", "rebuilding", "pulled"}

Typed ==
    /\ now \in 0 .. MaxTime
    /\ db \in Tables
    /\ log \in Seq(Entries)
    /\ pod \in [phase : Phases, model : Models, view : Tables,
                next : [view : Tables, model : Models, read : Nat]]
    /\ pod.next.read <= Len(log)

Finite ==
    /\ IsFiniteSet(DOMAIN db.cars)
    /\ IsFiniteSet(DOMAIN db.resv)
    /\ IsFiniteSet(DOMAIN db.recs)

\* What an entry is about.
OfCar(e, c) == e.table = "car" /\ e.id = c
OfRes(e, r) == e.table = "reservation" /\ e.id = r
OfRec(e, x) == e.table = "recurrence" /\ e.id = x
Removes(e, c) == OfCar(e, c) /\ e.op = "DELETE"
Upserts(e, c) == OfCar(e, c) /\ e.op # "DELETE"

\* Rows belong to cars that are there, and no id is given twice.
References(d) ==
    /\ \A r \in DOMAIN d.resv : d.resv[r].car \in DOMAIN d.cars
    /\ \A x \in DOMAIN d.recs : d.recs[x].car \in DOMAIN d.cars

Given ==
    /\ DOMAIN db.cars \cup DOMAIN db.resv \cup DOMAIN db.recs \subseteq used
    /\ \A i \in 1 .. Len(log) :
          log[i].id \in used /\ (log[i].table # "car" => log[i].row.car \in used)
    /\ DOMAIN pod.model.reservationCar \cup DOMAIN pod.model.recurrenceCar \subseteq used
    /\ DOMAIN pod.next.model.reservationCar \cup DOMAIN pod.next.model.recurrenceCar \subseteq used

\* Nothing is logged of a car that was deleted, and the log has its end if it
\* has anything of it.
LifeOfCar ==
    /\ \A i \in 1 .. Len(log) : \A c \in CarIds : Removes(log[i], c) =>
          /\ c \notin DOMAIN db.cars
          /\ \A j \in i + 1 .. Len(log) : ~OfCar(log[j], c)
    /\ \A i \in 1 .. Len(log) : \A c \in CarIds :
          Upserts(log[i], c) /\ c \notin DOMAIN db.cars =>
              \E j \in i + 1 .. Len(log) : Removes(log[j], c)

\* A row stays with its car, in the tables, the log and the id maps.
Owned(o, q) ==
    /\ \A r \in DOMAIN db.resv : db.resv[r].car = o[r]
    /\ \A x \in DOMAIN db.recs : db.recs[x].car = q[x]
    /\ \A i \in 1 .. Len(log) :
          /\ log[i].table = "reservation" => log[i].row.car = o[log[i].id]
          /\ log[i].table = "recurrence"  => log[i].row.car = q[log[i].id]
    /\ \A m \in {pod.model, pod.next.model} :
          /\ \A r \in DOMAIN m.reservationCar : m.reservationCar[r] = o[r]
          /\ \A x \in DOMAIN m.recurrenceCar : m.recurrenceCar[x] = q[x]

Owners == \E o, q : Owned(o, q)

\* The maps of one model agree.
Cellular(m) == m.cells = {<<m.cars[c].cell, c>> : c \in DOMAIN m.cars}

Unique(m) ==
    \A c \in DOMAIN m.cars : \A a, b \in m.cars[c].busy : a.id = b.id => a = b

Linked(m, c) ==
    /\ {b.id : b \in m.cars[c].busy} =
          {r \in DOMAIN m.reservationCar : m.reservationCar[r] = c}
    /\ {x.id : x \in m.cars[c].recurrences} =
          {x \in DOMAIN m.recurrenceCar : m.recurrenceCar[x] = c}

\* No id map leads to the car.
Unowned(m, c) ==
    /\ \A r \in DOMAIN m.reservationCar : m.reservationCar[r] # c
    /\ \A x \in DOMAIN m.recurrenceCar : m.recurrenceCar[x] # c

Agree(m) == Cellular(m) /\ Unique(m) /\ \A c \in DOMAIN m.cars : Linked(m, c)

\* The entries from n + 1 to k do not leave c in a model.
Ends(c, n, k) ==
    \A i \in n + 1 .. k : Upserts(log[i], c) => \E j \in i + 1 .. k : Removes(log[j], c)

\* Only of a car that is deleted may the id maps know more than the cars: the
\* entry that removed it, given again, comes after those that would add it.
Orphans ==
    \A c \in CarIds \ DOMAIN pod.model.cars :
        \/ Unowned(pod.model, c)
        \/ /\ c \in used \ DOMAIN db.cars
           /\ pod.phase = "pulled" => Ends(c, 0, pod.next.read)

IndexInv ==
    /\ Typed /\ Finite
    /\ References(db) /\ Given /\ LifeOfCar /\ Owners
    /\ Agree(pod.model) /\ Agree(pod.next.model)
    /\ Orphans
    /\ \A c \in CarIds \ DOMAIN pod.next.model.cars : Unowned(pod.next.model, c)

-----------------------------------------------------------------------------
(* Folds *)

\* Induction up to a bound, over a set rather than a predicate.
LEMMA CountUp ==
    ASSUME NEW L \in Nat, NEW S, 0 \in S,
           \A n \in 0 .. L : n < L /\ n \in S => n + 1 \in S
    PROVE  \A n \in 0 .. L : n \in S
<1> DEFINE T == {n \in 0 .. L : n \notin S}
<1> SUFFICES ASSUME T # {} PROVE FALSE
    OBVIOUS
<1>1. T \subseteq Nat
    OBVIOUS
<1>2. PICK n \in T : \A k \in T : ~ (<<k, n>> \in OpToRel(<, Nat))
    BY <1>1, NatLessThanWellFounded, WFMin
<1>3. \A k \in T : ~ (k < n)
    BY <1>1, <1>2 DEF OpToRel
<1>4. n # 0 /\ n - 1 \in 0 .. L /\ n - 1 \notin T
    BY <1>3
<1> QED BY <1>4

\* f[n] is the model after the first n of the entries.
IsRun(f, m, es) ==
    f = [n \in 0 .. Len(es) |-> IF n = 0 THEN m ELSE Apply(f[n - 1], es[n], now)]

LEMMA FoldExists ==
    ASSUME NEW m, NEW es, Len(es) \in Nat
    PROVE  \E f : IsRun(f, m, es)
<1> DEFINE L == Len(es)
           Run(k, f) == f = [n \in 0 .. k |-> IF n = 0 THEN m ELSE Apply(f[n - 1], es[n], now)]
           S == {k \in 0 .. L : \E f : Run(k, f)}
<1>1. 0 \in S
  <2> DEFINE f == [n \in 0 .. 0 |-> m]
  <2>1. Run(0, f)
      OBVIOUS
  <2>2. \E x : Run(0, x)
      BY <2>1
  <2> QED BY <2>2
<1>2. ASSUME NEW k \in 0 .. L, k < L, k \in S
      PROVE  k + 1 \in S
  <2>1. PICK f : Run(k, f)
      BY <1>2
  <2> DEFINE g == [n \in 0 .. k + 1 |->
                     IF n = k + 1 THEN Apply(f[k], es[n], now) ELSE f[n]]
             h == [n \in 0 .. k + 1 |-> IF n = 0 THEN m ELSE Apply(g[n - 1], es[n], now)]
  <2>2. ASSUME NEW n \in 0 .. k + 1 PROVE g[n] = h[n]
    <3>1. CASE n = k + 1
        BY <3>1
    <3>2. CASE n # k + 1
      <4> HIDE DEF L
      <4>1. n \in 0 .. k /\ g[n] = f[n]
          BY <3>2
      <4>2. CASE n = 0
          BY <4>1, <4>2, <2>1
      <4>3. CASE n # 0
        <5>1. n - 1 \in 0 .. k /\ n - 1 # k + 1 /\ n - 1 \in 0 .. k + 1
            BY <4>1, <4>3
        <5>2. g[n - 1] = f[n - 1]
            BY <5>1
        <5>3. f[n] = Apply(f[n - 1], es[n], now)
            BY <2>1, <4>1, <4>3
        <5>4. h[n] = Apply(g[n - 1], es[n], now)
            BY <4>3
        <5> QED BY <4>1, <5>2, <5>3, <5>4
      <4> QED BY <4>2, <4>3
    <3> QED BY <3>1, <3>2
  <2>3. g = h
      BY <2>2
  <2>4. Run(k + 1, g)
      BY <2>3
  <2>5. \E x : Run(k + 1, x)
      BY <2>4, Zenon
  <2>6. k + 1 \in 0 .. L
      BY <1>2
  <2> QED BY <2>5, <2>6, Zenon
<1>3. \A k \in 0 .. L : k \in S
  <2> HIDE DEF S
  <2> QED BY <1>1, <1>2, CountUp
<1>4. L \in S
    BY <1>3
<1>5. \E f : Run(L, f)
    BY <1>4
<1> QED BY <1>5, Zenon DEF IsRun

RunsOn(f, m, es) ==
    /\ f[0] = m
    /\ \A n \in 1 .. Len(es) : f[n] = Apply(f[n - 1], es[n], now)
    /\ Applied(m, es) = f[Len(es)]

LEMMA AppliedRun ==
    ASSUME NEW m, NEW es, Len(es) \in Nat
    PROVE  \E f : RunsOn(f, m, es)
<1> DEFINE after == CHOOSE f : IsRun(f, m, es)
<1>1. \E f : IsRun(f, m, es)
    BY FoldExists
<1>2. IsRun(after, m, es)
    BY <1>1, Zenon
<1>3. Applied(m, es) = after[Len(es)]
    BY Zenon DEF Applied, IsRun
<1> HIDE DEF after
<1>4. \A n \in 0 .. Len(es) : after[n] = IF n = 0 THEN m ELSE Apply(after[n - 1], es[n], now)
    BY <1>2 DEF IsRun
<1>5. RunsOn(after, m, es)
    BY <1>3, <1>4 DEF RunsOn
<1> QED BY <1>5

-----------------------------------------------------------------------------
(* Tables and the operators of the model *)

LEMMA TableHas ==
    ASSUME NEW K, NEW V, NEW f \in Table(K, V)
    PROVE  /\ f \in [DOMAIN f -> V]
           /\ \A x \in DOMAIN f : x \in K /\ f[x] \in V
  BY DEF Table

LEMMA TableOf ==
    ASSUME NEW K, NEW V, NEW D \in SUBSET K, NEW f \in [D -> V]
    PROVE  f \in Table(K, V)
  BY DEF Table

LEMMA WithIn ==
    ASSUME NEW K, NEW V, NEW f \in Table(K, V), NEW k \in K, NEW v \in V
    PROVE  With(f, k, v) \in Table(K, V)
<1> DEFINE g == With(f, k, v)
<1>1. /\ DOMAIN g = DOMAIN f \cup {k}
      /\ g[k] = v
      /\ \A x \in DOMAIN f : x # k => g[x] = f[x]
    BY DEF With
<1>2. \A x \in DOMAIN f \cup {k} : x \in K /\ g[x] \in V
    BY <1>1, TableHas
<1>3. g \in [DOMAIN f \cup {k} -> V]
    BY <1>1, <1>2 DEF With
<1>4. DOMAIN f \cup {k} \in SUBSET K
    BY <1>2
<1> QED BY <1>1, <1>3, <1>4, TableOf

LEMMA WithoutIn ==
    ASSUME NEW K, NEW V, NEW f \in Table(K, V), NEW S
    PROVE  Without(f, S) \in Table(K, V)
<1> DEFINE g == Without(f, S)
<1>1. /\ DOMAIN g = DOMAIN f \ S
      /\ \A x \in DOMAIN g : g[x] = f[x]
    BY DEF Without
<1>2. \A x \in DOMAIN f \ S : x \in K /\ g[x] \in V
    BY <1>1, TableHas
<1>3. g \in [DOMAIN f \ S -> V]
    BY <1>1, <1>2 DEF Without
<1>4. DOMAIN f \ S \in SUBSET K
    BY <1>2
<1> QED BY <1>1, <1>3, <1>4, TableOf

LEMMA ModelHas ==
    ASSUME NEW m \in Models
    PROVE  /\ m.cars \in Table(CarIds, Car) /\ m.cells \in SUBSET (Cells \X CarIds)
           /\ m.reservationCar \in Table(ResIds, CarIds)
           /\ m.recurrenceCar \in Table(RecIds, CarIds)
           /\ \A c \in DOMAIN m.cars : c \in CarIds /\ m.cars[c] \in Car
           /\ \A r \in DOMAIN m.reservationCar : r \in ResIds /\ m.reservationCar[r] \in CarIds
           /\ \A x \in DOMAIN m.recurrenceCar : x \in RecIds /\ m.recurrenceCar[x] \in CarIds
<1>1. /\ m.cars \in Table(CarIds, Car) /\ m.cells \in SUBSET (Cells \X CarIds)
      /\ m.reservationCar \in Table(ResIds, CarIds)
      /\ m.recurrenceCar \in Table(RecIds, CarIds)
    BY DEF Models
<1> QED BY <1>1, TableHas

LEMMA CarFields ==
    ASSUME NEW x \in Car, NEW a, NEW b, NEW y, y = [x EXCEPT !.cell = a, !.listed = b]
    PROVE  y = [cell |-> a, listed |-> b, busy |-> x.busy, recurrences |-> x.recurrences]
  BY DEF Car

LEMMA UpsertCarIs ==
    ASSUME NEW m \in Models, NEW id \in CarIds, NEW row \in CarRow,
           NEW m2, m2 = UpsertCar(m, id, row)
    PROVE  /\ m2 \in Models
           /\ DOMAIN m2.cars = DOMAIN m.cars \cup {id}
           /\ \A c \in DOMAIN m.cars : c # id => m2.cars[c] = m.cars[c]
           /\ m2.cars[id].cell = row.cell /\ m2.cars[id].listed = row.listed
           /\ id \in DOMAIN m.cars => /\ m2.cars[id].busy = m.cars[id].busy
                                      /\ m2.cars[id].recurrences = m.cars[id].recurrences
           /\ id \notin DOMAIN m.cars => m2.cars[id].busy = {} /\ m2.cars[id].recurrences = {}
           /\ m2.cells = (m.cells \ {<<IF id \in DOMAIN m.cars THEN m.cars[id].cell
                                       ELSE row.cell, id>>}) \cup {<<row.cell, id>>}
           /\ m2.reservationCar = m.reservationCar
           /\ m2.recurrenceCar = m.recurrenceCar
<1> DEFINE old == IF id \in DOMAIN m.cars THEN m.cars[id]
                  ELSE [cell |-> row.cell, listed |-> row.listed, busy |-> {}, recurrences |-> {}]
           new == [cell |-> row.cell, listed |-> row.listed, busy |-> old.busy,
                   recurrences |-> old.recurrences]
           cars2 == With(m.cars, id, new)
           cells2 == (m.cells \ {<<old.cell, id>>}) \cup {<<row.cell, id>>}
<1>1. old \in Car /\ row.cell \in Cells /\ row.listed \in BOOLEAN
    BY ModelHas DEF Car, CarRow
<1>2. new \in Car
    BY <1>1 DEF Car
<1>3. [old EXCEPT !.cell = row.cell, !.listed = row.listed] = new
    BY <1>1, CarFields, Zenon
<1>4. m2 = [m EXCEPT !.cars = cars2, !.cells = cells2]
    BY <1>3, Zenon DEF UpsertCar
<1> HIDE DEF old, new, cars2, cells2
<1>5. m2 = [cars |-> cars2, cells |-> cells2, reservationCar |-> m.reservationCar,
            recurrenceCar |-> m.recurrenceCar]
    BY <1>4 DEF Models
<1>6. /\ cars2 \in Table(CarIds, Car)
      /\ DOMAIN cars2 = DOMAIN m.cars \cup {id}
      /\ cars2[id] = new
      /\ \A c \in DOMAIN m.cars : c # id => cars2[c] = m.cars[c]
  <2>1. m.cars \in Table(CarIds, Car) /\ cars2 = With(m.cars, id, new)
      BY ModelHas DEF cars2
  <2> QED BY <1>2, <2>1, WithIn DEF With
<1>7. cells2 \in SUBSET (Cells \X CarIds)
    BY <1>1, ModelHas DEF cells2
<1>8. m2 \in Models
    BY <1>5, <1>6, <1>7, ModelHas DEF Models
<1>9. /\ m2.cars = cars2 /\ m2.cells = cells2 /\ m2.reservationCar = m.reservationCar
      /\ m2.recurrenceCar = m.recurrenceCar
    BY <1>5
<1>10. /\ new.cell = row.cell /\ new.listed = row.listed
       /\ id \in DOMAIN m.cars => /\ new.busy = m.cars[id].busy
                                  /\ new.recurrences = m.cars[id].recurrences
       /\ id \notin DOMAIN m.cars => new.busy = {} /\ new.recurrences = {}
    BY DEF new, old
<1>11. cells2 = (m.cells \ {<<IF id \in DOMAIN m.cars THEN m.cars[id].cell
                              ELSE row.cell, id>>}) \cup {<<row.cell, id>>}
    BY DEF cells2, old
<1> QED BY <1>6, <1>8, <1>9, <1>10, <1>11

LEMMA RemoveCarIs ==
    ASSUME NEW m \in Models, NEW id \in CarIds, NEW m2, m2 = RemoveCar(m, id)
    PROVE  /\ m2 \in Models
           /\ DOMAIN m2.cars = DOMAIN m.cars \ {id}
           /\ \A c \in DOMAIN m2.cars : m2.cars[c] = m.cars[c]
           /\ id \notin DOMAIN m.cars => m2 = m
           /\ id \in DOMAIN m.cars => m2.cells = m.cells \ {<<m.cars[id].cell, id>>}
           /\ m2.reservationCar = m.reservationCar
           /\ m2.recurrenceCar = m.recurrenceCar
<1>1. CASE id \notin DOMAIN m.cars
    BY <1>1 DEF RemoveCar
<1>2. CASE id \in DOMAIN m.cars
  <2> DEFINE cars2 == Without(m.cars, {id})
             cells2 == m.cells \ {<<m.cars[id].cell, id>>}
  <2>1. m2 = [m EXCEPT !.cells = cells2, !.cars = cars2]
      BY <1>2, Zenon DEF RemoveCar
  <2> HIDE DEF cars2, cells2
  <2>2. m2 = [cars |-> cars2, cells |-> cells2, reservationCar |-> m.reservationCar,
              recurrenceCar |-> m.recurrenceCar]
      BY <2>1 DEF Models
  <2>3. /\ cars2 \in Table(CarIds, Car)
        /\ DOMAIN cars2 = DOMAIN m.cars \ {id}
        /\ \A c \in DOMAIN cars2 : cars2[c] = m.cars[c]
    <3>1. m.cars \in Table(CarIds, Car) /\ cars2 = Without(m.cars, {id})
        BY ModelHas DEF cars2
    <3> QED BY <3>1, WithoutIn DEF Without
  <2>4. cells2 \in SUBSET (Cells \X CarIds)
      BY ModelHas DEF cells2
  <2>5. m2 \in Models
      BY <2>2, <2>3, <2>4, ModelHas DEF Models
  <2>6. /\ m2.cars = cars2 /\ m2.cells = cells2 /\ m2.reservationCar = m.reservationCar
        /\ m2.recurrenceCar = m.recurrenceCar
      BY <2>2
  <2> QED BY <1>2, <2>3, <2>5, <2>6 DEF cells2
<1> QED BY <1>1, <1>2

LEMMA CarBusy ==
    ASSUME NEW x \in Car, NEW a, NEW y, y = [x EXCEPT !.busy = a]
    PROVE  y = [cell |-> x.cell, listed |-> x.listed, busy |-> a, recurrences |-> x.recurrences]
  BY DEF Car

LEMMA ModelReservationCar ==
    ASSUME NEW m \in Models, NEW a, NEW y, y = [m EXCEPT !.reservationCar = a]
    PROVE  y = [cars |-> m.cars, cells |-> m.cells, reservationCar |-> a,
                recurrenceCar |-> m.recurrenceCar]
  BY DEF Models

LEMMA ModelCars ==
    ASSUME NEW m \in Models, NEW a, NEW y, y = [m EXCEPT !.cars = a]
    PROVE  y = [cars |-> a, cells |-> m.cells, reservationCar |-> m.reservationCar,
                recurrenceCar |-> m.recurrenceCar]
  BY DEF Models

\* What a change of one car's windows leaves alone.
BusyChanged(m, m2, c, g, a) ==
    /\ m2 \in Models
    /\ DOMAIN m2.cars = DOMAIN m.cars
    /\ \A d \in DOMAIN m.cars : d # c => m2.cars[d] = m.cars[d]
    /\ m2.cars[c].busy = a
    /\ m2.cars[c].cell = m.cars[c].cell /\ m2.cars[c].listed = m.cars[c].listed
    /\ m2.cars[c].recurrences = m.cars[c].recurrences
    /\ m2.cells = m.cells
    /\ m2.reservationCar = g
    /\ m2.recurrenceCar = m.recurrenceCar

LEMMA BusySetHas ==
    ASSUME NEW m \in Models, NEW g \in Table(ResIds, CarIds), NEW c \in DOMAIN m.cars,
           NEW a \in SUBSET Busy, NEW m2,
           m2 = [cars |-> [m.cars EXCEPT ![c] =
                             [cell |-> m.cars[c].cell, listed |-> m.cars[c].listed, busy |-> a,
                              recurrences |-> m.cars[c].recurrences]],
                 cells |-> m.cells, reservationCar |-> g, recurrenceCar |-> m.recurrenceCar]
    PROVE  BusyChanged(m, m2, c, g, a)
<1> DEFINE new == [cell |-> m.cars[c].cell, listed |-> m.cars[c].listed, busy |-> a,
                   recurrences |-> m.cars[c].recurrences]
           cars2 == [m.cars EXCEPT ![c] = new]
<1>1. m.cars[c] \in Car
    BY ModelHas
<1>2. new \in Car
    BY <1>1 DEF Car
<1>3. m2 = [cars |-> cars2, cells |-> m.cells, reservationCar |-> g,
            recurrenceCar |-> m.recurrenceCar]
    OBVIOUS
<1>4. /\ cars2 \in Table(CarIds, Car)
      /\ DOMAIN cars2 = DOMAIN m.cars
      /\ cars2[c] = new
      /\ \A d \in DOMAIN m.cars : d # c => cars2[d] = m.cars[d]
  <2>1. m.cars \in [DOMAIN m.cars -> Car] /\ DOMAIN m.cars \in SUBSET CarIds
      BY ModelHas, TableHas
  <2>2. cars2 \in [DOMAIN m.cars -> Car]
      BY <2>1, <1>2
  <2>3. cars2 \in Table(CarIds, Car)
      BY <2>1, <2>2, TableOf
  <2> QED BY <2>1, <2>2, <2>3
<1>5. /\ new.busy = a /\ new.cell = m.cars[c].cell /\ new.listed = m.cars[c].listed
      /\ new.recurrences = m.cars[c].recurrences
    OBVIOUS
<1> HIDE DEF new, cars2
<1>6. m2 \in Models
    BY <1>3, <1>4, ModelHas DEF Models
<1>7. /\ m2.cars = cars2 /\ m2.cells = m.cells /\ m2.reservationCar = g
      /\ m2.recurrenceCar = m.recurrenceCar
    BY <1>3
<1> QED BY <1>4, <1>5, <1>6, <1>7 DEF BusyChanged

LEMMA BusySet ==
    ASSUME NEW m \in Models, NEW g \in Table(ResIds, CarIds), NEW c \in DOMAIN m.cars,
           NEW a \in SUBSET Busy, NEW x \in Models, NEW m2,
           x.cars = m.cars, x.cells = m.cells, x.reservationCar = g,
           x.recurrenceCar = m.recurrenceCar,
           m2 = [x EXCEPT !.cars[c].busy = a]
    PROVE  BusyChanged(m, m2, c, g, a)
<1> DEFINE new == [cell |-> m.cars[c].cell, listed |-> m.cars[c].listed, busy |-> a,
                   recurrences |-> m.cars[c].recurrences]
<1>1. m.cars[c] \in Car
    BY ModelHas
<1>2. new = [m.cars[c] EXCEPT !.busy = a]
    BY <1>1, CarBusy, Zenon
<1>3. m2 = [x EXCEPT !.cars = [m.cars EXCEPT ![c] = new]]
    BY <1>2, Zenon
<1>4. m2 = [cars |-> [m.cars EXCEPT ![c] = new], cells |-> x.cells,
            reservationCar |-> x.reservationCar, recurrenceCar |-> x.recurrenceCar]
    BY <1>3, ModelCars, Zenon
<1>5. m2 = [cars |-> [m.cars EXCEPT ![c] = new], cells |-> m.cells,
            reservationCar |-> g, recurrenceCar |-> m.recurrenceCar]
    BY <1>4, Zenon
<1> QED BY <1>5, BusySetHas, Zenon

LEMMA UpsertWindowIs ==
    ASSUME NEW m \in Models, NEW c \in CarIds, NEW w \in Busy, NEW m2,
           m2 = UpsertWindow(m, c, w)
    PROVE  /\ c \notin DOMAIN m.cars => m2 = m
           /\ c \in DOMAIN m.cars =>
                BusyChanged(m, m2, c, With(m.reservationCar, w.id, c),
                            {b \in m.cars[c].busy : b.id # w.id} \cup {w})
<1>1. CASE c \notin DOMAIN m.cars
    BY <1>1, Zenon DEF UpsertWindow
<1>2. CASE c \in DOMAIN m.cars
  <2> DEFINE g == With(m.reservationCar, w.id, c)
             a == {b \in m.cars[c].busy : b.id # w.id} \cup {w}
             x == [cars |-> m.cars, cells |-> m.cells, reservationCar |-> g,
                   recurrenceCar |-> m.recurrenceCar]
  <2>1. w.id \in ResIds /\ m.reservationCar \in Table(ResIds, CarIds)
      BY ModelHas DEF Busy
  <2>2. g \in Table(ResIds, CarIds)
      BY <2>1, WithIn
  <2>3. m.cars[c] \in Car
      BY <1>2, ModelHas
  <2>4. a \in SUBSET Busy
      BY <2>3 DEF Car
  <2> HIDE DEF g
  <2>5. x \in Models
      BY <2>2, ModelHas DEF Models
  <2>6. x = [m EXCEPT !.reservationCar = g]
      BY ModelReservationCar, Zenon
  <2>7. /\ x.cars = m.cars /\ x.cells = m.cells /\ x.reservationCar = g
        /\ x.recurrenceCar = m.recurrenceCar
      OBVIOUS
  <2>8. m2 = [x EXCEPT !.cars[c].busy = a]
      BY <1>2, <2>6, <2>7, Zenon DEF UpsertWindow, g
  <2> HIDE DEF a, x
  <2>9. BusyChanged(m, m2, c, g, a)
      BY <1>2, <2>2, <2>4, <2>5, <2>7, <2>8, BusySet, Zenon
  <2> QED BY <1>2, <2>9, Zenon DEF g, a
<1> QED BY <1>1, <1>2, Zenon

LEMMA RemoveWindowIs ==
    ASSUME NEW m \in Models, NEW r \in ResIds, NEW m2, m2 = RemoveWindow(m, r)
    PROVE  /\ r \notin DOMAIN m.reservationCar => m2 = m
           /\ r \in DOMAIN m.reservationCar =>
                LET c == m.reservationCar[r]
                IN  /\ c \in DOMAIN m.cars =>
                          BusyChanged(m, m2, c, Without(m.reservationCar, {r}),
                                      {b \in m.cars[c].busy : b.id # r})
                    /\ c \notin DOMAIN m.cars =>
                          /\ m2 \in Models
                          /\ m2.cars = m.cars /\ m2.cells = m.cells
                          /\ m2.reservationCar = Without(m.reservationCar, {r})
                          /\ m2.recurrenceCar = m.recurrenceCar
<1>1. CASE r \notin DOMAIN m.reservationCar
    BY <1>1, Zenon DEF RemoveWindow
<1>2. CASE r \in DOMAIN m.reservationCar
  <2> DEFINE c == m.reservationCar[r]
             g == Without(m.reservationCar, {r})
             x == [cars |-> m.cars, cells |-> m.cells, reservationCar |-> g,
                   recurrenceCar |-> m.recurrenceCar]
  <2>1. m.reservationCar \in Table(ResIds, CarIds)
      BY ModelHas
  <2>2. g \in Table(ResIds, CarIds)
      BY <2>1, WithoutIn
  <2> HIDE DEF g
  <2>3. x \in Models
      BY <2>2, ModelHas DEF Models
  <2>4. x = [m EXCEPT !.reservationCar = g]
      BY ModelReservationCar, Zenon
  <2>5. /\ x.cars = m.cars /\ x.cells = m.cells /\ x.reservationCar = g
        /\ x.recurrenceCar = m.recurrenceCar
      OBVIOUS
  <2>6. CASE c \notin DOMAIN m.cars
    <3>1. m2 = x
        BY <1>2, <2>4, <2>6, Zenon DEF RemoveWindow, g
    <3> QED BY <1>2, <2>3, <2>5, <2>6, <3>1, Zenon DEF g
  <2>7. CASE c \in DOMAIN m.cars
    <3> DEFINE a == {b \in m.cars[c].busy : b.id # r}
    <3>1. m.cars[c] \in Car
        BY <2>7, ModelHas
    <3>2. a \in SUBSET Busy
        BY <3>1 DEF Car
    <3>3. m2 = [x EXCEPT !.cars[c].busy = a]
        BY <1>2, <2>4, <2>5, <2>7, Zenon DEF RemoveWindow, g
    <3> HIDE DEF a, x
    <3>4. BusyChanged(m, m2, c, g, a)
        BY <2>7, <2>2, <2>3, <2>5, <3>2, <3>3, BusySet, Zenon
    <3> QED BY <1>2, <2>7, <3>4, Zenon DEF g, a
  <2> QED BY <2>6, <2>7, Zenon
<1> QED BY <1>1, <1>2, Zenon

LEMMA CarPlans ==
    ASSUME NEW x \in Car, NEW a, NEW y, y = [x EXCEPT !.recurrences = a]
    PROVE  y = [cell |-> x.cell, listed |-> x.listed, busy |-> x.busy, recurrences |-> a]
  BY DEF Car

LEMMA ModelRecurrenceCar ==
    ASSUME NEW m \in Models, NEW a, NEW y, y = [m EXCEPT !.recurrenceCar = a]
    PROVE  y = [cars |-> m.cars, cells |-> m.cells, reservationCar |-> m.reservationCar,
                recurrenceCar |-> a]
  BY DEF Models

\* What a change of one car's schedules leaves alone.
PlansChanged(m, m2, c, g, a) ==
    /\ m2 \in Models
    /\ DOMAIN m2.cars = DOMAIN m.cars
    /\ \A d \in DOMAIN m.cars : d # c => m2.cars[d] = m.cars[d]
    /\ m2.cars[c].recurrences = a
    /\ m2.cars[c].cell = m.cars[c].cell /\ m2.cars[c].listed = m.cars[c].listed
    /\ m2.cars[c].busy = m.cars[c].busy
    /\ m2.cells = m.cells
    /\ m2.recurrenceCar = g
    /\ m2.reservationCar = m.reservationCar

LEMMA PlansSetHas ==
    ASSUME NEW m \in Models, NEW g \in Table(RecIds, CarIds), NEW c \in DOMAIN m.cars,
           NEW a \in SUBSET Schedule, NEW m2,
           m2 = [cars |-> [m.cars EXCEPT ![c] =
                             [cell |-> m.cars[c].cell, listed |-> m.cars[c].listed, busy |-> m.cars[c].busy,
                              recurrences |-> a]],
                 cells |-> m.cells, reservationCar |-> m.reservationCar, recurrenceCar |-> g]
    PROVE  PlansChanged(m, m2, c, g, a)
<1> DEFINE new == [cell |-> m.cars[c].cell, listed |-> m.cars[c].listed, busy |-> m.cars[c].busy,
                   recurrences |-> a]
           cars2 == [m.cars EXCEPT ![c] = new]
<1>1. m.cars[c] \in Car
    BY ModelHas
<1>2. new \in Car
    BY <1>1 DEF Car
<1>3. m2 = [cars |-> cars2, cells |-> m.cells, reservationCar |-> m.reservationCar,
            recurrenceCar |-> g]
    OBVIOUS
<1>4. /\ cars2 \in Table(CarIds, Car)
      /\ DOMAIN cars2 = DOMAIN m.cars
      /\ cars2[c] = new
      /\ \A d \in DOMAIN m.cars : d # c => cars2[d] = m.cars[d]
  <2>1. m.cars \in [DOMAIN m.cars -> Car] /\ DOMAIN m.cars \in SUBSET CarIds
      BY ModelHas, TableHas
  <2>2. cars2 \in [DOMAIN m.cars -> Car]
      BY <2>1, <1>2
  <2>3. cars2 \in Table(CarIds, Car)
      BY <2>1, <2>2, TableOf
  <2> QED BY <2>1, <2>2, <2>3
<1>5. /\ new.recurrences = a /\ new.cell = m.cars[c].cell /\ new.listed = m.cars[c].listed
      /\ new.busy = m.cars[c].busy
    OBVIOUS
<1> HIDE DEF new, cars2
<1>6. m2 \in Models
    BY <1>3, <1>4, ModelHas DEF Models
<1>7. /\ m2.cars = cars2 /\ m2.cells = m.cells /\ m2.recurrenceCar = g
      /\ m2.reservationCar = m.reservationCar
    BY <1>3
<1> QED BY <1>4, <1>5, <1>6, <1>7 DEF PlansChanged

LEMMA PlansSet ==
    ASSUME NEW m \in Models, NEW g \in Table(RecIds, CarIds), NEW c \in DOMAIN m.cars,
           NEW a \in SUBSET Schedule, NEW x \in Models, NEW m2,
           x.cars = m.cars, x.cells = m.cells, x.recurrenceCar = g,
           x.reservationCar = m.reservationCar,
           m2 = [x EXCEPT !.cars[c].recurrences = a]
    PROVE  PlansChanged(m, m2, c, g, a)
<1> DEFINE new == [cell |-> m.cars[c].cell, listed |-> m.cars[c].listed, busy |-> m.cars[c].busy,
                   recurrences |-> a]
<1>1. m.cars[c] \in Car
    BY ModelHas
<1>2. new = [m.cars[c] EXCEPT !.recurrences = a]
    BY <1>1, CarPlans, Zenon
<1>3. m2 = [x EXCEPT !.cars = [m.cars EXCEPT ![c] = new]]
    BY <1>2, Zenon
<1>4. m2 = [cars |-> [m.cars EXCEPT ![c] = new], cells |-> x.cells,
            reservationCar |-> x.reservationCar, recurrenceCar |-> x.recurrenceCar]
    BY <1>3, ModelCars, Zenon
<1>5. m2 = [cars |-> [m.cars EXCEPT ![c] = new], cells |-> m.cells,
            reservationCar |-> m.reservationCar, recurrenceCar |-> g]
    BY <1>4, Zenon
<1> QED BY <1>5, PlansSetHas, Zenon

LEMMA UpsertRecurrenceIs ==
    ASSUME NEW m \in Models, NEW c \in CarIds, NEW w \in Schedule, NEW m2,
           m2 = UpsertRecurrence(m, c, w)
    PROVE  /\ c \notin DOMAIN m.cars => m2 = m
           /\ c \in DOMAIN m.cars =>
                PlansChanged(m, m2, c, With(m.recurrenceCar, w.id, c),
                            {b \in m.cars[c].recurrences : b.id # w.id} \cup {w})
<1>1. CASE c \notin DOMAIN m.cars
    BY <1>1, Zenon DEF UpsertRecurrence
<1>2. CASE c \in DOMAIN m.cars
  <2> DEFINE g == With(m.recurrenceCar, w.id, c)
             a == {b \in m.cars[c].recurrences : b.id # w.id} \cup {w}
             x == [cars |-> m.cars, cells |-> m.cells, reservationCar |-> m.reservationCar,
                   recurrenceCar |-> g]
  <2>1. w.id \in RecIds /\ m.recurrenceCar \in Table(RecIds, CarIds)
      BY ModelHas DEF Schedule
  <2>2. g \in Table(RecIds, CarIds)
      BY <2>1, WithIn
  <2>3. m.cars[c] \in Car
      BY <1>2, ModelHas
  <2>4. a \in SUBSET Schedule
      BY <2>3 DEF Car
  <2> HIDE DEF g
  <2>5. x \in Models
      BY <2>2, ModelHas DEF Models
  <2>6. x = [m EXCEPT !.recurrenceCar = g]
      BY ModelRecurrenceCar, Zenon
  <2>7. /\ x.cars = m.cars /\ x.cells = m.cells /\ x.recurrenceCar = g
        /\ x.reservationCar = m.reservationCar
      OBVIOUS
  <2>8. m2 = [x EXCEPT !.cars[c].recurrences = a]
      BY <1>2, <2>6, <2>7, Zenon DEF UpsertRecurrence, g
  <2> HIDE DEF a, x
  <2>9. PlansChanged(m, m2, c, g, a)
      BY <1>2, <2>2, <2>4, <2>5, <2>7, <2>8, PlansSet, Zenon
  <2> QED BY <1>2, <2>9, Zenon DEF g, a
<1> QED BY <1>1, <1>2, Zenon

LEMMA RemoveRecurrenceIs ==
    ASSUME NEW m \in Models, NEW r \in RecIds, NEW m2, m2 = RemoveRecurrence(m, r)
    PROVE  /\ r \notin DOMAIN m.recurrenceCar => m2 = m
           /\ r \in DOMAIN m.recurrenceCar =>
                LET c == m.recurrenceCar[r]
                IN  /\ c \in DOMAIN m.cars =>
                          PlansChanged(m, m2, c, Without(m.recurrenceCar, {r}),
                                      {b \in m.cars[c].recurrences : b.id # r})
                    /\ c \notin DOMAIN m.cars =>
                          /\ m2 \in Models
                          /\ m2.cars = m.cars /\ m2.cells = m.cells
                          /\ m2.recurrenceCar = Without(m.recurrenceCar, {r})
                          /\ m2.reservationCar = m.reservationCar
<1>1. CASE r \notin DOMAIN m.recurrenceCar
    BY <1>1, Zenon DEF RemoveRecurrence
<1>2. CASE r \in DOMAIN m.recurrenceCar
  <2> DEFINE c == m.recurrenceCar[r]
             g == Without(m.recurrenceCar, {r})
             x == [cars |-> m.cars, cells |-> m.cells, reservationCar |-> m.reservationCar,
                   recurrenceCar |-> g]
  <2>1. m.recurrenceCar \in Table(RecIds, CarIds)
      BY ModelHas
  <2>2. g \in Table(RecIds, CarIds)
      BY <2>1, WithoutIn
  <2> HIDE DEF g
  <2>3. x \in Models
      BY <2>2, ModelHas DEF Models
  <2>4. x = [m EXCEPT !.recurrenceCar = g]
      BY ModelRecurrenceCar, Zenon
  <2>5. /\ x.cars = m.cars /\ x.cells = m.cells /\ x.recurrenceCar = g
        /\ x.reservationCar = m.reservationCar
      OBVIOUS
  <2>6. CASE c \notin DOMAIN m.cars
    <3>1. m2 = x
        BY <1>2, <2>4, <2>6, Zenon DEF RemoveRecurrence, g
    <3> QED BY <1>2, <2>3, <2>5, <2>6, <3>1, Zenon DEF g
  <2>7. CASE c \in DOMAIN m.cars
    <3> DEFINE a == {b \in m.cars[c].recurrences : b.id # r}
    <3>1. m.cars[c] \in Car
        BY <2>7, ModelHas
    <3>2. a \in SUBSET Schedule
        BY <3>1 DEF Car
    <3>3. m2 = [x EXCEPT !.cars[c].recurrences = a]
        BY <1>2, <2>4, <2>5, <2>7, Zenon DEF RemoveRecurrence, g
    <3> HIDE DEF a, x
    <3>4. PlansChanged(m, m2, c, g, a)
        BY <2>7, <2>2, <2>3, <2>5, <3>2, <3>3, PlansSet, Zenon
    <3> QED BY <1>2, <2>7, <3>4, Zenon DEF g, a
  <2> QED BY <2>6, <2>7, Zenon
<1> QED BY <1>1, <1>2, Zenon

-----------------------------------------------------------------------------
(* The maps of a model agree after each of its operators *)

LinkedRes(m, c) ==
    \A r \in ResIds : (\E b \in m.cars[c].busy : b.id = r)
                      <=> (r \in DOMAIN m.reservationCar /\ m.reservationCar[r] = c)

LinkedRec(m, c) ==
    \A x \in RecIds : (\E b \in m.cars[c].recurrences : b.id = x)
                      <=> (x \in DOMAIN m.recurrenceCar /\ m.recurrenceCar[x] = c)

LEMMA LinkedBoth ==
    ASSUME NEW m \in Models, NEW c \in DOMAIN m.cars
    PROVE  Linked(m, c) <=> LinkedRes(m, c) /\ LinkedRec(m, c)
<1>1. m.cars[c] \in Car
    BY ModelHas
<1>2. m.cars[c].busy \in SUBSET Busy /\ m.cars[c].recurrences \in SUBSET Schedule
    BY <1>1 DEF Car
<1>3. /\ \A b \in m.cars[c].busy : b.id \in ResIds
      /\ \A b \in m.cars[c].recurrences : b.id \in RecIds
    BY <1>2 DEF Busy, Schedule
<1>4. ({b.id : b \in m.cars[c].busy} =
          {r \in DOMAIN m.reservationCar : m.reservationCar[r] = c}) <=> LinkedRes(m, c)
    BY <1>3, ModelHas DEF LinkedRes
<1>5. ({x.id : x \in m.cars[c].recurrences} =
          {x \in DOMAIN m.recurrenceCar : m.recurrenceCar[x] = c}) <=> LinkedRec(m, c)
    BY <1>3, ModelHas DEF LinkedRec
<1> QED BY <1>4, <1>5, Zenon DEF Linked

\* What an operator must not break.
Keeps(m, m2) ==
    /\ m2 \in Models
    /\ Cellular(m) => Cellular(m2)
    /\ Unique(m) => Unique(m2)
    /\ \A d \in DOMAIN m.cars \cap DOMAIN m2.cars : Linked(m, d) => Linked(m2, d)
    /\ \A d \in CarIds \ DOMAIN m2.cars : Unowned(m, d) => Unowned(m2, d)

LEMMA UpsertCarKeeps ==
    ASSUME NEW m \in Models, NEW id \in CarIds, NEW row \in CarRow,
           NEW m2, m2 = UpsertCar(m, id, row)
    PROVE  /\ Keeps(m, m2)
           /\ DOMAIN m2.cars = DOMAIN m.cars \cup {id}
           /\ id \notin DOMAIN m.cars /\ Unowned(m, id) => Linked(m2, id)
           /\ m2.reservationCar = m.reservationCar /\ m2.recurrenceCar = m.recurrenceCar
<1>0. /\ m2 \in Models
      /\ DOMAIN m2.cars = DOMAIN m.cars \cup {id}
      /\ \A c \in DOMAIN m.cars : c # id => m2.cars[c] = m.cars[c]
      /\ m2.cars[id].cell = row.cell /\ m2.cars[id].listed = row.listed
      /\ id \in DOMAIN m.cars => /\ m2.cars[id].busy = m.cars[id].busy
                                 /\ m2.cars[id].recurrences = m.cars[id].recurrences
      /\ id \notin DOMAIN m.cars => m2.cars[id].busy = {} /\ m2.cars[id].recurrences = {}
      /\ m2.cells = (m.cells \ {<<IF id \in DOMAIN m.cars THEN m.cars[id].cell
                                  ELSE row.cell, id>>}) \cup {<<row.cell, id>>}
      /\ m2.reservationCar = m.reservationCar
      /\ m2.recurrenceCar = m.recurrenceCar
    BY UpsertCarIs
<1>1. Cellular(m) => Cellular(m2)
    BY <1>0 DEF Cellular
<1>2. Unique(m) => Unique(m2)
    BY <1>0 DEF Unique
<1>3. ASSUME NEW d \in DOMAIN m.cars, Linked(m, d)
      PROVE  Linked(m2, d)
  <2>1. m2.cars[d].busy = m.cars[d].busy /\ m2.cars[d].recurrences = m.cars[d].recurrences
      BY <1>0
  <2> QED BY <1>0, <1>3, <2>1 DEF Linked
<1>4. \A d \in CarIds : Unowned(m, d) => Unowned(m2, d)
    BY <1>0 DEF Unowned
<1>5. ASSUME id \notin DOMAIN m.cars, Unowned(m, id)
      PROVE  Linked(m2, id)
  <2>1. LinkedRes(m2, id) /\ LinkedRec(m2, id)
      BY <1>0, <1>5 DEF LinkedRes, LinkedRec, Unowned
  <2> QED BY <1>0, <2>1, LinkedBoth
<1> QED BY <1>0, <1>1, <1>2, <1>3, <1>4, <1>5 DEF Keeps

LEMMA RemoveCarKeeps ==
    ASSUME NEW m \in Models, NEW id \in CarIds, NEW m2, m2 = RemoveCar(m, id)
    PROVE  /\ Keeps(m, m2)
           /\ DOMAIN m2.cars = DOMAIN m.cars \ {id}
           /\ m2.reservationCar = m.reservationCar /\ m2.recurrenceCar = m.recurrenceCar
<1>0. /\ m2 \in Models
      /\ DOMAIN m2.cars = DOMAIN m.cars \ {id}
      /\ \A c \in DOMAIN m2.cars : m2.cars[c] = m.cars[c]
      /\ id \notin DOMAIN m.cars => m2 = m
      /\ id \in DOMAIN m.cars => m2.cells = m.cells \ {<<m.cars[id].cell, id>>}
      /\ m2.reservationCar = m.reservationCar
      /\ m2.recurrenceCar = m.recurrenceCar
    BY RemoveCarIs
<1>1. Cellular(m) => Cellular(m2)
  <2>1. CASE id \notin DOMAIN m.cars
      BY <1>0, <2>1
  <2>2. CASE id \in DOMAIN m.cars
      BY <1>0, <2>2 DEF Cellular
  <2> QED BY <2>1, <2>2
<1>2. Unique(m) => Unique(m2)
    BY <1>0 DEF Unique
<1>3. \A d \in DOMAIN m2.cars : Linked(m, d) => Linked(m2, d)
    BY <1>0 DEF Linked
<1>4. \A d \in CarIds : Unowned(m, d) => Unowned(m2, d)
    BY <1>0 DEF Unowned
<1> QED BY <1>0, <1>1, <1>2, <1>3, <1>4 DEF Keeps

\* Changing one car's windows and the map that leads to them.
LEMMA BusyChangeKeeps ==
    ASSUME NEW m \in Models, NEW m2, NEW c \in DOMAIN m.cars, NEW g, NEW a,
           BusyChanged(m, m2, c, g, a),
           \A u, v \in a : u.id = v.id => (u = v \/ (u \in m.cars[c].busy /\ v \in m.cars[c].busy)),
           LinkedRes(m, c) =>
               \A r \in ResIds : (\E b \in a : b.id = r) <=> (r \in DOMAIN g /\ g[r] = c),
           \A r \in ResIds : \A d \in CarIds \ {c} :
               (r \in DOMAIN g /\ g[r] = d)
               <=> (r \in DOMAIN m.reservationCar /\ m.reservationCar[r] = d)
    PROVE  Keeps(m, m2)
<1>0. /\ m2 \in Models
      /\ DOMAIN m2.cars = DOMAIN m.cars
      /\ \A d \in DOMAIN m.cars : d # c => m2.cars[d] = m.cars[d]
      /\ m2.cars[c].busy = a
      /\ m2.cars[c].cell = m.cars[c].cell
      /\ m2.cars[c].recurrences = m.cars[c].recurrences
      /\ m2.cells = m.cells
      /\ m2.reservationCar = g
      /\ m2.recurrenceCar = m.recurrenceCar
    BY DEF BusyChanged
<1>1. Cellular(m) => Cellular(m2)
  <2>1. \A d \in DOMAIN m.cars : m2.cars[d].cell = m.cars[d].cell
      BY <1>0
  <2> QED BY <1>0, <2>1 DEF Cellular
<1>2. Unique(m) => Unique(m2)
    BY <1>0 DEF Unique
<1>3. ASSUME NEW d \in DOMAIN m.cars, Linked(m, d)
      PROVE  Linked(m2, d)
  <2>1. LinkedRes(m, d) /\ LinkedRec(m, d)
      BY <1>3, LinkedBoth
  <2>2. m2.cars[d].recurrences = m.cars[d].recurrences
      BY <1>0
  <2>3. LinkedRec(m2, d)
      BY <1>0, <2>1, <2>2 DEF LinkedRec
  <2>4. LinkedRes(m2, d)
    <3>1. CASE d = c
        BY <1>0, <2>1, <3>1 DEF LinkedRes
    <3>2. CASE d # c
      <4>1. m2.cars[d].busy = m.cars[d].busy /\ d \in CarIds \ {c}
          BY <1>0, <3>2, ModelHas
      <4> QED BY <1>0, <2>1, <4>1 DEF LinkedRes
    <3> QED BY <3>1, <3>2
  <2> QED BY <1>0, <2>3, <2>4, LinkedBoth
<1>4. ASSUME NEW d \in CarIds \ DOMAIN m2.cars, Unowned(m, d)
      PROVE  Unowned(m2, d)
  <2>1. d \in CarIds \ {c}
      BY <1>0
  <2>2. \A r \in DOMAIN g : r \in ResIds
      BY <1>0, ModelHas
  <2> QED BY <1>0, <1>4, <2>1, <2>2 DEF Unowned
<1> QED BY <1>0, <1>1, <1>2, <1>3, <1>4 DEF Keeps

LEMMA UpsertWindowKeeps ==
    ASSUME NEW m \in Models, NEW c \in CarIds, NEW w \in Busy, NEW m2,
           m2 = UpsertWindow(m, c, w),
           w.id \in DOMAIN m.reservationCar => m.reservationCar[w.id] = c
    PROVE  /\ Keeps(m, m2)
           /\ DOMAIN m2.cars = DOMAIN m.cars
           /\ DOMAIN m2.reservationCar \subseteq DOMAIN m.reservationCar \cup {w.id}
           /\ \A r \in DOMAIN m2.reservationCar :
                 IF r = w.id THEN m2.reservationCar[r] = c
                 ELSE m2.reservationCar[r] = m.reservationCar[r]
           /\ m2.recurrenceCar = m.recurrenceCar
<1>1. CASE c \notin DOMAIN m.cars
  <2>1. m2 = m
      BY <1>1, UpsertWindowIs, Zenon
  <2> QED BY <2>1 DEF Keeps
<1>2. CASE c \in DOMAIN m.cars
  <2> DEFINE g == With(m.reservationCar, w.id, c)
             a == {b \in m.cars[c].busy : b.id # w.id} \cup {w}
  <2>1. BusyChanged(m, m2, c, g, a)
      BY <1>2, UpsertWindowIs, Zenon
  <2>2. w.id \in ResIds
      BY DEF Busy
  <2>3. /\ DOMAIN g = DOMAIN m.reservationCar \cup {w.id}
        /\ g[w.id] = c
        /\ \A r \in DOMAIN m.reservationCar : r # w.id => g[r] = m.reservationCar[r]
      BY DEF With
  <2> HIDE DEF g
  <2>4. \A u, v \in a : u.id = v.id => (u = v \/ (u \in m.cars[c].busy /\ v \in m.cars[c].busy))
      OBVIOUS
  <2>5. ASSUME LinkedRes(m, c), NEW r \in ResIds
        PROVE  (\E b \in a : b.id = r) <=> (r \in DOMAIN g /\ g[r] = c)
      BY <2>3, <2>5 DEF LinkedRes
  <2>6. \A r \in ResIds : \A d \in CarIds \ {c} :
            (r \in DOMAIN g /\ g[r] = d)
            <=> (r \in DOMAIN m.reservationCar /\ m.reservationCar[r] = d)
      BY <2>3
  <2> HIDE DEF a
  <2>7. Keeps(m, m2)
      BY <1>2, <2>1, <2>4, <2>5, <2>6, BusyChangeKeeps
  <2>8. DOMAIN m2.cars = DOMAIN m.cars /\ m2.reservationCar = g
        /\ m2.recurrenceCar = m.recurrenceCar
      BY <2>1 DEF BusyChanged
  <2> QED BY <2>3, <2>7, <2>8
<1> QED BY <1>1, <1>2

LEMMA RemoveWindowKeeps ==
    ASSUME NEW m \in Models, NEW r \in ResIds, NEW m2, m2 = RemoveWindow(m, r)
    PROVE  /\ Keeps(m, m2)
           /\ DOMAIN m2.cars = DOMAIN m.cars
           /\ DOMAIN m2.reservationCar = DOMAIN m.reservationCar \ {r}
           /\ \A x \in DOMAIN m2.reservationCar : m2.reservationCar[x] = m.reservationCar[x]
           /\ m2.recurrenceCar = m.recurrenceCar
<1>1. CASE r \notin DOMAIN m.reservationCar
  <2>1. m2 = m
      BY <1>1, RemoveWindowIs, Zenon
  <2> QED BY <1>1, <2>1 DEF Keeps
<1>2. CASE r \in DOMAIN m.reservationCar
  <2> DEFINE c == m.reservationCar[r]
             g == Without(m.reservationCar, {r})
  <2>1. /\ DOMAIN g = DOMAIN m.reservationCar \ {r}
        /\ \A x \in DOMAIN g : g[x] = m.reservationCar[x]
      BY DEF Without
  <2>2. c \in CarIds
      BY <1>2, ModelHas
  <2> HIDE DEF g
  <2>3. CASE c \in DOMAIN m.cars
    <3> DEFINE a == {b \in m.cars[c].busy : b.id # r}
    <3>1. BusyChanged(m, m2, c, g, a)
        BY <1>2, <2>3, RemoveWindowIs, Zenon DEF g
    <3>2. \A u, v \in a : u.id = v.id => (u = v \/ (u \in m.cars[c].busy /\ v \in m.cars[c].busy))
        OBVIOUS
    <3>3. ASSUME LinkedRes(m, c), NEW x \in ResIds
          PROVE  (\E b \in a : b.id = x) <=> (x \in DOMAIN g /\ g[x] = c)
        BY <2>1, <3>3 DEF LinkedRes
    <3>4. \A x \in ResIds : \A d \in CarIds \ {c} :
              (x \in DOMAIN g /\ g[x] = d)
              <=> (x \in DOMAIN m.reservationCar /\ m.reservationCar[x] = d)
        BY <1>2, <2>1
    <3> HIDE DEF a
    <3>5. Keeps(m, m2)
        BY <2>3, <3>1, <3>2, <3>3, <3>4, BusyChangeKeeps
    <3>6. DOMAIN m2.cars = DOMAIN m.cars /\ m2.reservationCar = g
          /\ m2.recurrenceCar = m.recurrenceCar
        BY <3>1 DEF BusyChanged
    <3> QED BY <2>1, <3>5, <3>6
  <2>4. CASE c \notin DOMAIN m.cars
    <3>1. /\ m2 \in Models
          /\ m2.cars = m.cars /\ m2.cells = m.cells
          /\ m2.reservationCar = g
          /\ m2.recurrenceCar = m.recurrenceCar
        BY <1>2, <2>4, RemoveWindowIs, Zenon DEF g
    <3>2. ASSUME NEW d \in DOMAIN m.cars, Linked(m, d)
          PROVE  Linked(m2, d)
      <4>1. LinkedRes(m, d) /\ LinkedRec(m, d)
          BY <3>2, LinkedBoth
      <4>2. LinkedRes(m2, d) /\ LinkedRec(m2, d)
          BY <2>1, <2>4, <3>1, <4>1 DEF LinkedRes, LinkedRec
      <4> QED BY <3>1, <4>2, LinkedBoth
    <3>3. Cellular(m) => Cellular(m2)
        BY <3>1 DEF Cellular
    <3>4. Unique(m) => Unique(m2)
        BY <3>1 DEF Unique
    <3>5. \A d \in CarIds : Unowned(m, d) => Unowned(m2, d)
        BY <2>1, <3>1 DEF Unowned
    <3>6. Keeps(m, m2)
        BY <3>1, <3>2, <3>3, <3>4, <3>5 DEF Keeps
    <3> QED BY <2>1, <3>1, <3>6
  <2> QED BY <2>3, <2>4
<1> QED BY <1>1, <1>2

\* Changing one car's schedules and the map that leads to them.
LEMMA PlansChangeKeeps ==
    ASSUME NEW m \in Models, NEW m2, NEW c \in DOMAIN m.cars, NEW g, NEW a,
           PlansChanged(m, m2, c, g, a),
           LinkedRec(m, c) =>
               \A r \in RecIds : (\E b \in a : b.id = r) <=> (r \in DOMAIN g /\ g[r] = c),
           \A r \in RecIds : \A d \in CarIds \ {c} :
               (r \in DOMAIN g /\ g[r] = d)
               <=> (r \in DOMAIN m.recurrenceCar /\ m.recurrenceCar[r] = d)
    PROVE  Keeps(m, m2)
<1>0. /\ m2 \in Models
      /\ DOMAIN m2.cars = DOMAIN m.cars
      /\ \A d \in DOMAIN m.cars : d # c => m2.cars[d] = m.cars[d]
      /\ m2.cars[c].recurrences = a
      /\ m2.cars[c].cell = m.cars[c].cell
      /\ m2.cars[c].busy = m.cars[c].busy
      /\ m2.cells = m.cells
      /\ m2.recurrenceCar = g
      /\ m2.reservationCar = m.reservationCar
    BY DEF PlansChanged
<1>1. Cellular(m) => Cellular(m2)
  <2>1. \A d \in DOMAIN m.cars : m2.cars[d].cell = m.cars[d].cell
      BY <1>0
  <2> QED BY <1>0, <2>1 DEF Cellular
<1>2. Unique(m) => Unique(m2)
    BY <1>0 DEF Unique
<1>3. ASSUME NEW d \in DOMAIN m.cars, Linked(m, d)
      PROVE  Linked(m2, d)
  <2>1. LinkedRec(m, d) /\ LinkedRes(m, d)
      BY <1>3, LinkedBoth
  <2>2. m2.cars[d].busy = m.cars[d].busy
      BY <1>0
  <2>3. LinkedRes(m2, d)
      BY <1>0, <2>1, <2>2 DEF LinkedRes
  <2>4. LinkedRec(m2, d)
    <3>1. CASE d = c
        BY <1>0, <2>1, <3>1 DEF LinkedRec
    <3>2. CASE d # c
      <4>1. m2.cars[d].recurrences = m.cars[d].recurrences /\ d \in CarIds \ {c}
          BY <1>0, <3>2, ModelHas
      <4> QED BY <1>0, <2>1, <4>1 DEF LinkedRec
    <3> QED BY <3>1, <3>2
  <2> QED BY <1>0, <2>3, <2>4, LinkedBoth
<1>4. ASSUME NEW d \in CarIds \ DOMAIN m2.cars, Unowned(m, d)
      PROVE  Unowned(m2, d)
  <2>1. d \in CarIds \ {c}
      BY <1>0
  <2>2. \A r \in DOMAIN g : r \in RecIds
      BY <1>0, ModelHas
  <2> QED BY <1>0, <1>4, <2>1, <2>2 DEF Unowned
<1> QED BY <1>0, <1>1, <1>2, <1>3, <1>4 DEF Keeps

LEMMA UpsertRecurrenceKeeps ==
    ASSUME NEW m \in Models, NEW c \in CarIds, NEW w \in Schedule, NEW m2,
           m2 = UpsertRecurrence(m, c, w),
           w.id \in DOMAIN m.recurrenceCar => m.recurrenceCar[w.id] = c
    PROVE  /\ Keeps(m, m2)
           /\ DOMAIN m2.cars = DOMAIN m.cars
           /\ DOMAIN m2.recurrenceCar \subseteq DOMAIN m.recurrenceCar \cup {w.id}
           /\ \A r \in DOMAIN m2.recurrenceCar :
                 IF r = w.id THEN m2.recurrenceCar[r] = c
                 ELSE m2.recurrenceCar[r] = m.recurrenceCar[r]
           /\ m2.reservationCar = m.reservationCar
<1>1. CASE c \notin DOMAIN m.cars
  <2>1. m2 = m
      BY <1>1, UpsertRecurrenceIs, Zenon
  <2> QED BY <2>1 DEF Keeps
<1>2. CASE c \in DOMAIN m.cars
  <2> DEFINE g == With(m.recurrenceCar, w.id, c)
             a == {b \in m.cars[c].recurrences : b.id # w.id} \cup {w}
  <2>1. PlansChanged(m, m2, c, g, a)
      BY <1>2, UpsertRecurrenceIs, Zenon
  <2>2. w.id \in RecIds
      BY DEF Schedule
  <2>3. /\ DOMAIN g = DOMAIN m.recurrenceCar \cup {w.id}
        /\ g[w.id] = c
        /\ \A r \in DOMAIN m.recurrenceCar : r # w.id => g[r] = m.recurrenceCar[r]
      BY DEF With
  <2> HIDE DEF g
  <2>5. ASSUME LinkedRec(m, c), NEW r \in RecIds
        PROVE  (\E b \in a : b.id = r) <=> (r \in DOMAIN g /\ g[r] = c)
      BY <2>3, <2>5 DEF LinkedRec
  <2>6. \A r \in RecIds : \A d \in CarIds \ {c} :
            (r \in DOMAIN g /\ g[r] = d)
            <=> (r \in DOMAIN m.recurrenceCar /\ m.recurrenceCar[r] = d)
      BY <2>3
  <2> HIDE DEF a
  <2>7. Keeps(m, m2)
      BY <1>2, <2>1, <2>5, <2>6, PlansChangeKeeps
  <2>8. DOMAIN m2.cars = DOMAIN m.cars /\ m2.recurrenceCar = g
        /\ m2.reservationCar = m.reservationCar
      BY <2>1 DEF PlansChanged
  <2> QED BY <2>3, <2>7, <2>8
<1> QED BY <1>1, <1>2

LEMMA RemoveRecurrenceKeeps ==
    ASSUME NEW m \in Models, NEW r \in RecIds, NEW m2, m2 = RemoveRecurrence(m, r)
    PROVE  /\ Keeps(m, m2)
           /\ DOMAIN m2.cars = DOMAIN m.cars
           /\ DOMAIN m2.recurrenceCar = DOMAIN m.recurrenceCar \ {r}
           /\ \A x \in DOMAIN m2.recurrenceCar : m2.recurrenceCar[x] = m.recurrenceCar[x]
           /\ m2.reservationCar = m.reservationCar
<1>1. CASE r \notin DOMAIN m.recurrenceCar
  <2>1. m2 = m
      BY <1>1, RemoveRecurrenceIs, Zenon
  <2> QED BY <1>1, <2>1 DEF Keeps
<1>2. CASE r \in DOMAIN m.recurrenceCar
  <2> DEFINE c == m.recurrenceCar[r]
             g == Without(m.recurrenceCar, {r})
  <2>1. /\ DOMAIN g = DOMAIN m.recurrenceCar \ {r}
        /\ \A x \in DOMAIN g : g[x] = m.recurrenceCar[x]
      BY DEF Without
  <2>2. c \in CarIds
      BY <1>2, ModelHas
  <2> HIDE DEF g
  <2>3. CASE c \in DOMAIN m.cars
    <3> DEFINE a == {b \in m.cars[c].recurrences : b.id # r}
    <3>1. PlansChanged(m, m2, c, g, a)
        BY <1>2, <2>3, RemoveRecurrenceIs, Zenon DEF g
    <3>3. ASSUME LinkedRec(m, c), NEW x \in RecIds
          PROVE  (\E b \in a : b.id = x) <=> (x \in DOMAIN g /\ g[x] = c)
        BY <2>1, <3>3 DEF LinkedRec
    <3>4. \A x \in RecIds : \A d \in CarIds \ {c} :
              (x \in DOMAIN g /\ g[x] = d)
              <=> (x \in DOMAIN m.recurrenceCar /\ m.recurrenceCar[x] = d)
        BY <1>2, <2>1
    <3> HIDE DEF a
    <3>5. Keeps(m, m2)
        BY <2>3, <3>1, <3>3, <3>4, PlansChangeKeeps
    <3>6. DOMAIN m2.cars = DOMAIN m.cars /\ m2.recurrenceCar = g
          /\ m2.reservationCar = m.reservationCar
        BY <3>1 DEF PlansChanged
    <3> QED BY <2>1, <3>5, <3>6
  <2>4. CASE c \notin DOMAIN m.cars
    <3>1. /\ m2 \in Models
          /\ m2.cars = m.cars /\ m2.cells = m.cells
          /\ m2.recurrenceCar = g
          /\ m2.reservationCar = m.reservationCar
        BY <1>2, <2>4, RemoveRecurrenceIs, Zenon DEF g
    <3>2. ASSUME NEW d \in DOMAIN m.cars, Linked(m, d)
          PROVE  Linked(m2, d)
      <4>1. LinkedRec(m, d) /\ LinkedRes(m, d)
          BY <3>2, LinkedBoth
      <4>2. LinkedRec(m2, d) /\ LinkedRes(m2, d)
          BY <2>1, <2>4, <3>1, <4>1 DEF LinkedRec, LinkedRes
      <4> QED BY <3>1, <4>2, LinkedBoth
    <3>3. Cellular(m) => Cellular(m2)
        BY <3>1 DEF Cellular
    <3>4. Unique(m) => Unique(m2)
        BY <3>1 DEF Unique
    <3>5. \A d \in CarIds : Unowned(m, d) => Unowned(m2, d)
        BY <2>1, <3>1 DEF Unowned
    <3>6. Keeps(m, m2)
        BY <3>1, <3>2, <3>3, <3>4, <3>5 DEF Keeps
    <3> QED BY <2>1, <3>1, <3>6
  <2> QED BY <2>3, <2>4
<1> QED BY <1>1, <1>2

-----------------------------------------------------------------------------
(* One entry applied *)

Window(e) == [id |-> e.id, start |-> e.row.start, end |-> e.row.end, expires |-> e.row.expires]
Plan(e) == [id |-> e.id, start |-> e.row.start, end |-> e.row.end]

LEMMA EntryHas ==
    ASSUME NEW e \in Entries
    PROVE  /\ e.table \in {"car", "reservation", "recurrence"} /\ e.op \in Ops
           /\ e.table = "car" => e.id \in CarIds /\ e.row \in CarRow
           /\ e.table = "reservation" =>
                 /\ e.id \in ResIds /\ e.row \in ResRow /\ e.row.car \in CarIds
                 /\ Window(e) \in Busy /\ Window(e).id = e.id
           /\ e.table = "recurrence" =>
                 /\ e.id \in RecIds /\ e.row \in RecRow /\ e.row.car \in CarIds
                 /\ Plan(e) \in Schedule /\ Plan(e).id = e.id
<1>1. CASE e \in CarEntry
    BY <1>1 DEF CarEntry
<1>2. CASE e \in ResEntry
  <2>1. /\ e.table = "reservation" /\ e.op \in Ops
        /\ e.id \in ResIds /\ e.row \in ResRow
      BY <1>2 DEF ResEntry
  <2>2. e.row.car \in CarIds /\ e.row.start \in Nat /\ e.row.end \in Nat /\ e.row.expires \in Nat
      BY <2>1 DEF ResRow
  <2> QED BY <2>1, <2>2 DEF Window, Busy
<1>3. CASE e \in RecEntry
  <2>1. /\ e.table = "recurrence" /\ e.op \in Ops
        /\ e.id \in RecIds /\ e.row \in RecRow
      BY <1>3 DEF RecEntry
  <2>2. e.row.car \in CarIds /\ e.row.start \in Nat /\ e.row.end \in Nat
      BY <2>1 DEF RecRow
  <2> QED BY <2>1, <2>2 DEF Plan, Schedule
<1> QED BY <1>1, <1>2, <1>3 DEF Entries

LEMMA ApplyIs ==
    ASSUME NEW m, NEW e \in Entries, NEW t
    PROVE  /\ e.table = "car" =>
                 Apply(m, e, t) = IF e.op = "DELETE" THEN RemoveCar(m, e.id)
                                  ELSE UpsertCar(m, e.id, e.row)
           /\ e.table = "reservation" =>
                 Apply(m, e, t) = IF e.op = "DELETE" \/ ~e.row.confirmed \/ e.row.end <= t
                                  THEN RemoveWindow(m, e.id)
                                  ELSE UpsertWindow(m, e.row.car, Window(e))
           /\ e.table = "recurrence" =>
                 Apply(m, e, t) = IF e.op = "DELETE" \/ ~e.row.active
                                  THEN RemoveRecurrence(m, e.id)
                                  ELSE UpsertRecurrence(m, e.row.car, Plan(e))
<1>1. "car" # "reservation" /\ "car" # "recurrence" /\ "reservation" # "recurrence"
    OBVIOUS
<1> QED BY <1>1 DEF Apply, Window, Plan

\* What one entry does to the maps.
AppliedTo(m, e, m2) ==
    /\ Keeps(m, m2)
    /\ DOMAIN m2.cars = IF e.table = "car"
                        THEN IF e.op = "DELETE" THEN DOMAIN m.cars \ {e.id}
                             ELSE DOMAIN m.cars \cup {e.id}
                        ELSE DOMAIN m.cars
    /\ Upserts(e, e.id) /\ e.id \notin DOMAIN m.cars /\ Unowned(m, e.id) => Linked(m2, e.id)
    /\ \A r \in DOMAIN m2.reservationCar :
          \/ r \in DOMAIN m.reservationCar /\ m2.reservationCar[r] = m.reservationCar[r]
          \/ OfRes(e, r) /\ m2.reservationCar[r] = e.row.car
    /\ \A x \in DOMAIN m2.recurrenceCar :
          \/ x \in DOMAIN m.recurrenceCar /\ m2.recurrenceCar[x] = m.recurrenceCar[x]
          \/ OfRec(e, x) /\ m2.recurrenceCar[x] = e.row.car

LEMMA ApplyKeeps ==
    ASSUME NEW m \in Models, NEW e \in Entries, NEW t, NEW m2, m2 = Apply(m, e, t),
           e.table = "reservation" /\ e.id \in DOMAIN m.reservationCar =>
               m.reservationCar[e.id] = e.row.car,
           e.table = "recurrence" /\ e.id \in DOMAIN m.recurrenceCar =>
               m.recurrenceCar[e.id] = e.row.car
    PROVE  AppliedTo(m, e, m2)
<1>1. CASE e.table = "car"
  <2>1. e.id \in CarIds /\ e.row \in CarRow
      BY <1>1, EntryHas
  <2>2. CASE e.op = "DELETE"
    <3>1. m2 = RemoveCar(m, e.id)
        BY <1>1, <2>2, ApplyIs
    <3> QED BY <1>1, <2>1, <2>2, <3>1, RemoveCarKeeps DEF Upserts, AppliedTo
  <2>3. CASE e.op # "DELETE"
    <3>1. m2 = UpsertCar(m, e.id, e.row)
        BY <1>1, <2>3, ApplyIs
    <3> QED BY <1>1, <2>1, <2>3, <3>1, UpsertCarKeeps DEF AppliedTo
  <2> QED BY <2>2, <2>3
<1>2. CASE e.table = "reservation"
  <2>1. /\ e.id \in ResIds /\ e.row.car \in CarIds
        /\ Window(e) \in Busy /\ Window(e).id = e.id
      BY <1>2, EntryHas
  <2>2. CASE e.op = "DELETE" \/ ~e.row.confirmed \/ e.row.end <= t
    <3>1. m2 = RemoveWindow(m, e.id)
        BY <1>2, <2>2, ApplyIs
    <3> QED BY <1>2, <2>1, <3>1, RemoveWindowKeeps DEF Upserts, OfCar, AppliedTo
  <2>3. CASE ~(e.op = "DELETE" \/ ~e.row.confirmed \/ e.row.end <= t)
    <3>1. m2 = UpsertWindow(m, e.row.car, Window(e))
        BY <1>2, <2>3, ApplyIs
    <3>2. /\ Keeps(m, m2)
          /\ DOMAIN m2.cars = DOMAIN m.cars
          /\ DOMAIN m2.reservationCar \subseteq DOMAIN m.reservationCar \cup {e.id}
          /\ \A r \in DOMAIN m2.reservationCar :
                IF r = e.id THEN m2.reservationCar[r] = e.row.car
                ELSE m2.reservationCar[r] = m.reservationCar[r]
          /\ m2.recurrenceCar = m.recurrenceCar
        BY <1>2, <2>1, <3>1, UpsertWindowKeeps
    <3> QED BY <1>2, <3>2 DEF AppliedTo, Upserts, OfCar, OfRes
  <2> QED BY <2>2, <2>3
<1>3. CASE e.table = "recurrence"
  <2>1. /\ e.id \in RecIds /\ e.row.car \in CarIds
        /\ Plan(e) \in Schedule /\ Plan(e).id = e.id
      BY <1>3, EntryHas
  <2>2. CASE e.op = "DELETE" \/ ~e.row.active
    <3>1. m2 = RemoveRecurrence(m, e.id)
        BY <1>3, <2>2, ApplyIs
    <3> QED BY <1>3, <2>1, <3>1, RemoveRecurrenceKeeps DEF Upserts, OfCar, AppliedTo
  <2>3. CASE ~(e.op = "DELETE" \/ ~e.row.active)
    <3>1. m2 = UpsertRecurrence(m, e.row.car, Plan(e))
        BY <1>3, <2>3, ApplyIs
    <3>2. /\ Keeps(m, m2)
          /\ DOMAIN m2.cars = DOMAIN m.cars
          /\ DOMAIN m2.recurrenceCar \subseteq DOMAIN m.recurrenceCar \cup {e.id}
          /\ \A r \in DOMAIN m2.recurrenceCar :
                IF r = e.id THEN m2.recurrenceCar[r] = e.row.car
                ELSE m2.recurrenceCar[r] = m.recurrenceCar[r]
          /\ m2.reservationCar = m.reservationCar
        BY <1>3, <2>1, <3>1, UpsertRecurrenceKeeps
    <3> QED BY <1>3, <3>2 DEF AppliedTo, Upserts, OfCar, OfRec
  <2> QED BY <2>2, <2>3
<1> QED BY <1>1, <1>2, <1>3, EntryHas

-----------------------------------------------------------------------------
(* A batch applied *)

\* The car leaves the model before the batch ends.
Doomed(c, n, k) == \E j \in n + 1 .. k : Removes(log[j], c)

\* After the first n of the entries up to k.
BatchInv(m, n, k, o, q) ==
    /\ m \in Models
    /\ Cellular(m) /\ Unique(m)
    /\ \A r \in DOMAIN m.reservationCar : m.reservationCar[r] = o[r] /\ r \in used
    /\ \A x \in DOMAIN m.recurrenceCar : m.recurrenceCar[x] = q[x] /\ x \in used
    /\ \A c \in DOMAIN m.cars : Linked(m, c) \/ Doomed(c, n, k)
    /\ \A c \in CarIds \ DOMAIN m.cars :
          Unowned(m, c) \/ (c \in used \ DOMAIN db.cars /\ Ends(c, n, k))

LEMMA BatchStep ==
    ASSUME log \in Seq(Entries), Given, LifeOfCar, NEW o, NEW q, Owned(o, q),
           NEW k \in Nat, k <= Len(log), NEW n \in 0 .. k, n < k,
           NEW m, BatchInv(m, n, k, o, q), NEW m2, m2 = Apply(m, log[n + 1], now)
    PROVE  BatchInv(m2, n + 1, k, o, q)
<1> DEFINE e == log[n + 1]
<1>0. /\ n + 1 \in 1 .. Len(log) /\ e \in Entries /\ n + 1 \in n + 1 .. k
      /\ \A j \in n + 1 .. k : j = n + 1 \/ j \in (n + 1) + 1 .. k
      /\ \A j \in (n + 1) + 1 .. k : j \in n + 1 .. k /\ j \in (n + 1) + 1 .. Len(log)
      /\ \A j \in 1 .. k : j \in 1 .. Len(log)
    OBVIOUS
<1>1. /\ m \in Models /\ Cellular(m) /\ Unique(m)
      /\ \A r \in DOMAIN m.reservationCar : m.reservationCar[r] = o[r] /\ r \in used
      /\ \A x \in DOMAIN m.recurrenceCar : m.recurrenceCar[x] = q[x] /\ x \in used
      /\ \A c \in DOMAIN m.cars : Linked(m, c) \/ Doomed(c, n, k)
      /\ \A c \in CarIds \ DOMAIN m.cars :
            Unowned(m, c) \/ (c \in used \ DOMAIN db.cars /\ Ends(c, n, k))
    BY DEF BatchInv
<1>2. /\ e.table = "reservation" => e.row.car = o[e.id]
      /\ e.table = "recurrence" => e.row.car = q[e.id]
      /\ e.id \in used
    BY <1>0 DEF Owned, Given
<1>3. /\ Keeps(m, m2)
      /\ DOMAIN m2.cars = IF e.table = "car"
                          THEN IF e.op = "DELETE" THEN DOMAIN m.cars \ {e.id}
                               ELSE DOMAIN m.cars \cup {e.id}
                          ELSE DOMAIN m.cars
      /\ Upserts(e, e.id) /\ e.id \notin DOMAIN m.cars /\ Unowned(m, e.id) => Linked(m2, e.id)
      /\ \A r \in DOMAIN m2.reservationCar :
            \/ r \in DOMAIN m.reservationCar /\ m2.reservationCar[r] = m.reservationCar[r]
            \/ OfRes(e, r) /\ m2.reservationCar[r] = e.row.car
      /\ \A x \in DOMAIN m2.recurrenceCar :
            \/ x \in DOMAIN m.recurrenceCar /\ m2.recurrenceCar[x] = m.recurrenceCar[x]
            \/ OfRec(e, x) /\ m2.recurrenceCar[x] = e.row.car
  <2> HIDE DEF e
  <2>1. m2 = Apply(m, e, now)
      BY DEF e
  <2>2. /\ m \in Models /\ e \in Entries
        /\ e.table = "reservation" /\ e.id \in DOMAIN m.reservationCar =>
              m.reservationCar[e.id] = e.row.car
        /\ e.table = "recurrence" /\ e.id \in DOMAIN m.recurrenceCar =>
              m.recurrenceCar[e.id] = e.row.car
      BY <1>0, <1>1, <1>2
  <2>3. AppliedTo(m, e, m2)
      BY <2>1, <2>2, ApplyKeeps
  <2> QED BY <2>3 DEF AppliedTo
<1>4. e.table = "car" => e.id \in CarIds
    BY <1>0, EntryHas
<1> HIDE DEF e
<1>5. m2 \in Models /\ Cellular(m2) /\ Unique(m2)
    BY <1>1, <1>3 DEF Keeps
<1>6. /\ \A r \in DOMAIN m2.reservationCar : m2.reservationCar[r] = o[r] /\ r \in used
      /\ \A x \in DOMAIN m2.recurrenceCar : m2.recurrenceCar[x] = q[x] /\ x \in used
    BY <1>1, <1>2, <1>3 DEF OfRes, OfRec
<1>7. ASSUME NEW c \in CarIds
      PROVE  /\ Doomed(c, n, k) => Removes(e, c) \/ Doomed(c, n + 1, k)
             /\ Ends(c, n, k) => Ends(c, n + 1, k)
             /\ Ends(c, n, k) /\ Upserts(e, c) => Doomed(c, n + 1, k)
             /\ Removes(e, c) => c \notin DOMAIN db.cars /\ Ends(c, n + 1, k)
  <2>1. Doomed(c, n, k) => Removes(e, c) \/ Doomed(c, n + 1, k)
      BY <1>0 DEF Doomed, e
  <2>2. Ends(c, n, k) => Ends(c, n + 1, k)
      BY <1>0 DEF Ends
  <2>3. Ends(c, n, k) /\ Upserts(e, c) => Doomed(c, n + 1, k)
      BY <1>0 DEF Ends, Doomed, e
  <2>4. ASSUME Removes(e, c)
        PROVE  c \notin DOMAIN db.cars /\ Ends(c, n + 1, k)
    <3>1. /\ c \notin DOMAIN db.cars
          /\ \A j \in (n + 1) + 1 .. Len(log) : ~OfCar(log[j], c)
        BY <1>0, <2>4 DEF LifeOfCar, e
    <3> QED BY <1>0, <3>1 DEF Ends, Upserts
  <2> QED BY <2>1, <2>2, <2>3, <2>4
<1>8. ASSUME NEW c \in DOMAIN m2.cars
      PROVE  Linked(m2, c) \/ Doomed(c, n + 1, k)
  <2>0. c \in CarIds
      BY <1>5, ModelHas
  <2>1. CASE c \in DOMAIN m.cars
    <3>1. ~Removes(e, c)
        BY <1>3 DEF Removes, OfCar
    <3> QED BY <1>1, <1>3, <1>7, <2>0, <2>1, <3>1 DEF Keeps
  <2>2. CASE c \notin DOMAIN m.cars
    <3>1. Upserts(e, c) /\ c = e.id
        BY <1>3, <2>2 DEF Upserts, OfCar
    <3> QED BY <1>1, <1>3, <1>7, <2>0, <2>2, <3>1
  <2> QED BY <2>1, <2>2
<1>9. ASSUME NEW c \in CarIds \ DOMAIN m2.cars
      PROVE  Unowned(m2, c) \/ (c \in used \ DOMAIN db.cars /\ Ends(c, n + 1, k))
  <2>1. CASE c \in DOMAIN m.cars
    <3>1. Removes(e, c) /\ c = e.id
        BY <1>3, <2>1 DEF Removes, OfCar
    <3> QED BY <1>2, <1>7, <3>1
  <2>2. CASE c \notin DOMAIN m.cars
      BY <1>1, <1>3, <1>7, <2>2 DEF Keeps
  <2> QED BY <2>1, <2>2
<1> QED BY <1>5, <1>6, <1>8, <1>9 DEF BatchInv

\* f[n] is the model after the first n of the k entries that were read.
BatchOf(f, m, k, o, q) ==
    /\ f[0] = m
    /\ \A n \in 1 .. k : f[n] = Apply(f[n - 1], log[n], now)
    /\ \A n \in 0 .. k : BatchInv(f[n], n, k, o, q)
    /\ Applied(m, SubSeq(log, 1, k)) = f[k]

LEMMA BatchRun ==
    ASSUME log \in Seq(Entries), Given, LifeOfCar, NEW o, NEW q, Owned(o, q),
           NEW k \in Nat, k <= Len(log), NEW m, BatchInv(m, 0, k, o, q)
    PROVE  \E f : BatchOf(f, m, k, o, q)
<1> DEFINE es == SubSeq(log, 1, k)
<1>1. Len(es) = k /\ \A n \in 1 .. k : es[n] = log[n]
    OBVIOUS
<1>2. PICK f : RunsOn(f, m, es)
  <2>1. Len(es) \in Nat
      BY <1>1
  <2> QED BY <2>1, AppliedRun, Zenon
<1>3. \A n \in 1 .. k : f[n] = Apply(f[n - 1], log[n], now)
    BY <1>1, <1>2 DEF RunsOn
<1> DEFINE S == {n \in 0 .. k : BatchInv(f[n], n, k, o, q)}
<1>4. 0 \in S
    BY <1>2 DEF RunsOn
<1>5. ASSUME NEW n \in 0 .. k, n < k, n \in S
      PROVE  n + 1 \in S
  <2>1. BatchInv(f[n], n, k, o, q)
      BY <1>5
  <2>2. n + 1 \in 1 .. k /\ (n + 1) - 1 = n
      BY <1>5
  <2>3. f[n + 1] = Apply(f[n], log[n + 1], now)
      BY <1>3, <2>2
  <2>4. BatchInv(f[n + 1], n + 1, k, o, q)
      BY <1>5, <2>1, <2>3, BatchStep
  <2> QED BY <2>2, <2>4
<1>6. \A n \in 0 .. k : n \in S
  <2> HIDE DEF S
  <2> QED BY <1>4, <1>5, CountUp
<1>7. BatchOf(f, m, k, o, q)
    BY <1>1, <1>2, <1>3, <1>6 DEF BatchOf, RunsOn
<1> QED BY <1>7

\* A model that the rest of the state agrees with.
Fits(m, o, q) ==
    /\ m \in Models /\ Agree(m)
    /\ \A r \in DOMAIN m.reservationCar : m.reservationCar[r] = o[r] /\ r \in used
    /\ \A x \in DOMAIN m.recurrenceCar : m.recurrenceCar[x] = q[x] /\ x \in used

\* The whole batch is applied.
LEMMA BatchDone ==
    ASSUME log \in Seq(Entries), NEW o, NEW q, NEW k \in Nat, NEW m, BatchInv(m, k, k, o, q)
    PROVE  /\ Fits(m, o, q)
           /\ \A c \in CarIds \ DOMAIN m.cars : Unowned(m, c) \/ c \in used \ DOMAIN db.cars
<1>1. \A c : ~Doomed(c, k, k)
    BY DEF Doomed
<1> QED BY <1>1 DEF BatchInv, Agree, Fits

-----------------------------------------------------------------------------
(* The model of a snapshot *)

LEMMA TablesHas ==
    ASSUME NEW d \in Tables
    PROVE  /\ d.cars \in Table(CarIds, CarRow) /\ d.resv \in Table(ResIds, ResRow)
           /\ d.recs \in Table(RecIds, RecRow)
           /\ \A c \in DOMAIN d.cars : c \in CarIds /\ d.cars[c] \in CarRow
           /\ \A r \in DOMAIN d.resv : r \in ResIds /\ d.resv[r] \in ResRow
           /\ \A x \in DOMAIN d.recs : x \in RecIds /\ d.recs[x] \in RecRow
<1>1. /\ d.cars \in Table(CarIds, CarRow) /\ d.resv \in Table(ResIds, ResRow)
      /\ d.recs \in Table(RecIds, RecRow)
    BY DEF Tables
<1> QED BY <1>1, TableHas

\* The windows and the schedules of a car in the tables.
Windowed(d, r) == [id |-> r, start |-> d.resv[r].start, end |-> d.resv[r].end,
                   expires |-> d.resv[r].expires]
Scheduled(d, x) == [id |-> x, start |-> d.recs[x].start, end |-> d.recs[x].end]

LoadedBusy(d, t, c) ==
    {Windowed(d, r) : r \in {x \in DOMAIN d.resv : /\ d.resv[x].confirmed /\ d.resv[x].end > t
                                                    /\ d.resv[x].car = c}}
LoadedPlans(d, c) ==
    {Scheduled(d, y) : y \in {x \in DOMAIN d.recs : d.recs[x].active /\ d.recs[x].car = c}}

\* m is what a snapshot d gives at time t.
Loaded(m, d, t) ==
    /\ m = [cars |-> m.cars, cells |-> m.cells, reservationCar |-> m.reservationCar,
            recurrenceCar |-> m.recurrenceCar]
    /\ m.cars = [c \in DOMAIN d.cars |-> m.cars[c]]
    /\ \A c \in DOMAIN d.cars :
          /\ m.cars[c] = [cell |-> m.cars[c].cell, listed |-> m.cars[c].listed,
                          busy |-> m.cars[c].busy, recurrences |-> m.cars[c].recurrences]
          /\ m.cars[c].cell = d.cars[c].cell /\ m.cars[c].listed = d.cars[c].listed
          /\ m.cars[c].busy = LoadedBusy(d, t, c)
          /\ m.cars[c].recurrences = LoadedPlans(d, c)
    /\ m.cells = {<<d.cars[c].cell, c>> : c \in DOMAIN d.cars}
    /\ m.reservationCar = [r \in {x \in DOMAIN d.resv : d.resv[x].confirmed /\ d.resv[x].end > t}
                             |-> d.resv[r].car]
    /\ m.recurrenceCar = [s \in {x \in DOMAIN d.recs : d.recs[x].active} |-> d.recs[s].car]

LEMMA LoadIs ==
    ASSUME NEW d \in Tables, NEW t, NEW m, m = Load(d, t)
    PROVE  Loaded(m, d, t)
<1> DEFINE kept == {r \in DOMAIN d.resv : d.resv[r].confirmed /\ d.resv[r].end > t}
           active == {s \in DOMAIN d.recs : d.recs[s].active}
           busy(c) == {[id |-> r, start |-> d.resv[r].start, end |-> d.resv[r].end,
                        expires |-> d.resv[r].expires] : r \in {x \in kept : d.resv[x].car = c}}
           plans(c) == {[id |-> s, start |-> d.recs[s].start, end |-> d.recs[s].end]
                        : s \in {x \in active : d.recs[x].car = c}}
           cars == [c \in DOMAIN d.cars |->
                      [cell |-> d.cars[c].cell, listed |-> d.cars[c].listed, busy |-> busy(c),
                       recurrences |-> plans(c)]]
           cells == {<<d.cars[c].cell, c>> : c \in DOMAIN d.cars}
           rc == [r \in kept |-> d.resv[r].car]
           qc == [s \in active |-> d.recs[s].car]
<1>1. m = [cars |-> cars, cells |-> cells, reservationCar |-> rc, recurrenceCar |-> qc]
    BY Zenon DEF Load
<1>2. ASSUME NEW c PROVE busy(c) = LoadedBusy(d, t, c)
  <2>1. {x \in kept : d.resv[x].car = c} =
           {x \in DOMAIN d.resv : d.resv[x].confirmed /\ d.resv[x].end > t /\ d.resv[x].car = c}
      OBVIOUS
  <2> QED BY <2>1 DEF LoadedBusy, Windowed
<1>3. ASSUME NEW c PROVE plans(c) = LoadedPlans(d, c)
  <2>1. {x \in active : d.recs[x].car = c} =
           {x \in DOMAIN d.recs : d.recs[x].active /\ d.recs[x].car = c}
      OBVIOUS
  <2> QED BY <2>1 DEF LoadedPlans, Scheduled
<1> HIDE DEF busy, plans
<1>4. cars = [c \in DOMAIN d.cars |-> cars[c]]
    OBVIOUS
<1>5. ASSUME NEW c \in DOMAIN d.cars
      PROVE  cars[c] = [cell |-> d.cars[c].cell, listed |-> d.cars[c].listed,
                        busy |-> LoadedBusy(d, t, c), recurrences |-> LoadedPlans(d, c)]
    BY <1>2, <1>3
<1> HIDE DEF cars, cells, rc, qc
<1>6. /\ m.cars = cars /\ m.cells = cells
      /\ m.reservationCar = rc /\ m.recurrenceCar = qc
    BY <1>1
<1>7. ASSUME NEW c \in DOMAIN d.cars
      PROVE  /\ cars[c] = [cell |-> cars[c].cell, listed |-> cars[c].listed,
                           busy |-> cars[c].busy, recurrences |-> cars[c].recurrences]
             /\ cars[c].cell = d.cars[c].cell /\ cars[c].listed = d.cars[c].listed
             /\ cars[c].busy = LoadedBusy(d, t, c)
             /\ cars[c].recurrences = LoadedPlans(d, c)
  <2> DEFINE x == cars[c]
             l == d.cars[c].listed
             y == d.cars[c].cell
             u == LoadedBusy(d, t, c)
             v == LoadedPlans(d, c)
  <2>1. x = [cell |-> y, listed |-> l, busy |-> u, recurrences |-> v]
      BY <1>5
  <2> HIDE DEF x, l, y, u, v
  <2>2. /\ x = [cell |-> x.cell, listed |-> x.listed, busy |-> x.busy, recurrences |-> x.recurrences]
        /\ x.cell = y /\ x.listed = l /\ x.busy = u /\ x.recurrences = v
      BY <2>1
  <2> QED BY <2>2, Zenon DEF x, l, y, u, v
<1>8. rc = [r \in {x \in DOMAIN d.resv : d.resv[x].confirmed /\ d.resv[x].end > t}
              |-> d.resv[r].car]
    BY DEF rc
<1>9. qc = [s \in {x \in DOMAIN d.recs : d.recs[x].active} |-> d.recs[s].car]
    BY DEF qc
<1>10. cells = {<<d.cars[c].cell, c>> : c \in DOMAIN d.cars}
    BY DEF cells
<1> HIDE DEF kept, active
<1> QED BY <1>1, <1>4, <1>6, <1>7, <1>8, <1>9, <1>10, Zenon DEF Loaded

LEMMA LoadAgrees ==
    ASSUME NEW d \in Tables, References(d), NEW t \in Nat, NEW m, m = Load(d, t)
    PROVE  /\ m \in Models /\ Agree(m)
           /\ \A c \in CarIds \ DOMAIN m.cars : Unowned(m, c)
           /\ \A r \in DOMAIN m.reservationCar :
                 r \in DOMAIN d.resv /\ m.reservationCar[r] = d.resv[r].car
           /\ \A x \in DOMAIN m.recurrenceCar :
                 x \in DOMAIN d.recs /\ m.recurrenceCar[x] = d.recs[x].car
<1> DEFINE kept == {x \in DOMAIN d.resv : d.resv[x].confirmed /\ d.resv[x].end > t}
           active == {x \in DOMAIN d.recs : d.recs[x].active}
<1>0. Loaded(m, d, t)
    BY LoadIs
<1>1. /\ DOMAIN m.cars = DOMAIN d.cars
      /\ m.cells = {<<d.cars[c].cell, c>> : c \in DOMAIN d.cars}
      /\ m.reservationCar = [r \in kept |-> d.resv[r].car]
      /\ m.recurrenceCar = [s \in active |-> d.recs[s].car]
    BY <1>0 DEF Loaded
<1>2. \A c \in DOMAIN d.cars :
         /\ m.cars[c].cell = d.cars[c].cell /\ m.cars[c].listed = d.cars[c].listed
         /\ m.cars[c].busy = LoadedBusy(d, t, c)
         /\ m.cars[c].recurrences = LoadedPlans(d, c)
    BY <1>0 DEF Loaded
<1>3. /\ DOMAIN m.reservationCar = kept /\ \A r \in kept : m.reservationCar[r] = d.resv[r].car
      /\ DOMAIN m.recurrenceCar = active /\ \A x \in active : m.recurrenceCar[x] = d.recs[x].car
    BY <1>1
<1>4. /\ \A r \in DOMAIN d.resv :
            /\ r \in ResIds /\ d.resv[r].car \in CarIds /\ Windowed(d, r) \in Busy
            /\ Windowed(d, r).id = r
      /\ \A x \in DOMAIN d.recs :
            /\ x \in RecIds /\ d.recs[x].car \in CarIds /\ Scheduled(d, x) \in Schedule
            /\ Scheduled(d, x).id = x
    BY TablesHas DEF ResRow, RecRow, Windowed, Scheduled, Busy, Schedule
<1>5. \A c \in DOMAIN d.cars : c \in CarIds /\ d.cars[c].cell \in Cells /\ d.cars[c].listed \in BOOLEAN
    BY TablesHas DEF CarRow
<1>6. \A c : LoadedBusy(d, t, c) \in SUBSET Busy /\ LoadedPlans(d, c) \in SUBSET Schedule
    BY <1>4 DEF LoadedBusy, LoadedPlans
<1>7. ASSUME NEW c \in DOMAIN d.cars PROVE m.cars[c] \in Car
  <2> DEFINE x == m.cars[c]
  <2>1. x = [cell |-> x.cell, listed |-> x.listed, busy |-> x.busy, recurrences |-> x.recurrences]
      BY <1>0, Zenon DEF Loaded
  <2>2. /\ x.cell \in Cells /\ x.listed \in BOOLEAN
        /\ x.busy \in SUBSET Busy /\ x.recurrences \in SUBSET Schedule
      BY <1>2, <1>5, <1>6
  <2> HIDE DEF x
  <2>3. x \in Car
      BY <2>1, <2>2 DEF Car
  <2> QED BY <2>3 DEF x
<1>8. m \in Models
  <2>1. m.cars \in Table(CarIds, Car)
    <3>2. m.cars \in [DOMAIN d.cars -> Car]
      <4>1. m.cars = [c \in DOMAIN d.cars |-> m.cars[c]]
          BY <1>0, Zenon DEF Loaded
      <4> QED BY <4>1, <1>7
    <3>3. DOMAIN d.cars \in SUBSET CarIds
        BY <1>5
    <3> QED BY <3>2, <3>3, TableOf
  <2>2. m.reservationCar \in Table(ResIds, CarIds)
    <3>1. m.reservationCar \in [kept -> CarIds] /\ kept \in SUBSET ResIds
        BY <1>1, <1>4
    <3> QED BY <3>1, TableOf
  <2>3. m.recurrenceCar \in Table(RecIds, CarIds)
    <3>1. m.recurrenceCar \in [active -> CarIds] /\ active \in SUBSET RecIds
        BY <1>1, <1>4
    <3> QED BY <3>1, TableOf
  <2>4. m.cells \in SUBSET (Cells \X CarIds)
      BY <1>1, <1>5
  <2>5. m = [cars |-> m.cars, cells |-> m.cells, reservationCar |-> m.reservationCar,
             recurrenceCar |-> m.recurrenceCar]
      BY <1>0 DEF Loaded
  <2> QED BY <2>1, <2>2, <2>3, <2>4, <2>5 DEF Models
<1>9. Cellular(m)
    BY <1>1, <1>2 DEF Cellular
<1>10. Unique(m)
    BY <1>1, <1>2, <1>4 DEF Unique, LoadedBusy
<1>11. ASSUME NEW c \in DOMAIN m.cars PROVE Linked(m, c)
  <2>1. LinkedRes(m, c)
      BY <1>1, <1>2, <1>3, <1>4 DEF LinkedRes, LoadedBusy
  <2>2. LinkedRec(m, c)
      BY <1>1, <1>2, <1>3, <1>4 DEF LinkedRec, LoadedPlans
  <2> QED BY <1>8, <2>1, <2>2, LinkedBoth
<1>12. \A c \in CarIds \ DOMAIN m.cars : Unowned(m, c)
    BY <1>1, <1>3 DEF Unowned, References
<1> QED BY <1>3, <1>8, <1>9, <1>10, <1>11, <1>12 DEF Agree

-----------------------------------------------------------------------------
(* Sets as sequences *)

\* s lists the set S.
Lists(s, S) ==
    /\ s \in Seq(S) /\ Len(s) = Cardinality(S)
    /\ \A i \in 1 .. Len(s) : s[i] \in S
    /\ \A x \in S : \E i \in 1 .. Len(s) : s[i] = x
    /\ \A i, j \in 1 .. Len(s) : s[i] = s[j] => i = j

LEMMA EnumerationLists ==
    ASSUME NEW S, IsFiniteSet(S), NEW f \in [1 .. Cardinality(S) -> S],
           \A i, j \in 1 .. Cardinality(S) : f[i] = f[j] => i = j
    PROVE  Lists(f, S)
<1> DEFINE N == Cardinality(S)
<1>1. N \in Nat
    BY FS_CardinalityType
<1>2. f \in Injection(1 .. N, S)
    BY DEF Injection, IsInjective
<1>3. IsFiniteSet(1 .. N) /\ Cardinality(1 .. N) = N
    BY <1>1, FS_Interval
<1>4. f \in Surjection(1 .. N, S)
    BY <1>2, <1>3, FS_Injection
<1>5. \A y \in S : \E i \in 1 .. N : f[i] = y
    BY <1>4 DEF Surjection
<1>6. f \in Seq(S) /\ Len(f) = N
    BY <1>1
<1> QED BY <1>5, <1>6 DEF Lists

LEMMA SetToSeqsHas ==
    ASSUME NEW S, IsFiniteSet(S), NEW s \in SetToSeqs(S)
    PROVE  Lists(s, S)
<1>1. /\ s \in [1 .. Cardinality(S) -> S]
      /\ \A i, j \in 1 .. Cardinality(S) : i # j => s[i] # s[j]
    BY DEF SetToSeqs
<1> QED BY <1>1, EnumerationLists

LEMMA SetToSeqHas ==
    ASSUME NEW S, IsFiniteSet(S), NEW s, s = SetToSeq(S)
    PROVE  Lists(s, S)
<1> DEFINE N == Cardinality(S)
           f == SetToSeq(S)
<1>1. N \in Nat /\ ExistsBijection(1 .. N, S)
    BY FS_CardinalityType
<1>2. PICK b : b \in [1 .. N -> S] /\ IsInjective(b)
    BY <1>1 DEF ExistsBijection, Bijection, Injection
<1>3. f \in [1 .. N -> S] /\ IsInjective(f)
    BY <1>2, Zenon DEF SetToSeq
<1> HIDE DEF f
<1>4. \A i, j \in 1 .. N : f[i] = f[j] => i = j
    BY <1>3 DEF IsInjective
<1>5. Lists(f, S)
    BY <1>3, <1>4, EnumerationLists
<1> QED BY <1>5 DEF f

\* w is s and then t.
Joined(w, s, t) ==
    /\ Len(w) = Len(s) + Len(t)
    /\ \A i \in 1 .. Len(s) : i \in 1 .. Len(w) /\ w[i] = s[i]
    /\ \A i \in 1 .. Len(t) : Len(s) + i \in 1 .. Len(w) /\ w[Len(s) + i] = t[i]
    /\ \A i \in 1 .. Len(w) : i \in 1 .. Len(s) \/ \E j \in 1 .. Len(t) : i = Len(s) + j

LEMMA Offset ==
    ASSUME NEW a \in Nat, NEW b \in Nat
    PROVE  /\ \A p \in 1 .. b : a + p \in 1 .. a + b /\ ~(a + p <= a) /\ (a + p) - a = p
           /\ \A p \in 1 .. a + b : p \notin 1 .. a => p - a \in 1 .. b /\ p = a + (p - a)
  OBVIOUS

LEMMA Appended ==
    ASSUME NEW T, NEW s \in Seq(T), NEW t \in Seq(T), NEW w, w = s \o t
    PROVE  w \in Seq(T) /\ Joined(w, s, t)
<1>1. Len(s) \in Nat /\ Len(t) \in Nat
    OBVIOUS
<1>2. w \in Seq(T) /\ Len(w) = Len(s) + Len(t)
      /\ \A p \in 1 .. Len(s) + Len(t) : w[p] = IF p <= Len(s) THEN s[p] ELSE t[p - Len(s)]
    OBVIOUS
<1>3. ASSUME NEW p \in 1 .. Len(t)
      PROVE  Len(s) + p \in 1 .. Len(w) /\ w[Len(s) + p] = t[p]
  <2>1. Len(s) + p \in 1 .. Len(s) + Len(t) /\ ~(Len(s) + p <= Len(s))
        /\ (Len(s) + p) - Len(s) = p
      BY <1>1, Offset, Zenon
  <2> QED BY <1>2, <2>1
<1>4. ASSUME NEW p \in 1 .. Len(w), p \notin 1 .. Len(s)
      PROVE  \E j \in 1 .. Len(t) : p = Len(s) + j
  <2>1. p \in 1 .. Len(s) + Len(t)
      BY <1>2
  <2>2. p - Len(s) \in 1 .. Len(t) /\ p = Len(s) + (p - Len(s))
      BY <1>1, <1>4, <2>1, Offset, Zenon
  <2> QED BY <2>2, Zenon
<1>5. \A i \in 1 .. Len(s) : i \in 1 .. Len(w) /\ w[i] = s[i]
  <2> TAKE i \in 1 .. Len(s)
  <2>1. i \in 1 .. Len(s) + Len(t) /\ i <= Len(s)
      BY <1>1
  <2> QED BY <1>2, <2>1, Zenon
<1> QED BY <1>2, <1>3, <1>4, <1>5, Zenon DEF Joined

-----------------------------------------------------------------------------
(* What each write does to the tables and to the log *)

LEMMA CarsSet ==
    ASSUME NEW d \in Tables, NEW g, NEW y, y = [d EXCEPT !.cars = g]
    PROVE  y = [cars |-> g, resv |-> d.resv, recs |-> d.recs]
  BY DEF Tables

LEMMA ResvSet ==
    ASSUME NEW d \in Tables, NEW g, NEW y, y = [d EXCEPT !.resv = g]
    PROVE  y = [cars |-> d.cars, resv |-> g, recs |-> d.recs]
  BY DEF Tables

LEMMA RecsSet ==
    ASSUME NEW d \in Tables, NEW g, NEW y, y = [d EXCEPT !.recs = g]
    PROVE  y = [cars |-> d.cars, resv |-> d.resv, recs |-> g]
  BY DEF Tables

\* f with v at k, and without the keys of S.
Puts(f, g, S, k, v) ==
    /\ DOMAIN g = (DOMAIN f \ S) \cup {k}
    /\ g[k] = v
    /\ \A x \in DOMAIN f \ S : x # k => g[x] = f[x]

PutCar(d, y, c, row) ==
    /\ y \in Tables /\ y.resv = d.resv /\ y.recs = d.recs
    /\ Puts(d.cars, y.cars, {}, c, row)

PutRes(d, y, S, r, row) ==
    /\ y \in Tables /\ y.cars = d.cars /\ y.recs = d.recs
    /\ Puts(d.resv, y.resv, S, r, row)

PutRec(d, y, x, row) ==
    /\ y \in Tables /\ y.cars = d.cars /\ y.resv = d.resv
    /\ Puts(d.recs, y.recs, {}, x, row)

LEMMA TablesPut ==
    ASSUME NEW d \in Tables, NEW g, NEW k, NEW v, NEW y, NEW S
    PROVE  /\ k \in CarIds /\ v \in CarRow /\ g = With(d.cars, k, v)
              /\ y = [cars |-> g, resv |-> d.resv, recs |-> d.recs] => PutCar(d, y, k, v)
           /\ k \in ResIds /\ v \in ResRow /\ g = With(Without(d.resv, S), k, v)
              /\ y = [cars |-> d.cars, resv |-> g, recs |-> d.recs] => PutRes(d, y, S, k, v)
           /\ k \in RecIds /\ v \in RecRow /\ g = With(d.recs, k, v)
              /\ y = [cars |-> d.cars, resv |-> d.resv, recs |-> g] => PutRec(d, y, k, v)
<1>1. /\ d.cars \in Table(CarIds, CarRow) /\ d.resv \in Table(ResIds, ResRow)
      /\ d.recs \in Table(RecIds, RecRow)
    BY TablesHas
<1>2. ASSUME k \in CarIds, v \in CarRow, g = With(d.cars, k, v),
             y = [cars |-> g, resv |-> d.resv, recs |-> d.recs]
      PROVE  PutCar(d, y, k, v)
  <2>1. g \in Table(CarIds, CarRow)
      BY <1>1, <1>2, WithIn
  <2>2. Puts(d.cars, g, {}, k, v)
      BY <1>2 DEF Puts, With
  <2>3. y.cars = g /\ y.resv = d.resv /\ y.recs = d.recs
      BY <1>2, Zenon
  <2>4. y \in Tables
      BY <1>1, <1>2, <2>1 DEF Tables
  <2> QED BY <2>2, <2>3, <2>4, Zenon DEF PutCar
<1>3. ASSUME k \in ResIds, v \in ResRow, g = With(Without(d.resv, S), k, v),
             y = [cars |-> d.cars, resv |-> g, recs |-> d.recs]
      PROVE  PutRes(d, y, S, k, v)
  <2>1. Without(d.resv, S) \in Table(ResIds, ResRow)
      BY <1>1, WithoutIn
  <2>2. g \in Table(ResIds, ResRow)
      BY <1>3, <2>1, WithIn
  <2>3. Puts(d.resv, g, S, k, v)
      BY <1>3 DEF Puts, With, Without
  <2>4. y.cars = d.cars /\ y.resv = g /\ y.recs = d.recs
      BY <1>3, Zenon
  <2>5. y \in Tables
      BY <1>1, <1>3, <2>2 DEF Tables
  <2> QED BY <2>3, <2>4, <2>5, Zenon DEF PutRes
<1>4. ASSUME k \in RecIds, v \in RecRow, g = With(d.recs, k, v),
             y = [cars |-> d.cars, resv |-> d.resv, recs |-> g]
      PROVE  PutRec(d, y, k, v)
  <2>1. g \in Table(RecIds, RecRow)
      BY <1>1, <1>4, WithIn
  <2>2. Puts(d.recs, g, {}, k, v)
      BY <1>4 DEF Puts, With
  <2>3. y.cars = d.cars /\ y.resv = d.resv /\ y.recs = g
      BY <1>4, Zenon
  <2>4. y \in Tables
      BY <1>1, <1>4, <2>1 DEF Tables
  <2> QED BY <2>2, <2>3, <2>4, Zenon DEF PutRec
<1> QED BY <1>2, <1>3, <1>4, Zenon

\* The rows that change in place.
LEMMA CarsChange ==
    ASSUME NEW d \in Tables, NEW k \in DOMAIN d.cars, NEW v, NEW g, g = [d.cars EXCEPT ![k] = v]
    PROVE  g = With(d.cars, k, v)
<1>1. d.cars \in [DOMAIN d.cars -> CarRow]
    BY TablesHas, TableHas
<1> QED BY <1>1 DEF With

LEMMA ResvChange ==
    ASSUME NEW d \in Tables, NEW k \in DOMAIN d.resv, NEW v, NEW g, g = [d.resv EXCEPT ![k] = v]
    PROVE  g = With(Without(d.resv, {}), k, v)
<1>1. d.resv \in [DOMAIN d.resv -> ResRow]
    BY TablesHas, TableHas
<1> QED BY <1>1 DEF With, Without

LEMMA RecsChange ==
    ASSUME NEW d \in Tables, NEW k \in DOMAIN d.recs, NEW v, NEW g, g = [d.recs EXCEPT ![k] = v]
    PROVE  g = With(d.recs, k, v)
<1>1. d.recs \in [DOMAIN d.recs -> RecRow]
    BY TablesHas, TableHas
<1> QED BY <1>1 DEF With

\* One entry of the log.
Says(e, table, op, id, row) ==
    e \in Entries /\ e.table = table /\ e.op = op /\ e.id = id /\ e.row = row

LEMMA EntryIs ==
    ASSUME NEW op \in Ops, NEW id, NEW row
    PROVE  /\ id \in CarIds /\ row \in CarRow =>
                 Says(Entry("car", op, id, row), "car", op, id, row)
           /\ id \in ResIds /\ row \in ResRow =>
                 Says(Entry("reservation", op, id, row), "reservation", op, id, row)
           /\ id \in RecIds /\ row \in RecRow =>
                 Says(Entry("recurrence", op, id, row), "recurrence", op, id, row)
  BY DEF Says, Entry, Entries, CarEntry, ResEntry, RecEntry

-----------------------------------------------------------------------------
(* A write keeps the invariant *)

\* What the entries of a transaction that leads from db to d owe to each other.
Writes(es, d, u) ==
    /\ used \subseteq u
    /\ DOMAIN d.cars \cup DOMAIN d.resv \cup DOMAIN d.recs \subseteq u
    /\ IsFiniteSet(DOMAIN d.cars) /\ IsFiniteSet(DOMAIN d.resv) /\ IsFiniteSet(DOMAIN d.recs)
    /\ References(d)
    /\ \A c \in DOMAIN d.cars \ DOMAIN db.cars : c \notin used
    /\ \A r \in DOMAIN d.resv : IF r \in DOMAIN db.resv THEN d.resv[r].car = db.resv[r].car
                                ELSE r \notin used
    /\ \A x \in DOMAIN d.recs : IF x \in DOMAIN db.recs THEN d.recs[x].car = db.recs[x].car
                                ELSE x \notin used
    /\ \A i \in 1 .. Len(es) :
          /\ es[i].id \in u /\ (es[i].table # "car" => es[i].row.car \in u)
          /\ \A c \in CarIds :
                /\ OfCar(es[i], c) => c \in DOMAIN db.cars \/ c \notin used
                /\ Upserts(es[i], c) => c \in DOMAIN d.cars
                /\ Removes(es[i], c) => /\ c \notin DOMAIN d.cars
                                        /\ \A j \in i + 1 .. Len(es) : ~OfCar(es[j], c)
          /\ es[i].table = "reservation" =>
                \/ es[i].id \in DOMAIN db.resv /\ es[i].row.car = db.resv[es[i].id].car
                \/ /\ es[i].id \in DOMAIN d.resv \ DOMAIN db.resv
                   /\ es[i].row.car = d.resv[es[i].id].car
          /\ es[i].table = "recurrence" =>
                \/ es[i].id \in DOMAIN db.recs /\ es[i].row.car = db.recs[es[i].id].car
                \/ /\ es[i].id \in DOMAIN d.recs \ DOMAIN db.recs
                   /\ es[i].row.car = d.recs[es[i].id].car
    /\ \A c \in DOMAIN db.cars \ DOMAIN d.cars : \E i \in 1 .. Len(es) : Removes(es[i], c)

LEMMA WriteKeeps ==
    ASSUME IndexInv, NEW es \in Seq(Entries), NEW d \in Tables, NEW u, Writes(es, d, u),
           log' = log \o es, db' = d, used' = u, UNCHANGED <<now, pod>>
    PROVE  IndexInv'
<1> DEFINE L == Len(log)
<1>1. /\ log \in Seq(Entries) /\ L \in Nat /\ Len(es) \in Nat
      /\ now \in 0 .. MaxTime
      /\ pod \in [phase : Phases, model : Models, view : Tables,
                  next : [view : Tables, model : Models, read : Nat]]
      /\ pod.next.read <= L /\ pod.next.read \in Nat
      /\ pod.model \in Models /\ pod.next.model \in Models /\ db \in Tables
    BY DEF IndexInv, Typed
<1> PICK w : w = log'
    OBVIOUS
<1>2. w = log \o es
    OBVIOUS
<1>3. /\ w \in Seq(Entries) /\ Len(w) = L + Len(es)
      /\ \A i \in 1 .. L : i \in 1 .. Len(w) /\ w[i] = log[i]
      /\ \A i \in 1 .. Len(es) : L + i \in 1 .. Len(w) /\ w[L + i] = es[i]
      /\ \A i \in 1 .. Len(w) : i \in 1 .. L \/ \E j \in 1 .. Len(es) : i = L + j
  <2>1. w \in Seq(Entries) /\ Joined(w, log, es)
      BY <1>1, <1>2, Appended
  <2> QED BY <2>1 DEF Joined
<1>4. /\ Given /\ LifeOfCar /\ Owners /\ Orphans /\ References(db)
      /\ Agree(pod.model) /\ Agree(pod.next.model)
      /\ \A c \in CarIds \ DOMAIN pod.next.model.cars : Unowned(pod.next.model, c)
    BY DEF IndexInv
<1> HIDE DEF L
<1>5. Typed'
    BY <1>1, <1>3 DEF Typed, L
<1>6. Finite' /\ References(db)'
    BY DEF Writes, Finite, References
<1>7. Given'
  <2>1. \A i \in 1 .. Len(w) :
           w[i].id \in u /\ (w[i].table # "car" => w[i].row.car \in u)
    <3> TAKE i \in 1 .. Len(w)
    <3>1. CASE i \in 1 .. L
        BY <1>3, <1>4, <3>1 DEF Given, Writes, L
    <3>2. CASE i \notin 1 .. L
      <4>1. PICK j \in 1 .. Len(es) : i = L + j
          BY <1>3, <3>2
      <4> QED BY <1>3, <4>1 DEF Writes
    <3> QED BY <3>1, <3>2
  <2> QED BY <1>4, <2>1 DEF Given, Writes
<1>8. LifeOfCar'
  <2>1. ASSUME NEW i \in 1 .. Len(w), NEW c \in CarIds, Removes(w[i], c)
        PROVE  /\ c \notin DOMAIN d.cars
               /\ \A j \in i + 1 .. Len(w) : ~OfCar(w[j], c)
    <3>1. CASE i \in 1 .. L
      <4>1. /\ Removes(log[i], c) /\ c \notin DOMAIN db.cars /\ c \in used
            /\ \A j \in i + 1 .. L : ~OfCar(log[j], c)
        <5>1. w[i] = log[i] /\ i \in 1 .. Len(log)
            BY <1>3, <3>1 DEF L
        <5>2. Removes(log[i], c)
            BY <2>1, <5>1
        <5>3. c \notin DOMAIN db.cars /\ \A j \in i + 1 .. L : ~OfCar(log[j], c)
            BY <1>4, <5>1, <5>2 DEF LifeOfCar, L
        <5>4. log[i].id = c /\ log[i].id \in used
            BY <1>4, <5>1, <5>2 DEF Given, Removes, OfCar
        <5> QED BY <5>2, <5>3, <5>4
      <4>2. ASSUME NEW j \in i + 1 .. Len(w) PROVE ~OfCar(w[j], c)
        <5>1. CASE j \in 1 .. L
            BY <1>1, <1>3, <3>1, <4>1, <5>1
        <5>2. CASE j \notin 1 .. L
          <6>1. j \in 1 .. Len(w)
              BY <1>1, <1>3, <3>1
          <6>2. PICK k \in 1 .. Len(es) : j = L + k
              BY <1>3, <5>2, <6>1
          <6> QED BY <1>3, <4>1, <6>2 DEF Writes
        <5> QED BY <5>1, <5>2
      <4> QED BY <4>1, <4>2 DEF Writes
    <3>2. CASE i \notin 1 .. L
      <4>1. PICK k \in 1 .. Len(es) : i = L + k
          BY <1>3, <3>2
      <4>2. /\ c \notin DOMAIN d.cars
            /\ \A j \in k + 1 .. Len(es) : ~OfCar(es[j], c)
          BY <1>3, <2>1, <4>1 DEF Writes
      <4>3. ASSUME NEW j \in i + 1 .. Len(w) PROVE ~OfCar(w[j], c)
        <5>1. j \in 1 .. Len(w) /\ j \notin 1 .. L /\ j > L + k
            BY <1>1, <1>3, <4>1
        <5>2. PICK h \in 1 .. Len(es) : j = L + h
            BY <1>3, <5>1
        <5>3. h \in k + 1 .. Len(es)
            BY <1>1, <4>1, <5>1, <5>2
        <5> QED BY <1>3, <4>2, <5>2, <5>3
      <4> QED BY <4>2, <4>3
    <3> QED BY <3>1, <3>2
  <2>2. ASSUME NEW i \in 1 .. Len(w), NEW c \in CarIds, Upserts(w[i], c), c \notin DOMAIN d.cars
        PROVE  \E j \in i + 1 .. Len(w) : Removes(w[j], c)
    <3>1. i \in 1 .. L
      <4>1. SUFFICES ASSUME i \notin 1 .. L PROVE FALSE
          OBVIOUS
      <4>2. PICK k \in 1 .. Len(es) : i = L + k
          BY <1>3, <4>1
      <4> QED BY <1>3, <2>2, <4>2 DEF Writes
    <3>2. CASE c \in DOMAIN db.cars
      <4>1. PICK k \in 1 .. Len(es) : Removes(es[k], c)
          BY <2>2, <3>2 DEF Writes
      <4>2. L + k \in i + 1 .. Len(w) /\ w[L + k] = es[k]
          BY <1>1, <1>3, <3>1
      <4> QED BY <4>1, <4>2
    <3>3. CASE c \notin DOMAIN db.cars
      <4>1. PICK j \in i + 1 .. L : Removes(log[j], c)
          BY <1>3, <1>4, <2>2, <3>1, <3>3 DEF LifeOfCar, L
      <4>2. j \in i + 1 .. Len(w) /\ w[j] = log[j]
          BY <1>1, <1>3, <3>1, <4>1
      <4> QED BY <4>1, <4>2
    <3> QED BY <3>2, <3>3
  <2> QED BY <2>1, <2>2 DEF LifeOfCar
<1>9. Owners'
  <2>1. PICK o, q : Owned(o, q)
      BY <1>4 DEF Owners
  <2> DEFINE o2 == [r \in ResIds |-> IF r \in DOMAIN d.resv THEN d.resv[r].car ELSE o[r]]
             q2 == [x \in RecIds |-> IF x \in DOMAIN d.recs THEN d.recs[x].car ELSE q[x]]
  <2>2. /\ \A r \in DOMAIN d.resv : r \in ResIds /\ d.resv[r].car \in CarIds
        /\ \A x \in DOMAIN d.recs : x \in RecIds /\ d.recs[x].car \in CarIds
        /\ \A r \in DOMAIN db.resv : r \in ResIds
        /\ \A x \in DOMAIN db.recs : x \in RecIds
      BY <1>1, TablesHas DEF ResRow, RecRow
  <2>4. /\ \A r \in ResIds : r \in used => o2[r] = o[r]
        /\ \A r \in DOMAIN d.resv : d.resv[r].car = o2[r]
        /\ \A r \in DOMAIN db.resv : db.resv[r].car = o2[r]
      BY <1>4, <2>1, <2>2 DEF Writes, Owned, Given
  <2>5. /\ \A x \in RecIds : x \in used => q2[x] = q[x]
        /\ \A x \in DOMAIN d.recs : d.recs[x].car = q2[x]
        /\ \A x \in DOMAIN db.recs : db.recs[x].car = q2[x]
      BY <1>4, <2>1, <2>2 DEF Writes, Owned, Given
  <2> HIDE DEF o2, q2
  <2>6. \A i \in 1 .. Len(w) : /\ w[i].table = "reservation" => w[i].row.car = o2[w[i].id]
                               /\ w[i].table = "recurrence" => w[i].row.car = q2[w[i].id]
    <3> TAKE i \in 1 .. Len(w)
    <3>1. CASE i \in 1 .. L
      <4>1. /\ w[i] = log[i] /\ log[i].id \in used /\ log[i] \in Entries
            /\ log[i].table = "reservation" => log[i].row.car = o[log[i].id]
            /\ log[i].table = "recurrence" => log[i].row.car = q[log[i].id]
          BY <1>1, <1>3, <1>4, <2>1, <3>1 DEF Owned, Given, L
      <4>2. /\ log[i].table = "reservation" => log[i].id \in ResIds
            /\ log[i].table = "recurrence" => log[i].id \in RecIds
          BY <4>1, EntryHas
      <4> QED BY <2>4, <2>5, <4>1, <4>2
    <3>2. CASE i \notin 1 .. L
      <4>1. PICK j \in 1 .. Len(es) : i = L + j
          BY <1>3, <3>2
      <4>2. w[i] = es[j]
          BY <1>3, <4>1
      <4>3. es[j].table = "reservation" => es[j].row.car = o2[es[j].id]
        <5>1. es[j].table = "reservation" =>
                 \/ es[j].id \in DOMAIN db.resv /\ es[j].row.car = db.resv[es[j].id].car
                 \/ es[j].id \in DOMAIN d.resv /\ es[j].row.car = d.resv[es[j].id].car
            BY <4>1 DEF Writes
        <5> QED BY <2>4, <5>1
      <4>4. es[j].table = "recurrence" => es[j].row.car = q2[es[j].id]
        <5>1. es[j].table = "recurrence" =>
                 \/ es[j].id \in DOMAIN db.recs /\ es[j].row.car = db.recs[es[j].id].car
                 \/ es[j].id \in DOMAIN d.recs /\ es[j].row.car = d.recs[es[j].id].car
            BY <4>1 DEF Writes
        <5> QED BY <2>5, <5>1
      <4> QED BY <4>2, <4>3, <4>4
    <3> QED BY <3>1, <3>2
  <2>7. \A m \in {pod.model, pod.next.model} :
           /\ \A r \in DOMAIN m.reservationCar : m.reservationCar[r] = o2[r]
           /\ \A x \in DOMAIN m.recurrenceCar : m.recurrenceCar[x] = q2[x]
    <3> TAKE m \in {pod.model, pod.next.model}
    <3>1. /\ \A r \in DOMAIN m.reservationCar : r \in ResIds /\ r \in used
          /\ \A x \in DOMAIN m.recurrenceCar : x \in RecIds /\ x \in used
        BY <1>1, <1>4, ModelHas DEF Given
    <3> QED BY <2>1, <2>4, <2>5, <3>1 DEF Owned
  <2>8. Owned(o2, q2)'
      BY <2>4, <2>5, <2>6, <2>7 DEF Owned
  <2> QED BY <2>8 DEF Owners
<1>10. Orphans'
  <2>1. \A c \in used \ DOMAIN db.cars : c \in u \ DOMAIN d.cars
      BY DEF Writes
  <2>2. ASSUME NEW c, pod.phase = "pulled", Ends(c, 0, pod.next.read)
        PROVE  Ends(c, 0, pod.next.read)'
    <3>1. \A i \in 0 + 1 .. pod.next.read : i \in 1 .. L /\ w[i] = log[i]
        BY <1>1, <1>3
    <3>2. \A i \in 0 + 1 .. pod.next.read : \A j \in i + 1 .. pod.next.read :
             j \in 0 + 1 .. pod.next.read
        BY <1>1
    <3> QED BY <2>2, <3>1, <3>2 DEF Ends
  <2> QED BY <1>4, <2>1, <2>2 DEF Orphans, Unowned
<1> QED BY <1>4, <1>5, <1>6, <1>7, <1>8, <1>9, <1>10
        DEF IndexInv, Agree, Cellular, Unique, Linked, Unowned

LEMMA PutFinite ==
    ASSUME NEW f, NEW g, NEW S, NEW k, NEW v, Puts(f, g, S, k, v), IsFiniteSet(DOMAIN f)
    PROVE  IsFiniteSet(DOMAIN g)
<1>1. IsFiniteSet(DOMAIN f \ S)
    BY FS_Difference
<1>2. IsFiniteSet((DOMAIN f \ S) \cup {k})
    BY <1>1, FS_AddElement
<1> QED BY <1>2 DEF Puts

LEMMA WriteCar ==
    ASSUME IndexInv, NEW d, NEW c \in CarIds, NEW row \in CarRow, PutCar(db, d, c, row),
           c \notin used \/ c \in DOMAIN db.cars, NEW op, op # "DELETE",
           NEW e, Says(e, "car", op, c, row)
    PROVE  <<e>> \in Seq(Entries) /\ Writes(<<e>>, d, used \cup {c})
<1>1. /\ d.resv = db.resv /\ d.recs = db.recs
      /\ DOMAIN d.cars = DOMAIN db.cars \cup {c}
      /\ IsFiniteSet(DOMAIN d.cars)
  <2>1. /\ Puts(db.cars, d.cars, {}, c, row) /\ IsFiniteSet(DOMAIN db.cars)
        /\ d.resv = db.resv /\ d.recs = db.recs
      BY DEF PutCar, IndexInv, Finite
  <2>2. IsFiniteSet(DOMAIN d.cars)
      BY <2>1, PutFinite
  <2> QED BY <2>1, <2>2 DEF Puts
<1>2. e \in Entries /\ e.table = "car" /\ e.id = c /\ e.op = op /\ op # "DELETE"
    BY DEF Says
<1>3. "car" # "reservation" /\ "car" # "recurrence"
    OBVIOUS
<1>4. /\ Len(<<e>>) = 1 /\ <<e>> \in Seq(Entries)
      /\ \A i \in 1 .. Len(<<e>>) : <<e>>[i] = e
    BY <1>2
<1>5. References(d)
    BY <1>1 DEF IndexInv, References
<1>6. /\ DOMAIN d.cars \cup DOMAIN d.resv \cup DOMAIN d.recs \subseteq used \cup {c}
      /\ IsFiniteSet(DOMAIN d.resv) /\ IsFiniteSet(DOMAIN d.recs)
    BY <1>1 DEF IndexInv, Given, Finite
<1>7. \A x \in CarIds : /\ OfCar(e, x) => x \in DOMAIN db.cars \/ x \notin used
                        /\ Upserts(e, x) => x \in DOMAIN d.cars
                        /\ ~Removes(e, x)
    BY <1>1, <1>2 DEF OfCar, Upserts, Removes
<1>8. \A x \in DOMAIN d.cars \ DOMAIN db.cars : x \notin used
    BY <1>1 DEF IndexInv, Given
<1> QED BY <1>1, <1>2, <1>3, <1>4, <1>5, <1>6, <1>7, <1>8 DEF Writes

LEMMA WriteRec ==
    ASSUME IndexInv, NEW d, NEW r \in RecIds, NEW row \in RecRow, PutRec(db, d, r, row),
           NEW op,
           \/ op = "INSERT" /\ r \notin used /\ row.car \in DOMAIN db.cars
           \/ op = "UPDATE" /\ r \in DOMAIN db.recs /\ row.car = db.recs[r].car,
           NEW e, Says(e, "recurrence", op, r, row)
    PROVE  <<e>> \in Seq(Entries) /\ Writes(<<e>>, d, used \cup {r})
<1>1. /\ d.resv = db.resv /\ d.cars = db.cars
      /\ DOMAIN d.recs = DOMAIN db.recs \cup {r}
      /\ IsFiniteSet(DOMAIN d.recs)
      /\ d.recs[r] = row
      /\ \A x \in DOMAIN db.recs : x # r => d.recs[x] = db.recs[x]
  <2>1. /\ Puts(db.recs, d.recs, {}, r, row) /\ IsFiniteSet(DOMAIN db.recs)
        /\ d.resv = db.resv /\ d.cars = db.cars
      BY DEF PutRec, IndexInv, Finite
  <2>2. IsFiniteSet(DOMAIN d.recs)
      BY <2>1, PutFinite
  <2> QED BY <2>1, <2>2 DEF Puts
<1>2. e \in Entries /\ e.table = "recurrence" /\ e.id = r /\ e.row = row
    BY DEF Says
<1>3. "recurrence" # "reservation" /\ "car" # "recurrence"
    OBVIOUS
<1>4. /\ Len(<<e>>) = 1 /\ <<e>> \in Seq(Entries)
      /\ \A i \in 1 .. Len(<<e>>) : <<e>>[i] = e
    BY <1>2
<1>5. References(d) /\ row.car \in DOMAIN db.cars
    BY <1>1 DEF IndexInv, References
<1>6. /\ DOMAIN d.cars \cup DOMAIN d.resv \cup DOMAIN d.recs \subseteq used \cup {r}
      /\ IsFiniteSet(DOMAIN d.resv) /\ IsFiniteSet(DOMAIN d.cars)
      /\ row.car \in used
    BY <1>1, <1>5 DEF IndexInv, Given, Finite
<1>7. \A x \in CarIds : ~OfCar(e, x) /\ ~Upserts(e, x) /\ ~Removes(e, x)
    BY <1>2, <1>3 DEF OfCar, Upserts, Removes
<1>8. \A x \in DOMAIN d.recs : IF x \in DOMAIN db.recs THEN d.recs[x].car = db.recs[x].car
                               ELSE x \notin used
    BY <1>1 DEF IndexInv, Given
<1>9. \/ r \in DOMAIN db.recs /\ row.car = db.recs[r].car
      \/ r \in DOMAIN d.recs \ DOMAIN db.recs /\ row.car = d.recs[r].car
    BY <1>1 DEF IndexInv, Given
<1> QED BY <1>1, <1>2, <1>3, <1>4, <1>5, <1>6, <1>7, <1>8, <1>9 DEF Writes

\* The entries of a transaction that deletes the rows of S from the table f.
Deletes(gone, table, f, S) ==
    /\ gone \in Seq(Entries)
    /\ \A i \in 1 .. Len(gone) : \E x \in S : Says(gone[i], table, "DELETE", x, f[x])
    /\ \A x \in S : \E i \in 1 .. Len(gone) : Says(gone[i], table, "DELETE", x, f[x])

LEMMA WriteRes ==
    ASSUME IndexInv, NEW d, NEW S \in SUBSET DOMAIN db.resv, NEW r \in ResIds, NEW row \in ResRow,
           PutRes(db, d, S, r, row),
           NEW op,
           \/ op = "INSERT" /\ r \notin used /\ row.car \in DOMAIN db.cars
           \/ op = "UPDATE" /\ r \in DOMAIN db.resv /\ row.car = db.resv[r].car,
           NEW e, Says(e, "reservation", op, r, row),
           NEW gone, Deletes(gone, "reservation", db.resv, S), NEW es, es = Append(gone, e)
    PROVE  es \in Seq(Entries) /\ Writes(es, d, used \cup {r})
<1>1. /\ d.recs = db.recs /\ d.cars = db.cars
      /\ DOMAIN d.resv = (DOMAIN db.resv \ S) \cup {r}
      /\ IsFiniteSet(DOMAIN d.resv)
      /\ d.resv[r] = row
      /\ \A x \in DOMAIN db.resv \ S : x # r => d.resv[x] = db.resv[x]
  <2>1. /\ Puts(db.resv, d.resv, S, r, row) /\ IsFiniteSet(DOMAIN db.resv)
        /\ d.recs = db.recs /\ d.cars = db.cars
      BY DEF PutRes, IndexInv, Finite
  <2>2. IsFiniteSet(DOMAIN d.resv)
      BY <2>1, PutFinite
  <2> QED BY <2>1, <2>2 DEF Puts
<1>2. e \in Entries /\ e.table = "reservation" /\ e.id = r /\ e.row = row
    BY DEF Says
<1>3. "recurrence" # "reservation" /\ "car" # "reservation"
    OBVIOUS
<1>4. es \in Seq(Entries) /\ \A i \in 1 .. Len(es) : es[i] = e \/ \E j \in 1 .. Len(gone) : es[i] = gone[j]
  <2>1. gone \in Seq(Entries)
      BY DEF Deletes
  <2> HIDE DEF Deletes
  <2>2. /\ Len(es) = Len(gone) + 1 /\ Len(gone) \in Nat /\ es \in Seq(Entries)
        /\ \A i \in 1 .. Len(es) : es[i] = IF i <= Len(gone) THEN gone[i] ELSE e
      BY <1>2, <2>1
  <2>3. ASSUME NEW i \in 1 .. Len(es), i <= Len(gone) PROVE i \in 1 .. Len(gone)
      BY <2>2, <2>3
  <2> QED BY <2>2, <2>3
<1>5. References(d) /\ row.car \in DOMAIN db.cars
    BY <1>1 DEF IndexInv, References
<1>6. /\ DOMAIN d.cars \cup DOMAIN d.resv \cup DOMAIN d.recs \subseteq used \cup {r}
      /\ IsFiniteSet(DOMAIN d.recs) /\ IsFiniteSet(DOMAIN d.cars)
      /\ row.car \in used
      /\ \A x \in S : x \in used /\ db.resv[x].car \in used
    BY <1>1, <1>5 DEF IndexInv, Given, Finite, References
<1>7. \A x \in DOMAIN d.resv : IF x \in DOMAIN db.resv THEN d.resv[x].car = db.resv[x].car
                               ELSE x \notin used
    BY <1>1 DEF IndexInv, Given
<1>8. \/ r \in DOMAIN db.resv /\ row.car = db.resv[r].car
      \/ r \in DOMAIN d.resv \ DOMAIN db.resv /\ row.car = d.resv[r].car
    BY <1>1 DEF IndexInv, Given
<1>9. \A i \in 1 .. Len(es) :
         /\ es[i].table = "reservation"
         /\ es[i].id \in used \cup {r} /\ es[i].row.car \in used
         /\ \/ es[i].id \in DOMAIN db.resv /\ es[i].row.car = db.resv[es[i].id].car
            \/ es[i].id \in DOMAIN d.resv \ DOMAIN db.resv /\ es[i].row.car = d.resv[es[i].id].car
  <2> TAKE i \in 1 .. Len(es)
  <2>1. CASE es[i] = e
      BY <1>2, <1>6, <1>8, <2>1
  <2>2. CASE es[i] # e
    <3>1. PICK j \in 1 .. Len(gone) : es[i] = gone[j]
        BY <1>4, <2>2
    <3>2. PICK x \in S : Says(gone[j], "reservation", "DELETE", x, db.resv[x])
        BY DEF Deletes
    <3>3. es[i].table = "reservation" /\ es[i].id = x /\ es[i].row = db.resv[x]
        BY <3>1, <3>2 DEF Says
    <3> QED BY <1>6, <3>3
  <2> QED BY <2>1, <2>2
<1>10. \A i \in 1 .. Len(es) : \A c \in CarIds :
          ~OfCar(es[i], c) /\ ~Upserts(es[i], c) /\ ~Removes(es[i], c)
    BY <1>3, <1>9 DEF OfCar, Upserts, Removes
<1> QED BY <1>1, <1>3, <1>4, <1>5, <1>6, <1>7, <1>9, <1>10 DEF Writes

\* A TRUNCATE says nothing in the log.
LEMMA WriteNothing ==
    ASSUME IndexInv, NEW d, d.cars = db.cars, d.resv = Nothing, d.recs \in {db.recs, Nothing}
    PROVE  Writes(<<>>, d, used)
<1>1. DOMAIN Nothing = {} /\ IsFiniteSet({})
    BY FS_EmptySet DEF Nothing
<1>2. DOMAIN d.resv = {} /\ (d.recs = db.recs \/ DOMAIN d.recs = {})
    BY <1>1
<1>3. Len(<<>>) = 0
    OBVIOUS
<1> QED BY <1>1, <1>2, <1>3 DEF Writes, IndexInv, References, Given, Finite

-----------------------------------------------------------------------------
(* What each action writes *)

LEMMA ListCarIs ==
    ASSUME db \in Tables, NEW c \in CarIds, NEW cell \in Cells, ListCar(c, cell),
           NEW row, row = [cell |-> cell, listed |-> TRUE]
    PROVE  /\ row \in CarRow /\ c \notin used /\ used' = used \cup {c}
           /\ \E d \in Tables, e \in Entries :
                 /\ db' = d /\ PutCar(db, d, c, row)
                 /\ Says(e, "car", "INSERT", c, row) /\ log' = log \o <<e>>
           /\ UNCHANGED <<now, erased, pod>>
<1> PICK d : d = [db EXCEPT !.cars = With(@, c, row)]
    OBVIOUS
<1> PICK e : e = Entry("car", "INSERT", c, row)
    OBVIOUS
<1>1. /\ db' = d /\ c \notin used /\ used' = used \cup {c} /\ log' = log \o <<e>>
      /\ UNCHANGED <<now, erased, pod>>
    BY Zenon DEF ListCar, Logged
<1>2. row \in CarRow
    BY DEF CarRow
<1>3. d = [cars |-> With(db.cars, c, row), resv |-> db.resv, recs |-> db.recs]
    BY CarsSet, Zenon
<1>4. PutCar(db, d, c, row)
    BY <1>2, <1>3, TablesPut, Zenon
<1>5. Says(e, "car", "INSERT", c, row)
    BY <1>2, EntryIs DEF Ops
<1>6. d \in Tables /\ e \in Entries
    BY <1>4, <1>5 DEF PutCar, Says
<1> QED BY <1>1, <1>2, <1>4, <1>5, <1>6, Zenon

LEMMA EditCarIs ==
    ASSUME db \in Tables, NEW c \in CarIds, NEW cell \in Cells, NEW b \in BOOLEAN,
           EditCar(c, cell, b), NEW row, row = [cell |-> cell, listed |-> b]
    PROVE  /\ row \in CarRow /\ c \in DOMAIN db.cars
           /\ \E d \in Tables, e \in Entries :
                 /\ db' = d /\ PutCar(db, d, c, row)
                 /\ Says(e, "car", "UPDATE", c, row) /\ log' = log \o <<e>>
           /\ UNCHANGED <<now, used, erased, pod>>
<1> PICK g : g = [db.cars EXCEPT ![c] = row]
    OBVIOUS
<1> PICK d : d = [db EXCEPT !.cars = g]
    OBVIOUS
<1> PICK e : e = Entry("car", "UPDATE", c, row)
    OBVIOUS
<1>1. /\ db' = d /\ c \in DOMAIN db.cars /\ log' = log \o <<e>>
      /\ UNCHANGED <<now, used, erased, pod>>
    BY Zenon DEF EditCar, Logged
<1>2. row \in CarRow
    BY DEF CarRow
<1>3. d = [cars |-> g, resv |-> db.resv, recs |-> db.recs]
    BY CarsSet, Zenon
<1>4. g = With(db.cars, c, row)
    BY <1>1, CarsChange, Zenon
<1>5. PutCar(db, d, c, row)
    BY <1>2, <1>3, <1>4, TablesPut, Zenon
<1>6. Says(e, "car", "UPDATE", c, row)
    BY <1>2, EntryIs DEF Ops
<1>7. d \in Tables /\ e \in Entries
    BY <1>5, <1>6 DEF PutCar, Says
<1> QED BY <1>1, <1>2, <1>5, <1>6, <1>7, Zenon

\* The row of a reservation and of a schedule that changes one field.
LEMMA ResChange ==
    ASSUME NEW x \in ResRow, NEW y,
           \/ y = [x EXCEPT !.expires = Null]
           \/ y = [x EXCEPT !.confirmed = FALSE]
    PROVE  y \in ResRow /\ y.car = x.car
<1>1. CASE y = [x EXCEPT !.expires = Null]
    BY <1>1 DEF ResRow, Null
<1>2. CASE y = [x EXCEPT !.confirmed = FALSE]
    BY <1>2 DEF ResRow
<1> QED BY <1>1, <1>2, Zenon

LEMMA RecChange ==
    ASSUME NEW x \in RecRow, NEW y, y = [x EXCEPT !.active = FALSE]
    PROVE  y \in RecRow /\ y.car = x.car
  BY DEF RecRow

LEMMA UpdateIs ==
    ASSUME db \in Tables, NEW r \in DOMAIN db.resv, NEW row \in ResRow, UpdateReservation(r, row)
    PROVE  /\ \E d \in Tables, e \in Entries :
                 /\ db' = d /\ PutRes(db, d, {}, r, row)
                 /\ Says(e, "reservation", "UPDATE", r, row) /\ log' = log \o <<e>>
           /\ UNCHANGED <<now, used, erased, pod>>
<1> PICK g : g = [db.resv EXCEPT ![r] = row]
    OBVIOUS
<1> PICK d : d = [db EXCEPT !.resv = g]
    OBVIOUS
<1> PICK e : e = Entry("reservation", "UPDATE", r, row)
    OBVIOUS
<1>0. r \in ResIds
    BY TablesHas
<1>1. /\ db' = d /\ log' = log \o <<e>>
      /\ UNCHANGED <<now, used, erased, pod>>
    BY Zenon DEF UpdateReservation, Logged
<1>3. d = [cars |-> db.cars, resv |-> g, recs |-> db.recs]
    BY ResvSet, Zenon
<1>4. g = With(Without(db.resv, {}), r, row)
    BY ResvChange, Zenon
<1>5. PutRes(db, d, {}, r, row)
    BY <1>0, <1>3, <1>4, TablesPut, Zenon
<1>6. Says(e, "reservation", "UPDATE", r, row)
    BY <1>0, EntryIs DEF Ops
<1>7. d \in Tables /\ e \in Entries
    BY <1>5, <1>6 DEF PutRes, Says
<1> QED BY <1>1, <1>5, <1>6, <1>7, Zenon

LEMMA CreateScheduleIs ==
    ASSUME db \in Tables, NEW x \in RecIds, NEW c \in CarIds, NEW w \in Windows,
           CreateSchedule(x, c, w)
    PROVE  /\ x \notin used /\ used' = used \cup {x}
           /\ \E row \in RecRow, d \in Tables, e \in Entries :
                 /\ row.car = c /\ c \in DOMAIN db.cars
                 /\ db' = d /\ PutRec(db, d, x, row)
                 /\ Says(e, "recurrence", "INSERT", x, row) /\ log' = log \o <<e>>
           /\ UNCHANGED <<now, erased, pod>>
<1> PICK row : row = [car |-> c, start |-> w[1], end |-> w[2], active |-> TRUE]
    OBVIOUS
<1> PICK d : d = [db EXCEPT !.recs = With(@, x, row)]
    OBVIOUS
<1> PICK e : e = Entry("recurrence", "INSERT", x, row)
    OBVIOUS
<1>1. /\ db' = d /\ x \notin used /\ used' = used \cup {x} /\ log' = log \o <<e>>
      /\ c \in DOMAIN db.cars
      /\ UNCHANGED <<now, erased, pod>>
    BY Zenon DEF CreateSchedule, Logged
<1>2. row \in RecRow /\ row.car = c
    BY WindowAssumption DEF RecRow
<1>3. d = [cars |-> db.cars, resv |-> db.resv, recs |-> With(db.recs, x, row)]
    BY RecsSet, Zenon
<1>4. PutRec(db, d, x, row)
    BY <1>2, <1>3, TablesPut, Zenon
<1>5. Says(e, "recurrence", "INSERT", x, row)
    BY <1>2, EntryIs DEF Ops
<1>6. d \in Tables /\ e \in Entries
    BY <1>4, <1>5 DEF PutRec, Says
<1> QED BY <1>1, <1>2, <1>4, <1>5, <1>6, Zenon

LEMMA DeactivateScheduleIs ==
    ASSUME db \in Tables, NEW x \in RecIds, DeactivateSchedule(x)
    PROVE  /\ x \in DOMAIN db.recs
           /\ \E row \in RecRow, d \in Tables, e \in Entries :
                 /\ row.car = db.recs[x].car
                 /\ db' = d /\ PutRec(db, d, x, row)
                 /\ Says(e, "recurrence", "UPDATE", x, row) /\ log' = log \o <<e>>
           /\ UNCHANGED <<now, used, erased, pod>>
<1> PICK row : row = [db.recs[x] EXCEPT !.active = FALSE]
    OBVIOUS
<1> PICK g : g = [db.recs EXCEPT ![x] = row]
    OBVIOUS
<1> PICK d : d = [db EXCEPT !.recs = g]
    OBVIOUS
<1> PICK e : e = Entry("recurrence", "UPDATE", x, row)
    OBVIOUS
<1>1. /\ db' = d /\ x \in DOMAIN db.recs /\ log' = log \o <<e>>
      /\ UNCHANGED <<now, used, erased, pod>>
    BY Zenon DEF DeactivateSchedule, Logged
<1>2. row \in RecRow /\ row.car = db.recs[x].car
  <2>1. db.recs[x] \in RecRow
      BY <1>1, TablesHas
  <2> QED BY <2>1, RecChange, Zenon
<1>3. d = [cars |-> db.cars, resv |-> db.resv, recs |-> g]
    BY RecsSet, Zenon
<1>4. g = With(db.recs, x, row)
    BY <1>1, RecsChange, Zenon
<1>5. PutRec(db, d, x, row)
    BY <1>2, <1>3, <1>4, TablesPut, Zenon
<1>6. Says(e, "recurrence", "UPDATE", x, row)
    BY <1>2, EntryIs DEF Ops
<1>7. d \in Tables /\ e \in Entries
    BY <1>5, <1>6 DEF PutRec, Says
<1> QED BY <1>1, <1>2, <1>5, <1>6, <1>7, Zenon

LEMMA EntriesFinite ==
    ASSUME NEW table, NEW f, NEW S, IsFiniteSet(S)
    PROVE  IsFiniteSet({Entry(table, "DELETE", x, f[x]) : x \in S})
<1> DEFINE G == {Entry(table, "DELETE", x, f[x]) : x \in S}
           g == [x \in S |-> Entry(table, "DELETE", x, f[x])]
<1>1. g \in Surjection(S, G)
    BY DEF Surjection
<1> QED BY <1>1, FS_Surjection

LEMMA ListDeletes ==
    ASSUME NEW table, NEW f, NEW S,
           \A x \in S : Says(Entry(table, "DELETE", x, f[x]), table, "DELETE", x, f[x]),
           NEW gone, Lists(gone, {Entry(table, "DELETE", x, f[x]) : x \in S})
    PROVE  Deletes(gone, table, f, S)
<1> PICK G : G = {Entry(table, "DELETE", x, f[x]) : x \in S}
    OBVIOUS
<1>1. G \subseteq Entries
    BY DEF Says
<1>2. gone \in Seq(Entries)
    BY <1>1 DEF Lists
<1>3. \A i \in 1 .. Len(gone) : \E x \in S : Says(gone[i], table, "DELETE", x, f[x])
  <2> TAKE i \in 1 .. Len(gone)
  <2>1. PICK x \in S : gone[i] = Entry(table, "DELETE", x, f[x])
      BY DEF Lists
  <2> QED BY <2>1
<1>4. \A x \in S : \E i \in 1 .. Len(gone) : Says(gone[i], table, "DELETE", x, f[x])
  <2> TAKE x \in S
  <2>1. PICK i \in 1 .. Len(gone) : gone[i] = Entry(table, "DELETE", x, f[x])
      BY DEF Lists
  <2> QED BY <2>1
<1> QED BY <1>2, <1>3, <1>4, Zenon DEF Deletes

LEMMA DeletesIs ==
    ASSUME NEW table, NEW f, NEW S, IsFiniteSet(S),
           \A x \in S : Says(Entry(table, "DELETE", x, f[x]), table, "DELETE", x, f[x]),
           NEW gone, gone = SetToSeq({Entry(table, "DELETE", x, f[x]) : x \in S})
    PROVE  Deletes(gone, table, f, S)
  BY EntriesFinite, SetToSeqHas, ListDeletes, Zenon

\* The entries of deleted rows are well formed.
LEMMA RowsSay ==
    ASSUME NEW d \in Tables
    PROVE  /\ \A x \in DOMAIN d.resv :
                 Says(Entry("reservation", "DELETE", x, d.resv[x]),
                      "reservation", "DELETE", x, d.resv[x])
           /\ \A x \in DOMAIN d.recs :
                 Says(Entry("recurrence", "DELETE", x, d.recs[x]),
                      "recurrence", "DELETE", x, d.recs[x])
           /\ \A c \in DOMAIN d.cars :
                 Says(Entry("car", "DELETE", c, d.cars[c]), "car", "DELETE", c, d.cars[c])
  BY TablesHas, EntryIs DEF Ops

LEMMA BookIs ==
    ASSUME db \in Tables, Finite, now \in Nat, NEW r \in ResIds, NEW c \in CarIds, NEW w \in Windows,
           NEW k \in Kinds, Book(r, c, w, k)
    PROVE  /\ r \notin used /\ used' = used \cup {r}
           /\ \E row \in ResRow, d \in Tables, e \in Entries, gone \in Seq(Entries) :
                 /\ row.car = c /\ c \in DOMAIN db.cars
                 /\ db' = d /\ PutRes(db, d, Lapsed(c), r, row)
                 /\ Says(e, "reservation", "INSERT", r, row)
                 /\ Deletes(gone, "reservation", db.resv, Lapsed(c))
                 /\ log' = log \o Append(gone, e)
           /\ UNCHANGED <<now, erased, pod>>
<1> PICK row : row = [car |-> c, start |-> w[1], end |-> w[2], confirmed |-> TRUE,
                      expires |-> IF k = "rental_hold" THEN now + HoldTTL ELSE Null]
    OBVIOUS
<1> PICK S : S = Lapsed(c)
    OBVIOUS
<1> PICK g : g = With(Without(db.resv, S), r, row)
    OBVIOUS
<1> PICK d : d = [db EXCEPT !.resv = g]
    OBVIOUS
<1> PICK e : e = Entry("reservation", "INSERT", r, row)
    OBVIOUS
<1> PICK gone : gone = SetToSeq({Entry("reservation", "DELETE", x, db.resv[x]) : x \in S})
    OBVIOUS
<1>1. /\ db' = d /\ r \notin used /\ used' = used \cup {r} /\ log' = log \o Append(gone, e)
      /\ c \in DOMAIN db.cars
      /\ UNCHANGED <<now, erased, pod>>
    BY Zenon DEF Book, Logged
<1>2. row \in ResRow /\ row.car = c
  <2>1. w[1] \in Nat /\ w[2] \in Nat /\ HoldTTL \in Nat
      BY WindowAssumption
  <2>2. (IF k = "rental_hold" THEN now + HoldTTL ELSE Null) \in Nat
      BY <2>1 DEF Null
  <2> QED BY <2>1, <2>2 DEF ResRow
<1>3. d = [cars |-> db.cars, resv |-> g, recs |-> db.recs]
    BY ResvSet, Zenon
<1>4. PutRes(db, d, S, r, row)
    BY <1>2, <1>3, TablesPut, Zenon
<1>5. Says(e, "reservation", "INSERT", r, row)
    BY <1>2, EntryIs DEF Ops
<1>6. d \in Tables /\ e \in Entries
    BY <1>4, <1>5 DEF PutRes, Says
<1>7. Deletes(gone, "reservation", db.resv, S)
  <2>1. S \subseteq DOMAIN db.resv
      BY DEF Lapsed
  <2>2. IsFiniteSet(S)
      BY <2>1, FS_Subset DEF Finite
  <2>3. \A x \in S : Says(Entry("reservation", "DELETE", x, db.resv[x]),
                          "reservation", "DELETE", x, db.resv[x])
      BY <2>1, RowsSay, Zenon
  <2> QED BY <2>2, <2>3, DeletesIs, Zenon
<1>8. gone \in Seq(Entries)
    BY <1>7 DEF Deletes
<1> QED BY <1>1, <1>2, <1>4, <1>5, <1>6, <1>7, <1>8, Zenon

LEMMA TruncateIs ==
    ASSUME db \in Tables, BenchTruncate \/ WipeTruncate
    PROVE  \E d \in Tables :
              /\ db' = d /\ d.cars = db.cars /\ d.resv = Nothing /\ d.recs \in {db.recs, Nothing}
<1> PICK a : a = [db EXCEPT !.resv = Nothing]
    OBVIOUS
<1> PICK d : d = db'
    OBVIOUS
<1>0. \A K, V : Nothing \in Table(K, V)
  <2>1. \A V : Nothing \in [{} -> V]
      BY DEF Nothing
  <2> QED BY <2>1 DEF Table
<1>1. a = [cars |-> db.cars, resv |-> Nothing, recs |-> db.recs]
    BY ResvSet, Zenon
<1>2. db.cars \in Table(CarIds, CarRow) /\ db.recs \in Table(RecIds, RecRow)
    BY TablesHas
<1>3. a \in Tables
    BY <1>0, <1>1, <1>2, Zenon DEF Tables
<1>4. CASE BenchTruncate
  <2>1. d = a
      BY <1>4, Zenon DEF BenchTruncate
  <2> QED BY <1>1, <1>3, <2>1, Zenon
<1>5. CASE WipeTruncate
  <2>1. d = [a EXCEPT !.recs = Nothing]
      BY <1>5, Zenon DEF WipeTruncate
  <2>2. d = [cars |-> a.cars, resv |-> a.resv, recs |-> Nothing]
      BY <1>3, <2>1, RecsSet, Zenon
  <2>3. a.cars = db.cars /\ a.resv = Nothing
      BY <1>1, Zenon
  <2>4. d.cars = db.cars /\ d.resv = Nothing /\ d.recs = Nothing
      BY <2>2, <2>3
  <2>5. d = [cars |-> db.cars, resv |-> Nothing, recs |-> Nothing]
      BY <2>2, <2>3
  <2>6. d \in Tables
    <3>1. Nothing \in Table(ResIds, ResRow) /\ Nothing \in Table(RecIds, RecRow)
        BY <1>0
    <3> HIDE DEF Nothing
    <3> QED BY <1>2, <2>5, <3>1 DEF Tables
  <2> QED BY <2>4, <2>6, Zenon
<1> QED BY <1>4, <1>5, Zenon

-----------------------------------------------------------------------------
(* The second statement of a wipe *)

\* The entries of the statement.
Wiped(es) ==
    /\ es \in Seq(Entries)
    /\ \A p \in 1 .. Len(es) :
          \/ \E c \in DOMAIN db.cars : Says(es[p], "car", "DELETE", c, db.cars[c])
          \/ \E x \in DOMAIN db.resv : Says(es[p], "reservation", "DELETE", x, db.resv[x])
          \/ \E x \in DOMAIN db.recs : Says(es[p], "recurrence", "DELETE", x, db.recs[x])
    /\ \A c \in DOMAIN db.cars :
          \E p \in 1 .. Len(es) : Says(es[p], "car", "DELETE", c, db.cars[c])
    /\ \A x \in DOMAIN db.resv :
          \E p \in 1 .. Len(es) : Says(es[p], "reservation", "DELETE", x, db.resv[x])
    /\ \A x \in DOMAIN db.recs :
          \E p \in 1 .. Len(es) : Says(es[p], "recurrence", "DELETE", x, db.recs[x])
    /\ \A p, r \in 1 .. Len(es) : p < r => \A c : ~(OfCar(es[p], c) /\ OfCar(es[r], c))

LEMMA WipedIs ==
    ASSUME NEW A, NEW B, NEW es, es = A \o B,
           Deletes(A, "car", db.cars, DOMAIN db.cars),
           \A i, j \in 1 .. Len(A) : A[i] = A[j] => i = j,
           \A i \in 1 .. Len(A) : \E c \in DOMAIN db.cars : A[i] = Entry("car", "DELETE", c, db.cars[c]),
           B \in Seq(Entries),
           \A i \in 1 .. Len(B) :
              \/ \E x \in DOMAIN db.resv : Says(B[i], "reservation", "DELETE", x, db.resv[x])
              \/ \E x \in DOMAIN db.recs : Says(B[i], "recurrence", "DELETE", x, db.recs[x]),
           \A x \in DOMAIN db.resv :
              \E i \in 1 .. Len(B) : Says(B[i], "reservation", "DELETE", x, db.resv[x]),
           \A x \in DOMAIN db.recs :
              \E i \in 1 .. Len(B) : Says(B[i], "recurrence", "DELETE", x, db.recs[x])
    PROVE  Wiped(es)
<1>1. es \in Seq(Entries) /\ Joined(es, A, B)
    BY Appended DEF Deletes
<1>2. /\ \A i \in 1 .. Len(A) : i \in 1 .. Len(es) /\ es[i] = A[i]
      /\ \A i \in 1 .. Len(B) : Len(A) + i \in 1 .. Len(es) /\ es[Len(A) + i] = B[i]
      /\ \A p \in 1 .. Len(es) : p \in 1 .. Len(A) \/ \E j \in 1 .. Len(B) : p = Len(A) + j
    BY <1>1, Zenon DEF Joined
<1>3. ASSUME NEW p \in 1 .. Len(es), p \notin 1 .. Len(A)
      PROVE  \/ \E x \in DOMAIN db.resv : Says(es[p], "reservation", "DELETE", x, db.resv[x])
             \/ \E x \in DOMAIN db.recs : Says(es[p], "recurrence", "DELETE", x, db.recs[x])
  <2>1. PICK j \in 1 .. Len(B) : p = Len(A) + j
      BY <1>2, <1>3
  <2>2. es[p] = B[j]
      BY <1>2, <2>1
  <2> QED BY <2>2
<1>4. ASSUME NEW p \in 1 .. Len(es), p \in 1 .. Len(A)
      PROVE  \E c \in DOMAIN db.cars : Says(es[p], "car", "DELETE", c, db.cars[c])
    BY <1>2, <1>4 DEF Deletes
<1>5. ASSUME NEW c \in DOMAIN db.cars
      PROVE  \E p \in 1 .. Len(es) : Says(es[p], "car", "DELETE", c, db.cars[c])
    BY <1>2 DEF Deletes
<1>6. ASSUME NEW x \in DOMAIN db.resv
      PROVE  \E p \in 1 .. Len(es) : Says(es[p], "reservation", "DELETE", x, db.resv[x])
  <2>1. PICK i \in 1 .. Len(B) : Says(B[i], "reservation", "DELETE", x, db.resv[x])
      OBVIOUS
  <2> QED BY <1>2, <2>1
<1>7. ASSUME NEW x \in DOMAIN db.recs
      PROVE  \E p \in 1 .. Len(es) : Says(es[p], "recurrence", "DELETE", x, db.recs[x])
  <2>1. PICK i \in 1 .. Len(B) : Says(B[i], "recurrence", "DELETE", x, db.recs[x])
      OBVIOUS
  <2> QED BY <1>2, <2>1
<1>8. ASSUME NEW p \in 1 .. Len(es), NEW c, OfCar(es[p], c)
      PROVE  p \in 1 .. Len(A) /\ A[p] = Entry("car", "DELETE", c, db.cars[c])
  <2>1. p \in 1 .. Len(A)
    <3>1. "car" # "reservation" /\ "car" # "recurrence"
        OBVIOUS
    <3> QED BY <1>3, <1>8, <3>1 DEF Says, OfCar
  <2>2. PICK x \in DOMAIN db.cars : A[p] = Entry("car", "DELETE", x, db.cars[x])
      BY <2>1
  <2>3. x = c
      BY <1>2, <1>8, <2>1, <2>2 DEF OfCar, Entry
  <2> QED BY <2>1, <2>2, <2>3
<1>9. ASSUME NEW p \in 1 .. Len(es), NEW r \in 1 .. Len(es), p < r, NEW c,
             OfCar(es[p], c), OfCar(es[r], c)
      PROVE  FALSE
  <2>1. p \in 1 .. Len(A) /\ r \in 1 .. Len(A) /\ A[p] = A[r]
      BY <1>8, <1>9
  <2>2. p = r
      BY <2>1
  <2> QED BY <1>9, <2>2
<1>10. \A p \in 1 .. Len(es) :
          \/ \E c \in DOMAIN db.cars : Says(es[p], "car", "DELETE", c, db.cars[c])
          \/ \E x \in DOMAIN db.resv : Says(es[p], "reservation", "DELETE", x, db.resv[x])
          \/ \E x \in DOMAIN db.recs : Says(es[p], "recurrence", "DELETE", x, db.recs[x])
    BY <1>3, <1>4
<1> QED BY <1>1, <1>5, <1>6, <1>7, <1>9, <1>10 DEF Wiped

LEMMA WipeCarsIs ==
    ASSUME db \in Tables, Finite, WipeCars
    PROVE  /\ \E es : Wiped(es) /\ log' = log \o es
           /\ db' = NoRows /\ UNCHANGED <<now, used, erased, pod>>
<1> PICK G : G = {Entry("car", "DELETE", c, db.cars[c]) : c \in DOMAIN db.cars}
    OBVIOUS
<1> PICK H : H = {Entry("reservation", "DELETE", r, db.resv[r]) : r \in DOMAIN db.resv}
    OBVIOUS
<1> PICK K : K = {Entry("recurrence", "DELETE", s, db.recs[s]) : s \in DOMAIN db.recs}
    OBVIOUS
<1>1. PICK A \in SetToSeqs(G), B \in SetToSeqs(H \cup K) : log' = log \o (A \o B)
    BY Zenon DEF WipeCars, Logged
<1>2. db' = NoRows /\ UNCHANGED <<now, used, erased, pod>>
    BY Zenon DEF WipeCars
<1>3. /\ IsFiniteSet(G) /\ IsFiniteSet(H \cup K)
  <2>1. \A f, table : IsFiniteSet(DOMAIN f) =>
           IsFiniteSet({Entry(table, "DELETE", x, f[x]) : x \in DOMAIN f})
      BY EntriesFinite, Zenon
  <2>2. IsFiniteSet(G) /\ IsFiniteSet(H) /\ IsFiniteSet(K)
      BY <2>1, Zenon DEF Finite
  <2> QED BY <2>2, FS_Union
<1>4. Lists(A, G) /\ Lists(B, H \cup K)
    BY <1>3, SetToSeqsHas
<1>5. /\ \A x \in DOMAIN db.resv : Says(Entry("reservation", "DELETE", x, db.resv[x]),
                                       "reservation", "DELETE", x, db.resv[x])
      /\ \A x \in DOMAIN db.recs : Says(Entry("recurrence", "DELETE", x, db.recs[x]),
                                       "recurrence", "DELETE", x, db.recs[x])
      /\ \A c \in DOMAIN db.cars : Says(Entry("car", "DELETE", c, db.cars[c]),
                                       "car", "DELETE", c, db.cars[c])
    BY RowsSay, Zenon
<1>6. Deletes(A, "car", db.cars, DOMAIN db.cars)
    BY <1>4, <1>5, ListDeletes, Zenon
<1>7. \A i \in 1 .. Len(A) :
         \E c \in DOMAIN db.cars : A[i] = Entry("car", "DELETE", c, db.cars[c])
    BY <1>4 DEF Lists
<1>8. \A i, j \in 1 .. Len(A) : A[i] = A[j] => i = j
    BY <1>4 DEF Lists
<1>9. H \cup K \subseteq Entries
    BY <1>5 DEF Says
<1>10. B \in Seq(Entries)
    BY <1>4, <1>9 DEF Lists
<1>11. \A i \in 1 .. Len(B) :
          \/ \E x \in DOMAIN db.resv : Says(B[i], "reservation", "DELETE", x, db.resv[x])
          \/ \E x \in DOMAIN db.recs : Says(B[i], "recurrence", "DELETE", x, db.recs[x])
  <2> TAKE i \in 1 .. Len(B)
  <2>1. B[i] \in H \/ B[i] \in K
      BY <1>4 DEF Lists
  <2>2. CASE B[i] \in H
    <3>1. PICK x \in DOMAIN db.resv : B[i] = Entry("reservation", "DELETE", x, db.resv[x])
        BY <2>2
    <3> QED BY <1>5, <3>1
  <2>3. CASE B[i] \in K
    <3>1. PICK x \in DOMAIN db.recs : B[i] = Entry("recurrence", "DELETE", x, db.recs[x])
        BY <2>3
    <3> QED BY <1>5, <3>1
  <2> QED BY <2>1, <2>2, <2>3
<1>12. \A x \in DOMAIN db.resv :
          \E i \in 1 .. Len(B) : Says(B[i], "reservation", "DELETE", x, db.resv[x])
  <2> TAKE x \in DOMAIN db.resv
  <2>1. Entry("reservation", "DELETE", x, db.resv[x]) \in H \cup K
      OBVIOUS
  <2>2. PICK i \in 1 .. Len(B) : B[i] = Entry("reservation", "DELETE", x, db.resv[x])
      BY <1>4, <2>1 DEF Lists
  <2> QED BY <1>5, <2>2
<1>13. \A x \in DOMAIN db.recs :
          \E i \in 1 .. Len(B) : Says(B[i], "recurrence", "DELETE", x, db.recs[x])
  <2> TAKE x \in DOMAIN db.recs
  <2>1. Entry("recurrence", "DELETE", x, db.recs[x]) \in H \cup K
      OBVIOUS
  <2>2. PICK i \in 1 .. Len(B) : B[i] = Entry("recurrence", "DELETE", x, db.recs[x])
      BY <1>4, <2>1 DEF Lists
  <2> QED BY <1>5, <2>2
<1>14. Wiped(A \o B)
    BY <1>6, <1>7, <1>8, <1>10, <1>11, <1>12, <1>13, WipedIs, Zenon
<1> QED BY <1>1, <1>2, <1>14, Zenon

LEMMA WriteWipe ==
    ASSUME IndexInv, NEW es, Wiped(es)
    PROVE  es \in Seq(Entries) /\ Writes(es, NoRows, used)
<1>1. DOMAIN Nothing = {} /\ IsFiniteSet({})
    BY FS_EmptySet DEF Nothing
<1>2. NoRows.cars = Nothing /\ NoRows.resv = Nothing /\ NoRows.recs = Nothing
    BY Zenon DEF NoRows
<1>3. /\ DOMAIN NoRows.cars = {} /\ DOMAIN NoRows.resv = {} /\ DOMAIN NoRows.recs = {}
    BY <1>1, <1>2
<1>4. References(NoRows)
    BY <1>3 DEF References
<1>5. /\ DOMAIN db.cars \cup DOMAIN db.resv \cup DOMAIN db.recs \subseteq used
      /\ References(db)
    BY DEF IndexInv, Given
<1>6. /\ es \in Seq(Entries)
      /\ \A p, r \in 1 .. Len(es) : p < r => \A c : ~(OfCar(es[p], c) /\ OfCar(es[r], c))
      /\ \A c \in DOMAIN db.cars :
            \E p \in 1 .. Len(es) : Says(es[p], "car", "DELETE", c, db.cars[c])
    BY DEF Wiped
<1>7. "car" # "reservation" /\ "car" # "recurrence" /\ "reservation" # "recurrence"
    OBVIOUS
<1>8. ASSUME NEW i \in 1 .. Len(es)
      PROVE  /\ es[i].id \in used /\ (es[i].table # "car" => es[i].row.car \in used)
             /\ \A c \in CarIds :
                   /\ OfCar(es[i], c) => c \in DOMAIN db.cars
                   /\ ~Upserts(es[i], c)
             /\ es[i].table = "reservation" =>
                   es[i].id \in DOMAIN db.resv /\ es[i].row.car = db.resv[es[i].id].car
             /\ es[i].table = "recurrence" =>
                   es[i].id \in DOMAIN db.recs /\ es[i].row.car = db.recs[es[i].id].car
  <2>1. CASE \E c \in DOMAIN db.cars : Says(es[i], "car", "DELETE", c, db.cars[c])
      BY <1>5, <1>7, <2>1 DEF Says, OfCar, Upserts
  <2>2. CASE \E x \in DOMAIN db.resv : Says(es[i], "reservation", "DELETE", x, db.resv[x])
      BY <1>5, <1>7, <2>2 DEF Says, OfCar, Upserts, References
  <2>3. CASE \E x \in DOMAIN db.recs : Says(es[i], "recurrence", "DELETE", x, db.recs[x])
      BY <1>5, <1>7, <2>3 DEF Says, OfCar, Upserts, References
  <2> QED BY <2>1, <2>2, <2>3 DEF Wiped
<1>9. ASSUME NEW i \in 1 .. Len(es), NEW c \in CarIds, Removes(es[i], c)
      PROVE  \A j \in i + 1 .. Len(es) : ~OfCar(es[j], c)
  <2> TAKE j \in i + 1 .. Len(es)
  <2>1. j \in 1 .. Len(es) /\ i < j
      OBVIOUS
  <2> QED BY <1>6, <1>9, <2>1 DEF Removes
<1>10. \A c \in DOMAIN db.cars : \E i \in 1 .. Len(es) : Removes(es[i], c)
    BY <1>6 DEF Says, Removes, OfCar
<1> QED BY <1>1, <1>3, <1>4, <1>5, <1>6, <1>8, <1>9, <1>10 DEF Writes

-----------------------------------------------------------------------------
(* The pod *)

Pods == [phase : Phases, model : Models, view : Tables,
         next : [view : Tables, model : Models, read : Nat]]

LEMMA PodReads ==
    ASSUME NEW p \in Pods, NEW a, NEW n, NEW y, y = [p EXCEPT !.phase = a, !.next = n]
    PROVE  y = [phase |-> a, model |-> p.model, view |-> p.view, next |-> n]
  BY DEF Pods

\* No car, no row.
LEMMA Empty ==
    /\ NoRows \in Tables /\ References(NoRows)
    /\ DOMAIN NoRows.cars = {} /\ DOMAIN NoRows.resv = {} /\ DOMAIN NoRows.recs = {}
    /\ NewModel \in Models /\ Agree(NewModel) /\ \A c : Unowned(NewModel, c)
    /\ DOMAIN NewModel.cars = {}
    /\ DOMAIN NewModel.reservationCar = {} /\ DOMAIN NewModel.recurrenceCar = {}
    /\ NoRead \in [view : Tables, model : Models, read : Nat]
    /\ NoRead.model = NewModel /\ NoRead.view = NoRows /\ NoRead.read = 0
<1>1. DOMAIN Nothing = {} /\ \A K, V : Nothing \in Table(K, V)
  <2>1. DOMAIN Nothing = {} /\ \A V : Nothing \in [{} -> V]
      BY DEF Nothing
  <2> QED BY <2>1 DEF Table
<1>2. NoRows.cars = Nothing /\ NoRows.resv = Nothing /\ NoRows.recs = Nothing
    BY Zenon DEF NoRows
<1>3. NoRows \in Tables
  <2> HIDE DEF Nothing
  <2> QED BY <1>1 DEF NoRows, Tables
<1>4. /\ NewModel.cars = Nothing /\ NewModel.cells = {}
      /\ NewModel.reservationCar = Nothing /\ NewModel.recurrenceCar = Nothing
    BY Zenon DEF NewModel
<1>5. NewModel \in Models
  <2> HIDE DEF Nothing
  <2> QED BY <1>1 DEF NewModel, Models
<1>6. Agree(NewModel) /\ \A c : Unowned(NewModel, c)
    BY <1>1, <1>4 DEF Agree, Cellular, Unique, Linked, Unowned
<1>7. References(NoRows)
    BY <1>1, <1>2 DEF References
<1>8. NoRead.model = NewModel /\ NoRead.view = NoRows /\ NoRead.read = 0
    BY Zenon DEF NoRead
<1>9. NoRead \in [view : Tables, model : Models, read : Nat]
    BY <1>3, <1>5 DEF NoRead
<1> QED BY <1>1, <1>2, <1>3, <1>4, <1>5, <1>6, <1>7, <1>8, <1>9

LEMMA SnapshotIs ==
    ASSUME IndexInv, Snapshot
    PROVE  /\ \E y \in Pods :
                 /\ pod' = y /\ y.model = pod.model /\ y.view = pod.view
                 /\ pod.phase \in {"down", "up"}
                 /\ y.phase = IF pod.phase = "down" THEN "starting" ELSE "rebuilding"
                 /\ y.next.view = db /\ y.next.model = Load(db, now) /\ y.next.read = Len(log)
           /\ UNCHANGED <<now, db, used, writes, erased, log>>
<1> PICK n : n = [view |-> db, model |-> Load(db, now), read |-> Len(log)]
    OBVIOUS
<1> PICK a : a = IF pod.phase = "down" THEN "starting" ELSE "rebuilding"
    OBVIOUS
<1> PICK y : y = [pod EXCEPT !.phase = a, !.next = n]
    OBVIOUS
<1>1. /\ pod' = y /\ pod.phase \in {"down", "up"}
      /\ UNCHANGED <<now, db, used, writes, erased, log>>
    BY Zenon DEF Snapshot
<1>2. /\ pod \in Pods /\ db \in Tables /\ References(db) /\ now \in Nat
      /\ log \in Seq(Entries)
    BY WindowAssumption DEF IndexInv, Typed, Pods
<1>3. y = [phase |-> a, model |-> pod.model, view |-> pod.view, next |-> n]
    BY <1>2, PodReads, Zenon
<1>4. Load(db, now) \in Models
    BY <1>2, LoadAgrees, Zenon
<1>5. /\ n.view = db /\ n.model = Load(db, now) /\ n.read = Len(log)
      /\ y.phase = a /\ y.model = pod.model /\ y.view = pod.view /\ y.next = n
    BY <1>3, Zenon
<1>6. y \in Pods
  <2>1. n \in [view : Tables, model : Models, read : Nat]
    <3>1. Len(log) \in Nat
        BY <1>2
    <3> QED BY <1>2, <1>4, <3>1, Zenon
  <2>2. a \in Phases
      BY Zenon DEF Phases
  <2>3. pod.model \in Models /\ pod.view \in Tables
      BY <1>2 DEF Pods
  <2> QED BY <1>3, <2>1, <2>2, <2>3, Zenon DEF Pods
<1> QED BY <1>1, <1>5, <1>6, Zenon

LEMMA PullIs ==
    ASSUME IndexInv, Pull
    PROVE  /\ \E y \in Pods :
                 /\ pod' = y /\ y.model = pod.model /\ y.view = pod.view
                 /\ pod.phase = "up" /\ y.phase = "pulled"
                 /\ y.next.view = db /\ y.next.model = NewModel /\ y.next.read = Len(log)
           /\ UNCHANGED <<now, db, used, writes, erased, log>>
<1> PICK n : n = [view |-> db, model |-> NewModel, read |-> Len(log)]
    OBVIOUS
<1> PICK y : y = [pod EXCEPT !.phase = "pulled", !.next = n]
    OBVIOUS
<1>1. /\ pod' = y /\ pod.phase = "up"
      /\ UNCHANGED <<now, db, used, writes, erased, log>>
    BY Zenon DEF Pull
<1>2. pod \in Pods /\ db \in Tables /\ log \in Seq(Entries)
    BY DEF IndexInv, Typed, Pods
<1>3. y = [phase |-> "pulled", model |-> pod.model, view |-> pod.view, next |-> n]
    BY <1>2, PodReads, Zenon
<1>5. /\ n.view = db /\ n.model = NewModel /\ n.read = Len(log)
      /\ y.phase = "pulled" /\ y.model = pod.model /\ y.view = pod.view /\ y.next = n
    BY <1>3, Zenon
<1>6. y \in Pods
  <2>1. n \in [view : Tables, model : Models, read : Nat]
    <3>1. Len(log) \in Nat
        BY <1>2
    <3> QED BY <1>2, <3>1, Empty, Zenon
  <2>2. "pulled" \in Phases
      BY Zenon DEF Phases
  <2>3. pod.model \in Models /\ pod.view \in Tables
      BY <1>2 DEF Pods
  <2> QED BY <1>3, <2>1, <2>2, <2>3, Zenon DEF Pods
<1> QED BY <1>1, <1>5, <1>6, Zenon

LEMMA ReadKeeps ==
    ASSUME IndexInv, NEW y \in Pods, pod' = y, UNCHANGED <<now, db, used, log>>,
           y.model = pod.model, y.next.read = Len(log),
           NEW m, y.next.model = m,
           \A o, q : Owned(o, q) => Fits(m, o, q),
           \A c \in CarIds \ DOMAIN m.cars : Unowned(m, c)
    PROVE  IndexInv'
<1>0. /\ Typed /\ Finite /\ References(db) /\ Given /\ LifeOfCar /\ Owners /\ Orphans
      /\ Agree(pod.model)
    BY DEF IndexInv
<1>1. PICK o, q : Owned(o, q)
    BY <1>0 DEF Owners
<1>2. Fits(m, o, q)
    BY <1>1
<1>3. Typed'
    BY <1>0 DEF Typed, Pods
<1>4. Finite' /\ References(db)' /\ LifeOfCar'
    BY <1>0 DEF Finite, References, LifeOfCar
<1>5. Given'
    BY <1>0, <1>2 DEF Given, Fits
<1>6. Owners'
  <2>1. Owned(o, q)'
    <3>1. /\ \A r \in DOMAIN db.resv : db.resv[r].car = o[r]
          /\ \A x \in DOMAIN db.recs : db.recs[x].car = q[x]
          /\ \A i \in 1 .. Len(log) :
                /\ log[i].table = "reservation" => log[i].row.car = o[log[i].id]
                /\ log[i].table = "recurrence"  => log[i].row.car = q[log[i].id]
          /\ \A r \in DOMAIN pod.model.reservationCar : pod.model.reservationCar[r] = o[r]
          /\ \A x \in DOMAIN pod.model.recurrenceCar : pod.model.recurrenceCar[x] = q[x]
        BY <1>1 DEF Owned
    <3> QED BY <1>2, <3>1 DEF Owned, Fits
  <2> QED BY <1>1, <2>1 DEF Owners
<1>7. Orphans'
  <2>1. ASSUME NEW c \in CarIds, c \notin DOMAIN db.cars PROVE Ends(c, 0, Len(log))
      BY <1>0, <2>1 DEF LifeOfCar, Ends
  <2>2. \A c : Ends(c, 0, Len(log))' <=> Ends(c, 0, Len(log))
      BY DEF Ends
  <2> QED BY <1>0, <2>1, <2>2 DEF Orphans, Unowned
<1>8. /\ Agree(pod.model)' /\ Agree(pod.next.model)'
      /\ \A c \in CarIds \ DOMAIN pod'.next.model.cars : Unowned(pod.next.model, c)'
    BY <1>0, <1>2 DEF Fits, Agree, Cellular, Unique, Linked, Unowned
<1> QED BY <1>3, <1>4, <1>5, <1>6, <1>7, <1>8 DEF IndexInv

LEMMA InstallIs ==
    ASSUME IndexInv, NEW passed, Install(passed), NEW m,
           m = IF pod.phase = "pulled" THEN Applied(pod.model, SubSeq(log, 1, pod.next.read))
               ELSE pod.next.model, m \in Models
    PROVE  /\ \E y \in Pods :
                 /\ pod' = y /\ y.model = m /\ y.view = pod.next.view
                 /\ pod.phase \in {"starting", "rebuilding", "pulled"} /\ y.phase = "up"
                 /\ y.next = NoRead
           /\ log' = SubSeq(log, passed + 1, Len(log))
           /\ UNCHANGED <<now, db, used, writes, erased>>
<1> PICK y : y = [phase |-> "up", view |-> pod.next.view, model |-> m, next |-> NoRead]
    OBVIOUS
<1>1. /\ pod' = y /\ pod.phase \in {"starting", "rebuilding", "pulled"}
      /\ log' = SubSeq(log, passed + 1, Len(log))
      /\ UNCHANGED <<now, db, used, writes, erased>>
    BY Zenon DEF Install
<1>2. pod.next.view \in Tables
    BY DEF IndexInv, Typed
<1>3. y.phase = "up" /\ y.view = pod.next.view /\ y.model = m /\ y.next = NoRead
    BY Zenon
<1>4. y \in Pods
    BY <1>2, Empty DEF Pods, Phases
<1> QED BY <1>1, <1>3, <1>4, Zenon

\* The tail of a log.
LEMMA Rest ==
    ASSUME NEW T, NEW s \in Seq(T), NEW n \in 0 .. Len(s), NEW w, w = SubSeq(s, n + 1, Len(s))
    PROVE  /\ w \in Seq(T) /\ Len(w) = Len(s) - n
           /\ \A i \in 1 .. Len(w) : i + n \in 1 .. Len(s) /\ w[i] = s[i + n]
<1>1. w \in Seq(T) /\ Len(w) = Len(s) - n
    OBVIOUS
<1>2. ASSUME NEW i \in 1 .. Len(w) PROVE i + n \in 1 .. Len(s) /\ w[i] = s[i + n]
    BY <1>1
<1> QED BY <1>1, <1>2

LEMMA InstallKeeps ==
    ASSUME IndexInv, NEW passed \in 0 .. pod.next.read, NEW y \in Pods, pod' = y,
           UNCHANGED <<now, db, used>>, log' = SubSeq(log, passed + 1, Len(log)),
           y.phase = "up", y.next = NoRead,
           NEW m, y.model = m, NEW o, NEW q,
           Owned(o, q), Fits(m, o, q),
           \A c \in CarIds \ DOMAIN m.cars : Unowned(m, c) \/ c \in used \ DOMAIN db.cars
    PROVE  IndexInv'
<1>0. /\ Typed /\ Finite /\ References(db) /\ Given /\ LifeOfCar
    BY DEF IndexInv
<1> PICK w : w = log'
    OBVIOUS
<1>1. /\ log \in Seq(Entries) /\ passed \in 0 .. Len(log) /\ Len(log) \in Nat /\ passed \in Nat
    BY <1>0 DEF Typed
<1>2. /\ w \in Seq(Entries) /\ Len(w) = Len(log) - passed
      /\ \A i \in 1 .. Len(w) : i + passed \in 1 .. Len(log) /\ w[i] = log[i + passed]
    BY <1>1, Rest
<1>3. /\ y.next.model = NewModel /\ y.next.read = 0
      /\ DOMAIN NewModel.cars = {}
      /\ DOMAIN NewModel.reservationCar = {} /\ DOMAIN NewModel.recurrenceCar = {}
      /\ Agree(NewModel) /\ \A c : Unowned(NewModel, c)
    BY Empty
<1>4. Typed'
    BY <1>0, <1>1, <1>2, <1>3 DEF Typed, Pods
<1>5. Finite' /\ References(db)'
    BY <1>0 DEF Finite, References
<1>6. Given'
    BY <1>0, <1>2, <1>3 DEF Given, Fits
<1>7. LifeOfCar'
  <2>1. ASSUME NEW i \in 1 .. Len(w), NEW c \in CarIds, Removes(w[i], c)
        PROVE  c \notin DOMAIN db.cars /\ \A j \in i + 1 .. Len(w) : ~OfCar(w[j], c)
    <3>1. /\ c \notin DOMAIN db.cars
          /\ \A j \in (i + passed) + 1 .. Len(log) : ~OfCar(log[j], c)
        BY <1>0, <1>2, <2>1 DEF LifeOfCar
    <3>2. \A j \in i + 1 .. Len(w) : j + passed \in (i + passed) + 1 .. Len(log) /\ j \in 1 .. Len(w)
        BY <1>1, <1>2
    <3> QED BY <1>2, <3>1, <3>2
  <2>2. ASSUME NEW i \in 1 .. Len(w), NEW c \in CarIds, Upserts(w[i], c), c \notin DOMAIN db.cars
        PROVE  \E j \in i + 1 .. Len(w) : Removes(w[j], c)
    <3>1. PICK j \in (i + passed) + 1 .. Len(log) : Removes(log[j], c)
        BY <1>0, <1>2, <2>2 DEF LifeOfCar
    <3>2. j - passed \in i + 1 .. Len(w) /\ j - passed \in 1 .. Len(w) /\ (j - passed) + passed = j
        BY <1>1, <1>2
    <3> QED BY <1>2, <3>1, <3>2
  <2> QED BY <2>1, <2>2 DEF LifeOfCar
<1>8. Owners'
  <2>1. /\ \A r \in DOMAIN db.resv : db.resv[r].car = o[r]
        /\ \A x \in DOMAIN db.recs : db.recs[x].car = q[x]
        /\ \A i \in 1 .. Len(log) :
              /\ log[i].table = "reservation" => log[i].row.car = o[log[i].id]
              /\ log[i].table = "recurrence"  => log[i].row.car = q[log[i].id]
      BY DEF Owned
  <2>2. \A i \in 1 .. Len(w) : /\ w[i].table = "reservation" => w[i].row.car = o[w[i].id]
                               /\ w[i].table = "recurrence" => w[i].row.car = q[w[i].id]
    <3> TAKE i \in 1 .. Len(w)
    <3>1. PICK k \in 1 .. Len(log) : w[i] = log[k]
        BY <1>2
    <3>2. /\ log[k].table = "reservation" => log[k].row.car = o[log[k].id]
          /\ log[k].table = "recurrence" => log[k].row.car = q[log[k].id]
        BY <2>1
    <3> QED BY <3>1, <3>2
  <2>3. Owned(o, q)'
      BY <1>3, <2>1, <2>2 DEF Owned, Fits
  <2> QED BY <2>3 DEF Owners
<1>9. Orphans'
    BY DEF Orphans, Unowned
<1>10. /\ Agree(pod.model)' /\ Agree(pod.next.model)'
       /\ \A c \in CarIds \ DOMAIN pod'.next.model.cars : Unowned(pod.next.model, c)'
    BY <1>3 DEF Fits, Agree, Cellular, Unique, Linked, Unowned
<1> QED BY <1>4, <1>5, <1>6, <1>7, <1>8, <1>9, <1>10 DEF IndexInv

LEMMA InitEstablishes == Init => IndexInv
<1> SUFFICES ASSUME Init PROVE IndexInv
    OBVIOUS
<1> PICK y : y = [phase |-> "down", model |-> NewModel, view |-> NoRows, next |-> NoRead]
    OBVIOUS
<1>1. /\ now = 0 /\ db = NoRows /\ used = {} /\ log = <<>> /\ pod = y
    BY Zenon DEF Init
<1>2. y.phase = "down" /\ y.model = NewModel /\ y.view = NoRows /\ y.next = NoRead
    BY Zenon
<1>3. y \in Pods
    BY Empty DEF Pods, Phases
<1>4. Typed
  <2>1. now \in 0 .. MaxTime /\ log \in Seq(Entries) /\ Len(log) = 0
      BY <1>1, WindowAssumption
  <2>2. /\ db \in Tables /\ pod \in Pods
        /\ pod.next.read = 0
      BY <1>1, <1>2, <1>3, Empty, Zenon
  <2> QED BY <2>1, <2>2 DEF Typed, Pods
<1>5. /\ db.cars = NoRows.cars /\ db.resv = NoRows.resv /\ db.recs = NoRows.recs
      /\ pod.model = NewModel /\ pod.next.model = NewModel /\ Len(log) = 0
    BY <1>1, <1>2, Empty
<1>6. Finite /\ References(db)
    BY <1>5, Empty, FS_EmptySet DEF Finite, References
<1>7. Given /\ LifeOfCar /\ Orphans
    BY <1>5, Empty DEF Given, LifeOfCar, Orphans
<1>8. Owners
  <2>1. \A o, q : Owned(o, q)
      BY <1>5, Empty DEF Owned
  <2> QED BY <2>1, Zenon DEF Owners
<1>9. /\ Agree(pod.model) /\ Agree(pod.next.model)
      /\ \A c \in CarIds \ DOMAIN pod.next.model.cars : Unowned(pod.next.model, c)
    BY <1>5, Empty
<1> QED BY <1>4, <1>6, <1>7, <1>8, <1>9 DEF IndexInv

-----------------------------------------------------------------------------
(* Every step keeps the invariant *)

LEMMA WritesKeep ==
    ASSUME IndexInv, WriteStep
    PROVE  IndexInv'
<1>0. /\ db \in Tables /\ Finite /\ now \in Nat /\ References(db) /\ Given
    BY WindowAssumption DEF IndexInv, Typed
<1>1. ASSUME NEW c \in CarIds, NEW cell \in Cells, ListCar(c, cell)
      PROVE  IndexInv'
  <2> PICK row : row = [cell |-> cell, listed |-> TRUE]
      OBVIOUS
  <2>1. /\ row \in CarRow /\ c \notin used /\ used' = used \cup {c}
        /\ \E d \in Tables, e \in Entries :
              /\ db' = d /\ PutCar(db, d, c, row)
              /\ Says(e, "car", "INSERT", c, row) /\ log' = log \o <<e>>
        /\ UNCHANGED <<now, erased, pod>>
      BY <1>0, <1>1, ListCarIs, Zenon
  <2>2. PICK d \in Tables, e \in Entries :
              /\ db' = d /\ PutCar(db, d, c, row)
              /\ Says(e, "car", "INSERT", c, row) /\ log' = log \o <<e>>
      BY <2>1
  <2>3. "INSERT" # "DELETE" /\ "UPDATE" # "DELETE"
      OBVIOUS
  <2>4. <<e>> \in Seq(Entries) /\ Writes(<<e>>, d, used \cup {c})
      BY <2>1, <2>2, <2>3, WriteCar, Zenon
  <2> QED BY <2>1, <2>2, <2>4, WriteKeeps, Zenon
<1>2. ASSUME NEW c \in CarIds, NEW cell \in Cells, NEW b \in BOOLEAN, EditCar(c, cell, b)
      PROVE  IndexInv'
  <2> PICK row : row = [cell |-> cell, listed |-> b]
      OBVIOUS
  <2>1. /\ row \in CarRow /\ c \in DOMAIN db.cars
        /\ \E d \in Tables, e \in Entries :
              /\ db' = d /\ PutCar(db, d, c, row)
              /\ Says(e, "car", "UPDATE", c, row) /\ log' = log \o <<e>>
        /\ UNCHANGED <<now, used, erased, pod>>
      BY <1>0, <1>2, EditCarIs, Zenon
  <2>2. PICK d \in Tables, e \in Entries :
              /\ db' = d /\ PutCar(db, d, c, row)
              /\ Says(e, "car", "UPDATE", c, row) /\ log' = log \o <<e>>
      BY <2>1
  <2>3. "INSERT" # "DELETE" /\ "UPDATE" # "DELETE"
      OBVIOUS
  <2>4. <<e>> \in Seq(Entries) /\ Writes(<<e>>, d, used \cup {c})
      BY <2>1, <2>2, <2>3, WriteCar, Zenon
  <2>5. used' = used \cup {c}
      BY <1>0, <2>1 DEF Given
  <2> QED BY <2>1, <2>2, <2>4, <2>5, WriteKeeps, Zenon
<1>3. ASSUME NEW r \in ResIds, NEW c \in CarIds, NEW w \in Windows, NEW k \in Kinds,
             Book(r, c, w, k)
      PROVE  IndexInv'
  <2>1. /\ r \notin used /\ used' = used \cup {r}
        /\ \E row \in ResRow, d \in Tables, e \in Entries, gone \in Seq(Entries) :
              /\ row.car = c /\ c \in DOMAIN db.cars
              /\ db' = d /\ PutRes(db, d, Lapsed(c), r, row)
              /\ Says(e, "reservation", "INSERT", r, row)
              /\ Deletes(gone, "reservation", db.resv, Lapsed(c))
              /\ log' = log \o Append(gone, e)
        /\ UNCHANGED <<now, erased, pod>>
      BY <1>0, <1>3, BookIs, Zenon
  <2>2. PICK row \in ResRow, d \in Tables, e \in Entries, gone \in Seq(Entries) :
              /\ row.car = c /\ c \in DOMAIN db.cars
              /\ db' = d /\ PutRes(db, d, Lapsed(c), r, row)
              /\ Says(e, "reservation", "INSERT", r, row)
              /\ Deletes(gone, "reservation", db.resv, Lapsed(c))
              /\ log' = log \o Append(gone, e)
      BY <2>1
  <2> PICK es : es = Append(gone, e)
      OBVIOUS
  <2>3. Lapsed(c) \in SUBSET DOMAIN db.resv
      BY DEF Lapsed
  <2>4. row.car \in DOMAIN db.cars
      BY <2>2
  <2>5. es \in Seq(Entries) /\ Writes(es, d, used \cup {r})
      BY <2>1, <2>2, <2>3, <2>4, WriteRes, Zenon
  <2> QED BY <2>1, <2>2, <2>5, WriteKeeps, Zenon
<1>4. ASSUME NEW r \in DOMAIN db.resv, NEW row \in ResRow, row.car = db.resv[r].car,
             UpdateReservation(r, row)
      PROVE  IndexInv'
  <2>1. /\ \E d \in Tables, e \in Entries :
              /\ db' = d /\ PutRes(db, d, {}, r, row)
              /\ Says(e, "reservation", "UPDATE", r, row) /\ log' = log \o <<e>>
        /\ UNCHANGED <<now, used, erased, pod>>
      BY <1>0, <1>4, UpdateIs, Zenon
  <2>2. PICK d \in Tables, e \in Entries :
              /\ db' = d /\ PutRes(db, d, {}, r, row)
              /\ Says(e, "reservation", "UPDATE", r, row) /\ log' = log \o <<e>>
      BY <2>1
  <2> PICK es : es = Append(<<>>, e)
      OBVIOUS
  <2>3. es = <<e>> /\ {} \in SUBSET DOMAIN db.resv /\ r \in ResIds
      BY <1>0, TablesHas
  <2>4. Deletes(<<>>, "reservation", db.resv, {})
      BY DEF Deletes
  <2>5. es \in Seq(Entries) /\ Writes(es, d, used \cup {r})
      BY <1>4, <2>2, <2>3, <2>4, WriteRes, Zenon
  <2>6. used' = used \cup {r}
      BY <1>0, <2>1 DEF Given
  <2> QED BY <2>1, <2>2, <2>3, <2>5, <2>6, WriteKeeps, Zenon
<1>5. ASSUME NEW r \in ResIds, ConfirmHold(r) \/ CancelReservation(r)
      PROVE  IndexInv'
  <2>1. r \in DOMAIN db.resv /\ db.resv[r] \in ResRow
      BY <1>0, <1>5, TablesHas, Zenon DEF ConfirmHold, CancelReservation
  <2>2. CASE ConfirmHold(r)
    <3> PICK row : row = [db.resv[r] EXCEPT !.expires = Null]
        OBVIOUS
    <3>1. UpdateReservation(r, row)
        BY <2>2, Zenon DEF ConfirmHold
    <3>2. row \in ResRow /\ row.car = db.resv[r].car
        BY <2>1, ResChange, Zenon
    <3> QED BY <1>4, <2>1, <3>1, <3>2, Zenon
  <2>3. CASE CancelReservation(r)
    <3> PICK row : row = [db.resv[r] EXCEPT !.confirmed = FALSE]
        OBVIOUS
    <3>1. UpdateReservation(r, row)
        BY <2>3, Zenon DEF CancelReservation
    <3>2. row \in ResRow /\ row.car = db.resv[r].car
        BY <2>1, ResChange, Zenon
    <3> QED BY <1>4, <2>1, <3>1, <3>2, Zenon
  <2> QED BY <1>5, <2>2, <2>3
<1>6. ASSUME NEW x \in RecIds, NEW c \in CarIds, NEW w \in Windows, CreateSchedule(x, c, w)
      PROVE  IndexInv'
  <2>1. /\ x \notin used /\ used' = used \cup {x}
        /\ \E row \in RecRow, d \in Tables, e \in Entries :
              /\ row.car = c /\ c \in DOMAIN db.cars
              /\ db' = d /\ PutRec(db, d, x, row)
              /\ Says(e, "recurrence", "INSERT", x, row) /\ log' = log \o <<e>>
        /\ UNCHANGED <<now, erased, pod>>
      BY <1>0, <1>6, CreateScheduleIs, Zenon
  <2>2. PICK row \in RecRow, d \in Tables, e \in Entries :
              /\ row.car = c /\ c \in DOMAIN db.cars
              /\ db' = d /\ PutRec(db, d, x, row)
              /\ Says(e, "recurrence", "INSERT", x, row) /\ log' = log \o <<e>>
      BY <2>1
  <2>3. row.car \in DOMAIN db.cars
      BY <2>2
  <2>4. <<e>> \in Seq(Entries) /\ Writes(<<e>>, d, used \cup {x})
      BY <2>1, <2>2, <2>3, WriteRec, Zenon
  <2> QED BY <2>1, <2>2, <2>4, WriteKeeps, Zenon
<1>7. ASSUME NEW x \in RecIds, DeactivateSchedule(x)
      PROVE  IndexInv'
  <2>1. /\ x \in DOMAIN db.recs
        /\ \E row \in RecRow, d \in Tables, e \in Entries :
              /\ row.car = db.recs[x].car
              /\ db' = d /\ PutRec(db, d, x, row)
              /\ Says(e, "recurrence", "UPDATE", x, row) /\ log' = log \o <<e>>
        /\ UNCHANGED <<now, used, erased, pod>>
      BY <1>0, <1>7, DeactivateScheduleIs, Zenon
  <2>2. PICK row \in RecRow, d \in Tables, e \in Entries :
              /\ row.car = db.recs[x].car
              /\ db' = d /\ PutRec(db, d, x, row)
              /\ Says(e, "recurrence", "UPDATE", x, row) /\ log' = log \o <<e>>
      BY <2>1
  <2>3. <<e>> \in Seq(Entries) /\ Writes(<<e>>, d, used \cup {x})
      BY <2>1, <2>2, WriteRec, Zenon
  <2>4. used' = used \cup {x}
      BY <1>0, <2>1 DEF Given
  <2> QED BY <2>1, <2>2, <2>3, <2>4, WriteKeeps, Zenon
<1>8. ASSUME BenchTruncate \/ WipeTruncate
      PROVE  IndexInv'
  <2>1. PICK d \in Tables :
           /\ db' = d /\ d.cars = db.cars /\ d.resv = Nothing /\ d.recs \in {db.recs, Nothing}
      BY <1>0, <1>8, TruncateIs, Zenon
  <2>2. log' = log \o <<>> /\ UNCHANGED <<now, used, pod>>
      BY <1>8, Zenon DEF BenchTruncate, WipeTruncate, Logged
  <2>3. <<>> \in Seq(Entries) /\ Writes(<<>>, d, used)
      BY <2>1, WriteNothing
  <2> QED BY <2>1, <2>2, <2>3, WriteKeeps, Zenon
<1>9. ASSUME WipeCars
      PROVE  IndexInv'
  <2>1. PICK es : Wiped(es) /\ log' = log \o es
      BY <1>0, <1>9, WipeCarsIs, Zenon
  <2>2. db' = NoRows /\ UNCHANGED <<now, used, pod>>
      BY <1>0, <1>9, WipeCarsIs, Zenon
  <2>3. es \in Seq(Entries) /\ Writes(es, NoRows, used)
      BY <2>1, WriteWipe
  <2> QED BY <2>1, <2>2, <2>3, Empty, WriteKeeps, Zenon
<1> QED BY <1>1, <1>2, <1>3, <1>5, <1>6, <1>7, <1>8, <1>9, Zenon DEF WriteStep

LEMMA PodKeeps ==
    ASSUME IndexInv, PodStep
    PROVE  IndexInv'
<1>0. /\ Typed /\ References(db) /\ Given /\ LifeOfCar /\ Owners /\ Orphans
      /\ Agree(pod.model) /\ Agree(pod.next.model)
      /\ \A c \in CarIds \ DOMAIN pod.next.model.cars : Unowned(pod.next.model, c)
      /\ db \in Tables /\ now \in Nat /\ log \in Seq(Entries)
      /\ pod.next.read \in Nat /\ pod.next.read <= Len(log)
      /\ pod.model \in Models /\ pod.next.model \in Models
    BY WindowAssumption DEF IndexInv, Typed
<1>1. CASE Snapshot
  <2>1. PICK y \in Pods :
           /\ pod' = y /\ y.model = pod.model
           /\ y.next.model = Load(db, now) /\ y.next.read = Len(log)
      BY <1>1, SnapshotIs, Zenon
  <2> PICK m : m = Load(db, now)
      OBVIOUS
  <2>2. UNCHANGED <<now, db, used, log>>
      BY <1>1, SnapshotIs, Zenon
  <2>3. /\ m \in Models /\ Agree(m)
        /\ \A c \in CarIds \ DOMAIN m.cars : Unowned(m, c)
        /\ \A r \in DOMAIN m.reservationCar :
              r \in DOMAIN db.resv /\ m.reservationCar[r] = db.resv[r].car
        /\ \A x \in DOMAIN m.recurrenceCar :
              x \in DOMAIN db.recs /\ m.recurrenceCar[x] = db.recs[x].car
      BY <1>0, LoadAgrees
  <2>4. \A o, q : Owned(o, q) => Fits(m, o, q)
    <3>1. \A o, q : Owned(o, q) => /\ \A r \in DOMAIN db.resv : db.resv[r].car = o[r]
                                   /\ \A x \in DOMAIN db.recs : db.recs[x].car = q[x]
        BY Zenon DEF Owned
    <3>2. DOMAIN db.resv \subseteq used /\ DOMAIN db.recs \subseteq used
        BY <1>0 DEF Given
    <3> QED BY <2>3, <3>1, <3>2 DEF Fits
  <2>5. y.next.model = m
      BY <2>1
  <2> QED BY <2>1, <2>2, <2>3, <2>4, <2>5, ReadKeeps, Zenon
<1>2. CASE Pull
  <2>1. PICK y \in Pods :
           /\ pod' = y /\ y.model = pod.model
           /\ y.next.model = NewModel /\ y.next.read = Len(log)
      BY <1>2, PullIs, Zenon
  <2>2. UNCHANGED <<now, db, used, log>>
      BY <1>2, PullIs, Zenon
  <2>3. \A o, q : Fits(NewModel, o, q)
      BY Empty DEF Fits
  <2> QED BY <2>1, <2>2, <2>3, Empty, ReadKeeps, Zenon
<1>3. ASSUME NEW passed \in 0 .. pod.next.read, Install(passed)
      PROVE  IndexInv'
  <2>0. PICK o, q : Owned(o, q)
      BY <1>0 DEF Owners
  <2> PICK m : m = IF pod.phase = "pulled"
                   THEN Applied(pod.model, SubSeq(log, 1, pod.next.read)) ELSE pod.next.model
      OBVIOUS
  <2>1. /\ Fits(m, o, q)
        /\ \A c \in CarIds \ DOMAIN m.cars : Unowned(m, c) \/ c \in used \ DOMAIN db.cars
    <3>1. CASE pod.phase = "pulled"
      <4> PICK k : k = pod.next.read
          OBVIOUS
      <4>1. BatchInv(pod.model, 0, k, o, q)
        <5>1. /\ \A r \in DOMAIN pod.model.reservationCar :
                    pod.model.reservationCar[r] = o[r] /\ r \in used
              /\ \A x \in DOMAIN pod.model.recurrenceCar :
                    pod.model.recurrenceCar[x] = q[x] /\ x \in used
            BY <1>0, <2>0 DEF Owned, Given
        <5>2. \A c \in CarIds \ DOMAIN pod.model.cars :
                 Unowned(pod.model, c) \/ (c \in used \ DOMAIN db.cars /\ Ends(c, 0, k))
            BY <1>0, <3>1 DEF Orphans
        <5> QED BY <1>0, <5>1, <5>2 DEF BatchInv, Agree
      <4>2. k \in Nat /\ k <= Len(log)
          BY <1>0
      <4>3. PICK f : BatchOf(f, pod.model, k, o, q)
          BY <1>0, <2>0, <4>1, <4>2, BatchRun, Zenon
      <4>4. BatchInv(m, k, k, o, q)
        <5>1. k \in 0 .. k
            BY <4>2
        <5>2. m = f[k]
            BY <3>1, <4>3, Zenon DEF BatchOf
        <5> QED BY <4>3, <5>1, <5>2, Zenon DEF BatchOf
      <4>5. /\ Fits(m, o, q)
            /\ \A c \in CarIds \ DOMAIN m.cars : Unowned(m, c) \/ c \in used \ DOMAIN db.cars
          BY <1>0, <4>2, <4>4, BatchDone, Zenon
      <4> QED BY <4>5
    <3>2. CASE pod.phase # "pulled"
      <4>1. m = pod.next.model
          BY <3>2
      <4>2. /\ \A r \in DOMAIN pod.next.model.reservationCar :
                  pod.next.model.reservationCar[r] = o[r] /\ r \in used
            /\ \A x \in DOMAIN pod.next.model.recurrenceCar :
                  pod.next.model.recurrenceCar[x] = q[x] /\ x \in used
          BY <1>0, <2>0 DEF Owned, Given
      <4> QED BY <1>0, <4>1, <4>2 DEF Fits
    <3> QED BY <3>1, <3>2
  <2>2. m \in Models
      BY <2>1 DEF Fits
  <2>3. PICK y \in Pods : pod' = y /\ y.model = m /\ y.phase = "up" /\ y.next = NoRead
      BY <1>3, <2>2, InstallIs, Zenon
  <2>4. /\ log' = SubSeq(log, passed + 1, Len(log))
        /\ UNCHANGED <<now, db, used>>
      BY <1>3, <2>2, InstallIs, Zenon
  <2> QED BY <2>0, <2>1, <2>3, <2>4, InstallKeeps, Zenon
<1> QED BY <1>1, <1>2, <1>3, Zenon DEF PodStep

LEMMA NextKeeps ==
    ASSUME IndexInv, [Next]_vars
    PROVE  IndexInv'
<1>1. CASE WriteStep
    BY <1>1, WritesKeep
<1>2. CASE PodStep
    BY <1>2, PodKeeps
<1>3. ASSUME UNCHANGED <<db, used, log, pod>>, now' \in 0 .. MaxTime
      PROVE  IndexInv'
  <2>1. Typed' /\ Finite' /\ References(db)' /\ Given' /\ LifeOfCar'
      BY <1>3 DEF IndexInv, Typed, Finite, References, Given, LifeOfCar
  <2>2. Owners'
      BY <1>3 DEF IndexInv, Owners, Owned
  <2>3. Orphans'
      BY <1>3 DEF IndexInv, Orphans, Unowned, Ends
  <2> QED BY <1>3, <2>1, <2>2, <2>3 DEF IndexInv, Agree, Cellular, Unique, Linked, Unowned
<1>4. CASE Tick
  <2>1. now' \in 0 .. MaxTime
      BY <1>4, WindowAssumption DEF Tick, IndexInv, Typed
  <2> QED BY <1>3, <1>4, <2>1 DEF Tick
<1>5. CASE UNCHANGED vars
    BY <1>3, <1>5 DEF vars, IndexInv, Typed
<1> QED BY <1>1, <1>2, <1>4, <1>5 DEF Next

-----------------------------------------------------------------------------
(* The theorems *)

LEMMA InvariantHolds == Spec => []IndexInv
<1>1. Init => IndexInv
    BY InitEstablishes
<1>2. IndexInv /\ [Next]_vars => IndexInv'
    BY NextKeeps
<1> QED BY <1>1, <1>2, PTL DEF Spec

\* Types: the tables and the model are always made of well-formed rows, and a pod
\* never has read more of the log than there is (feed.go, pull and applyEntry).
THEOREM TypeCorrect == Spec => []TypeOK
<1>1. IndexInv => TypeOK
  <2> SUFFICES ASSUME IndexInv PROVE TypeOK
      OBVIOUS
  <2>1. /\ now \in 0 .. MaxTime /\ db \in Tables /\ pod.model \in Models
        /\ pod.next.read <= Len(log)
      BY DEF IndexInv, Typed
  <2>2. \A c \in DOMAIN pod.model.cars :
           /\ pod.model.cars[c].cell \in Cells
           /\ pod.model.cars[c].busy \in SUBSET Busy
           /\ pod.model.cars[c].recurrences \in SUBSET Schedule
      BY <2>1, ModelHas DEF Car
  <2> QED BY <2>1, <2>2, TablesHas DEF TypeOK
<1> QED BY <1>1, InvariantHolds, PTL

\* The maps of the fleet agree after every entry applied, in whatever order the
\* tail of the log is delivered again: a car is in one bucket, and the id maps
\* lead to exactly the windows and schedules that are held (fleet.go:45).
THEOREM IndexesAgreeAlways == Spec => []IndexesAgree
<1>1. IndexInv => IndexesAgree
    BY Zenon DEF IndexInv, Agree, Cellular, Unique, Linked, IndexesAgree
<1> QED BY <1>1, InvariantHolds, PTL
===============================================================================
