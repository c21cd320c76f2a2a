--------------------------- MODULE AlgorithmsProofs ---------------------------
(***************************************************************************)
(* Proofs about prices, searches, repeating holds and the placing of cars, *)
(* for every rate, duration, fleet, query, schedule, zone, calendar and    *)
(* coast, and every size of pages, cells and candidate lists.              *)
(***************************************************************************)
EXTENDS Algorithms, FiniteSetTheorems, TLAPS

-----------------------------------------------------------------------------
(* Arithmetic *)

LEMMA ProductGrows ==
    ASSUME NEW a \in Nat, NEW b \in Nat, NEW k \in Nat, a <= b
    PROVE  k * a <= k * b /\ a * k <= b * k /\ k * a \in Nat /\ a * k = k * a
  OBVIOUS

LEMMA SquareFact ==
    ASSUME NEW a \in Int
    PROVE  Square(a) \in Nat /\ Square(-a) = Square(a)
  BY DEF Square

LEMMA SquareGrows ==
    ASSUME NEW a \in Nat, NEW b \in Int, a <= b \/ a <= -b
    PROVE  Square(a) <= Square(b)
<1>1. CASE a <= b
    BY <1>1, ProductGrows DEF Square
<1>2. CASE a <= -b
  <2>1. a * a <= a * (-b) /\ a * (-b) <= (-b) * (-b)
      BY <1>2, ProductGrows
  <2>2. (-b) * (-b) = b * b
      OBVIOUS
  <2> QED BY <2>1, <2>2 DEF Square
<1> QED BY <1>1, <1>2

-----------------------------------------------------------------------------
(* Prices *)

\* Half a cent is at most rounded to the cent above.
LEMMA RoundingFact ==
    ASSUME NEW x \in Nat, NEW y \in Nat
    PROVE  /\ RoundHalfUp(x) \in Nat /\ RoundHalfEven(x) \in Nat
           /\ x <= y => RoundHalfEven(x) <= RoundHalfUp(y)
           /\ x % 60 # 30 => RoundHalfEven(x) = RoundHalfUp(x)
           /\ RoundHalfUp(x) <= RoundHalfEven(x) + 1
           /\ RoundHalfEven(x) <= RoundHalfUp(x)
  BY DEF RoundHalfUp, RoundHalfEven

\* OrderCar charges no more than was agreed, and quotes stand.
LEMMA QuoteStands ==
    ASSUME NEW rate \in Nat, NEW quoted \in Nat, NEW minutes \in Nat, NEW scheduled \in BOOLEAN,
           NEW agreed, agreed = Quote(quoted, minutes),
           NEW answer, answer = OrderAnswer(rate, minutes, agreed, scheduled)
    PROVE  /\ rate <= quoted => answer = IF scheduled THEN "owner_schedule_conflict" ELSE "booked"
           /\ answer = "booked" => Charge(rate, minutes) <= agreed
           /\ answer = "price_changed" /\ Exact(rate, minutes) % 60 # 30
              => Charge(rate, minutes) > agreed
           /\ answer = "owner_schedule_conflict" => scheduled
<1> DEFINE x == Exact(rate, minutes)
           y == Exact(quoted, minutes)
<1>1. x \in Nat /\ y \in Nat /\ (rate <= quoted => x <= y)
    BY ProductGrows DEF Exact
<1>2. /\ Charge(rate, minutes) = RoundHalfEven(x) /\ agreed = RoundHalfUp(y)
      /\ ClassifiedPrice(rate, minutes) = RoundHalfUp(x)
    BY DEF Charge, Quote, ClassifiedPrice, RoundHalfUp
<1> HIDE DEF x, y
<1>3. /\ RoundHalfUp(x) \in Nat /\ RoundHalfEven(x) \in Nat /\ RoundHalfUp(y) \in Nat
      /\ x <= y => RoundHalfEven(x) <= RoundHalfUp(y) /\ RoundHalfUp(x) <= RoundHalfUp(y)
      /\ x % 60 # 30 => RoundHalfEven(x) = RoundHalfUp(x)
      /\ RoundHalfEven(x) <= RoundHalfUp(x)
  <2>1. x <= y => RoundHalfUp(x) <= RoundHalfUp(y)
      BY <1>1 DEF RoundHalfUp
  <2> QED BY <1>1, <2>1, RoundingFact
<1> QED BY <1>1, <1>2, <1>3 DEF OrderAnswer, x

-----------------------------------------------------------------------------
(* The order of a page *)

\* Cars of a fleet: as InputAssumption has them.
Fleet(S) ==
    /\ IsFiniteSet(S)
    /\ \A c \in S : c.id \in Int /\ c.lat \in Int /\ c.lng \in Int /\ c.price \in Int
    /\ \A c, d \in S : c.id = d.id => c = d

Query(q) == q.lat \in Int /\ q.lng \in Int /\ q.range \in Nat /\ q.page \in 0 .. MaxPages - 1

LEMMA PartOfFleet ==
    ASSUME NEW T, Fleet(T), NEW S \in SUBSET T
    PROVE  Fleet(S) /\ Cardinality(S) \in Nat /\ Cardinality(S) <= Cardinality(T)
<1>1. IsFiniteSet(S) /\ Cardinality(S) <= Cardinality(T)
    BY FS_Subset DEF Fleet
<1> QED BY <1>1, FS_CardinalityType DEF Fleet

LEMMA DistanceFact ==
    ASSUME NEW q, Query(q), NEW lat \in Int, NEW lng \in Int
    PROVE  Distance(q, lat, lng) \in Nat
<1>1. CosDen * (lat - q.lat) \in Int /\ CosNum * (lng - q.lng) \in Int
    BY SearchAssumption DEF Query
<1> QED BY <1>1, SquareFact DEF Distance

\* The cars of a fleet are ordered strictly and totally.
LEMMA Ordered ==
    ASSUME NEW q, Query(q), NEW T, Fleet(T), NEW a \in T, NEW b \in T
    PROVE  /\ ~Before(q, a, a)
           /\ Before(q, a, b) => ~Before(q, b, a)
           /\ a = b \/ Before(q, a, b) \/ Before(q, b, a)
           /\ \A c \in T : Before(q, a, b) /\ Before(q, b, c) => Before(q, a, c)
<1>1. \A c \in T : CarDistance(q, c) \in Nat /\ c.price \in Int /\ c.id \in Int
    BY DistanceFact DEF CarDistance, Fleet
<1>2. a.id = b.id => a = b
    BY DEF Fleet
<1> QED BY <1>1, <1>2 DEF Before, ByDistance, ByPrice

LEMMA RankFact ==
    ASSUME NEW q, Query(q), NEW T, Fleet(T), NEW a \in T
    PROVE  /\ Rank(q, T, a) \in 0 .. Cardinality(T) - 1
           /\ \A b \in T : Before(q, a, b) => Rank(q, T, a) < Rank(q, T, b)
<1> DEFINE prior(c) == {d \in T : Before(q, d, c)}
<1>1. IsFiniteSet(T) /\ Cardinality(T) \in Nat
    BY PartOfFleet DEF Fleet
<1>2. ASSUME NEW U \in SUBSET T, prior(a) \subseteq U, a \in U
      PROVE  Cardinality(prior(a)) \in Nat /\ Cardinality(prior(a)) < Cardinality(U)
  <2>1. prior(a) \in SUBSET U /\ prior(a) # U
      BY <1>2, Ordered
  <2>2. IsFiniteSet(U) /\ Cardinality(U) \in Nat
      BY <1>1, FS_Subset, FS_CardinalityType
  <2>3. IsFiniteSet(prior(a)) /\ Cardinality(prior(a)) <= Cardinality(U)
        /\ (Cardinality(U) = Cardinality(prior(a)) => U = prior(a))
    <3> HIDE DEF prior
    <3> QED BY <2>1, <2>2, FS_Subset
  <2>4. Cardinality(prior(a)) \in Nat
    <3> HIDE DEF prior
    <3> QED BY <2>3, FS_CardinalityType
  <2> HIDE DEF prior
  <2> QED BY <2>1, <2>2, <2>3, <2>4
<1>3. Rank(q, T, a) = Cardinality(prior(a))
    BY DEF Rank
<1>4. Rank(q, T, a) \in 0 .. Cardinality(T) - 1
  <2>1. prior(a) \subseteq T
      OBVIOUS
  <2> HIDE DEF prior
  <2> QED BY <1>1, <1>2, <1>3, <2>1
<1>5. ASSUME NEW b \in T, Before(q, a, b)
      PROVE  Rank(q, T, a) < Rank(q, T, b)
  <2>1. prior(b) \in SUBSET T /\ a \in prior(b)
      BY <1>5
  <2>2. prior(a) \subseteq prior(b)
      BY <1>5, Ordered
  <2>3. Rank(q, T, b) = Cardinality(prior(b))
      BY DEF Rank
  <2> HIDE DEF prior
  <2> QED BY <1>2, <1>3, <2>1, <2>2, <2>3
<1> QED BY <1>4, <1>5

\* Sorted lists each car at the place its rank gives it.
LEMMA SortedFact ==
    ASSUME NEW q, Query(q), NEW T, Fleet(T)
    PROVE  /\ Sorted(q, T) \in Seq(T) /\ Len(Sorted(q, T)) = Cardinality(T)
           /\ \A i \in 1 .. Cardinality(T) :
                 Sorted(q, T)[i] \in T /\ Rank(q, T, Sorted(q, T)[i]) = i - 1
           /\ \A c \in T : Sorted(q, T)[Rank(q, T, c) + 1] = c
<1> DEFINE n == Cardinality(T)
           rank == [c \in T |-> Rank(q, T, c)]
<1>1. n \in Nat /\ IsFiniteSet(T)
    BY PartOfFleet DEF Fleet
<1>2. \A c \in T : Rank(q, T, c) \in 0 .. n - 1
    BY RankFact
<1>3. \A c, d \in T : Rank(q, T, c) = Rank(q, T, d) => c = d
  <2> SUFFICES ASSUME NEW c \in T, NEW d \in T, Rank(q, T, c) = Rank(q, T, d), c # d
               PROVE  FALSE
      OBVIOUS
  <2>1. Before(q, c, d) \/ Before(q, d, c)
      BY Ordered
  <2>2. Rank(q, T, c) < Rank(q, T, d) \/ Rank(q, T, d) < Rank(q, T, c)
      BY <2>1, RankFact
  <2> QED BY <1>1, <1>2, <2>2
<1>4. \A i \in 0 .. n - 1 : \E c \in T : Rank(q, T, c) = i
  <2>1. rank \in Injection(T, 0 .. n - 1)
      BY <1>2, <1>3 DEF Injection, IsInjective
  <2>2. IsFiniteSet(0 .. n - 1) /\ Cardinality(0 .. n - 1) = n
      BY <1>1, FS_Interval
  <2>3. rank \in Surjection(T, 0 .. n - 1)
    <3> HIDE DEF rank, n
    <3> QED BY <2>1, <2>2, FS_Injection DEF n
  <2> QED BY <2>3 DEF Surjection
<1>5. \A i \in 1 .. n : \E c \in T : Rank(q, T, c) = i - 1
    BY <1>1, <1>4
<1>6. Sorted(q, T) = [i \in 1 .. n |-> CHOOSE c \in T : Rank(q, T, c) = i - 1]
    BY DEF Sorted
<1>7. \A i \in 1 .. n : Sorted(q, T)[i] \in T /\ Rank(q, T, Sorted(q, T)[i]) = i - 1
  <2> HIDE DEF n
  <2> TAKE i \in 1 .. n
  <2>1. Sorted(q, T)[i] = CHOOSE c \in T : Rank(q, T, c) = i - 1
      BY <1>6
  <2>2. \E c \in T : Rank(q, T, c) = i - 1
      BY <1>5
  <2> QED BY <2>1, <2>2, Zenon
<1>8. Sorted(q, T) \in Seq(T) /\ Len(Sorted(q, T)) = n
  <2> HIDE DEF n
  <2>1. Sorted(q, T) \in [1 .. n -> T]
      BY <1>6, <1>7
  <2> QED BY <1>1, <2>1
<1>9. ASSUME NEW c \in T
      PROVE  Sorted(q, T)[Rank(q, T, c) + 1] = c
  <2>1. Rank(q, T, c) + 1 \in 1 .. n /\ (Rank(q, T, c) + 1) - 1 = Rank(q, T, c)
      BY <1>1, <1>2
  <2> HIDE DEF n
  <2> QED BY <1>3, <1>7, <2>1
<1> QED BY <1>7, <1>8, <1>9

\* Two sorted sets have the same head, if no car that one of them lacks comes
\* before a car of that head.
LEMMA SameHead ==
    ASSUME NEW q, Query(q), NEW T, Fleet(T), NEW S \in SUBSET T, NEW m \in 0 .. Cardinality(S),
           \A c \in S, d \in T : Rank(q, S, c) < m /\ Before(q, d, c) => d \in S
    PROVE  \A i \in 1 .. m : Sorted(q, S)[i] = Sorted(q, T)[i]
<1> TAKE i \in 1 .. m
<1>1. Fleet(S) /\ Cardinality(S) \in Nat
    BY PartOfFleet
<1> DEFINE c == Sorted(q, S)[i]
<1>2. c \in S /\ Rank(q, S, c) = i - 1
    BY <1>1, SortedFact
<1>3. {d \in S : Before(q, d, c)} = {d \in T : Before(q, d, c)}
    BY <1>1, <1>2
<1>4. Rank(q, T, c) = i - 1
    BY <1>2, <1>3 DEF Rank
<1>5. Sorted(q, T)[(i - 1) + 1] = c
    BY <1>2, <1>4, SortedFact
<1> QED BY <1>5

\* A page and how long it is.
LEMMA PageIs ==
    ASSUME NEW q, Query(q), NEW T, Fleet(T)
    PROVE  LET skipped == q.page * PageSize
               n       == Cardinality(T)
               page    == PageOf(q, Sorted(q, T))
           IN  /\ skipped \in Nat /\ Need(q) = PageSize + skipped
               /\ page \in Seq(T)
               /\ Len(page) = IF n <= skipped THEN 0
                              ELSE IF n <= Need(q) THEN n - skipped ELSE PageSize
               /\ \A i \in 1 .. Len(page) : page[i] = Sorted(q, T)[skipped + i]
<1> DEFINE skipped == q.page * PageSize
           n == Cardinality(T)
           s == Sorted(q, T)
           m == IF n <= Need(q) THEN n ELSE Need(q)
<1>1. skipped \in Nat /\ Need(q) = PageSize + skipped /\ n \in Nat /\ PageSize \in Nat \ {0}
  <2>1. q.page \in Nat /\ PageSize \in Nat \ {0}
      BY SearchAssumption DEF Query
  <2>2. skipped \in Nat
      BY <2>1, ProductGrows
  <2> QED BY <2>1, <2>2, PartOfFleet DEF Need
<1>2. s \in Seq(T) /\ Len(s) = n
    BY SortedFact
<1> HIDE DEF skipped, n, s
<1>3. Min({Need(q), n}) = m
    BY <1>1 DEF Min
<1>4. PageOf(q, s) = SubSeq(s, skipped + 1, m)
    BY <1>2, <1>3 DEF PageOf, skipped
<1>5. m \in Nat /\ m <= n
    BY <1>1
<1>6. SubSeq(s, skipped + 1, m) \in Seq(T)
  <2>1. \A i \in skipped + 1 .. m : s[i] \in T
      BY <1>1, <1>2, <1>5
  <2> QED BY <1>1, <1>5, <2>1
<1>7. Len(SubSeq(s, skipped + 1, m)) = IF n <= skipped THEN 0 ELSE m - skipped
    BY <1>1, <1>2, <1>5
<1>8. \A i \in 1 .. Len(SubSeq(s, skipped + 1, m)) :
         SubSeq(s, skipped + 1, m)[i] = s[skipped + i]
    BY <1>1, <1>2, <1>5, <1>7
<1> DEFINE page == PageOf(q, s)
<1>9. /\ page \in Seq(T)
      /\ Len(page) = IF n <= skipped THEN 0
                     ELSE IF n <= Need(q) THEN n - skipped ELSE PageSize
      /\ \A i \in 1 .. Len(page) : page[i] = s[skipped + i]
  <2>1. (IF n <= skipped THEN 0 ELSE m - skipped)
        = IF n <= skipped THEN 0 ELSE IF n <= Need(q) THEN n - skipped ELSE PageSize
      BY <1>1
  <2> HIDE DEF m
  <2> QED BY <2>1, <1>4, <1>6, <1>7, <1>8
<1> HIDE DEF page
<1> QED BY <1>1, <1>9, Zenon DEF skipped, n, s, page

-----------------------------------------------------------------------------
(* The grid *)

LEMMA Cancels ==
    ASSUME NEW u \in Int, NEW v \in Int, NEW k \in Nat \ {0}, u * k < v * k
    PROVE  u < v
<1> SUFFICES ASSUME v <= u PROVE FALSE
    OBVIOUS
<1>1. (u - v) * k \in Nat
    BY ProductGrows
<1>2. (u - v) * k = u * k - v * k
    OBVIOUS
<1>3. u * k \in Int /\ v * k \in Int
    OBVIOUS
<1> QED BY <1>1, <1>2, <1>3

LEMMA DivFact ==
    ASSUME NEW a \in Int, NEW k \in Nat \ {0}
    PROVE  /\ a \div k \in Int
           /\ (a \div k) * k <= a /\ a < (a \div k + 1) * k
<1>1. a \div k \in Int /\ a % k \in 0 .. k - 1 /\ a = (a \div k) * k + (a % k)
    OBVIOUS
<1>2. (a \div k + 1) * k = (a \div k) * k + k /\ (a \div k) * k \in Int
    BY <1>1
<1> QED BY <1>1, <1>2

\* The quotients of a and b are between those of anything between.
LEMMA DivBetween ==
    ASSUME NEW a \in Int, NEW b \in Int, NEW k \in Nat \ {0}, NEW x \in Int,
           a < (x + 1) * k, x * k <= b
    PROVE  x \in a \div k .. b \div k
<1>1. (a \div k) * k < (x + 1) * k
  <2>1. (a \div k) * k \in Int /\ (x + 1) * k \in Int
      BY DivFact
  <2> QED BY <2>1, DivFact
<1>2. x * k < (b \div k + 1) * k
  <2>1. (b \div k + 1) * k \in Int /\ x * k \in Int
      BY DivFact
  <2> QED BY <2>1, DivFact
<1>3. a \div k < x + 1
    BY <1>1, DivFact, Cancels
<1>4. x < b \div k + 1
    BY <1>2, DivFact, Cancels
<1> QED BY <1>3, <1>4, DivFact

LEMMA SquareWithin ==
    ASSUME NEW a \in Int, NEW b \in Nat, Square(a) <= Square(b)
    PROVE  a <= b /\ -a <= b
<1> SUFFICES ASSUME NEW c \in Nat, c = a \/ c = -a, b < c PROVE FALSE
    OBVIOUS
<1>1. Square(c) = Square(a)
    BY SquareFact
<1>2. Square(b + 1) <= Square(c)
    BY SquareGrows
<1>3. Square(b + 1) = Square(b) + 2 * b + 1
    BY DEF Square
<1> QED BY <1>1, <1>2, <1>3, SquareFact

\* A cell is no farther than what is in it.
LEMMA CellIsNear ==
    ASSUME NEW q, Query(q), NEW lat \in Int, NEW lng \in Int
    PROVE  /\ MinDist(q, CellOf(lat, lng)) \in Nat
           /\ MinDist(q, CellOf(lat, lng)) <= Distance(q, lat, lng)
<1>1. ASSUME NEW v \in Int, NEW o \in Int, NEW k \in Nat
      PROVE  LET low == (v \div CellSize) * CellSize
                 gap == AxisGap(o, low, low + CellSize)
             IN  /\ Square(k * gap) \in Nat
                 /\ Square(k * gap) <= Square(k * (v - o))
  <2> DEFINE low == (v \div CellSize) * CellSize
             gap == AxisGap(o, low, low + CellSize)
  <2>1. low \in Int /\ CellSize \in Nat /\ low <= v /\ v < low + CellSize
    <3>1. CellSize \in Nat \ {0} /\ v \div CellSize \in Int
        BY DivFact, SearchAssumption
    <3>2. (v \div CellSize + 1) * CellSize = low + CellSize /\ low \in Int
        BY <3>1
    <3> QED BY <3>1, <3>2, DivFact
  <2> HIDE DEF low
  <2>2. gap \in Nat /\ (gap <= v - o \/ gap <= o - v)
      BY <2>1 DEF AxisGap
  <2> HIDE DEF gap
  <2>3. k * gap \in Nat /\ k * (v - o) \in Int
      BY <2>2
  <2>4. k * (o - v) = -(k * (v - o))
      OBVIOUS
  <2>5. k * gap <= k * (v - o) \/ k * gap <= -(k * (v - o))
      BY <2>2, <2>4, ProductGrows
  <2>6. Square(k * gap) \in Nat /\ Square(k * gap) <= Square(k * (v - o))
      BY <2>3, <2>5, SquareFact, SquareGrows
  <2> QED BY <2>6 DEF gap, low
<1> DEFINE y == (lat \div CellSize) * CellSize
           x == (lng \div CellSize) * CellSize
           dy == CosDen * AxisGap(q.lat, y, y + CellSize)
           dx == CosNum * AxisGap(q.lng, x, x + CellSize)
<1>2. Square(dy) \in Nat /\ Square(dy) <= Square(CosDen * (lat - q.lat))
    BY <1>1, SearchAssumption DEF Query
<1>3. Square(dx) \in Nat /\ Square(dx) <= Square(CosNum * (lng - q.lng))
    BY <1>1, SearchAssumption DEF Query
<1>4. CosDen * (lat - q.lat) \in Int /\ CosNum * (lng - q.lng) \in Int
    BY SearchAssumption DEF Query
<1>5. Square(CosDen * (lat - q.lat)) \in Nat /\ Square(CosNum * (lng - q.lng)) \in Nat
    BY <1>4, SquareFact
<1>6. MinDist(q, CellOf(lat, lng)) = Square(dy) + Square(dx)
    BY DEF MinDist, CellOf
<1> HIDE DEF dy, dx
<1> QED BY <1>2, <1>3, <1>5, <1>6 DEF Distance

\* What is in range is in a cell that is searched.
LEMMA InCells ==
    ASSUME NEW q, Query(q), NEW T, Fleet(T), NEW c \in InRange(q, T)
    PROVE  CellOf(c.lat, c.lng) \in SearchCells(q, T)
<1>1. /\ c \in T /\ c.lat \in Int /\ c.lng \in Int
      /\ q.lat \in Int /\ q.lng \in Int /\ q.range \in Nat
    BY DEF InRange, Fleet, Query
<1>2. CosDen \in Nat \ {0} /\ CosNum \in Nat \ {0} /\ CellSize \in Nat \ {0}
    BY SearchAssumption
<1> DEFINE ns == CosDen * (c.lat - q.lat)
           ew == CosNum * (c.lng - q.lng)
           reach == CosDen * q.range
<1>3. ns \in Int /\ ew \in Int /\ reach \in Nat
    BY <1>1, <1>2
<1>4. Square(ns) + Square(ew) <= Square(reach)
    BY DEF InRange, CarDistance, Distance, RangeOf
<1>5. ns <= reach /\ -ns <= reach /\ ew <= reach /\ -ew <= reach
  <2> HIDE DEF ns, ew, reach
  <2>1. Square(ns) <= Square(reach) /\ Square(ew) <= Square(reach)
      BY <1>3, <1>4, SquareFact
  <2> QED BY <1>3, <2>1, SquareWithin
<1>6. c.lat - q.lat <= q.range /\ q.lat - c.lat <= q.range
  <2>1. ASSUME NEW d \in Int, CosDen * d <= CosDen * q.range PROVE d <= q.range
    <3> SUFFICES ASSUME q.range < d PROVE FALSE
        BY <1>1
    <3>1. (d - q.range - 1) * CosDen \in Nat
        BY <1>1, <1>2, ProductGrows
    <3>2. (d - q.range - 1) * CosDen = CosDen * d - CosDen * q.range - CosDen
        BY <1>1, <1>2
    <3> QED BY <1>1, <1>2, <2>1, <3>1, <3>2
  <2>2. CosDen * (q.lat - c.lat) = -ns
      BY <1>1, <1>2
  <2> QED BY <1>1, <1>5, <2>1, <2>2
<1> DEFINE y == c.lat \div CellSize
           x == c.lng \div CellSize
           span == q.range * CosDen
           K == CellSize * CosNum
<1>7. /\ y \in Int /\ y * CellSize <= c.lat /\ c.lat < (y + 1) * CellSize
      /\ x \in Int /\ x * CellSize <= c.lng /\ c.lng < (x + 1) * CellSize
    BY <1>1, <1>2, DivFact
<1>8. y \in (q.lat - q.range) \div CellSize .. (q.lat + q.range) \div CellSize
  <2> HIDE DEF y
  <2>1. y * CellSize \in Int /\ (y + 1) * CellSize \in Int
      BY <1>2, <1>7
  <2>2. q.lat - q.range < (y + 1) * CellSize /\ y * CellSize <= q.lat + q.range
      BY <1>1, <1>6, <1>7, <2>1
  <2> DEFINE low  == q.lat - q.range
             high == q.lat + q.range
  <2>3. low \in Int /\ high \in Int
      BY <1>1
  <2> HIDE DEF low, high
  <2>4. y \in low \div CellSize .. high \div CellSize
    <3>1. low < (y + 1) * CellSize /\ y * CellSize <= high
        BY <2>2 DEF low, high
    <3> QED BY <1>2, <1>7, <2>3, <3>1, DivBetween
  <2> QED BY <2>4 DEF low, high
<1>9. x \in (q.lng * CosNum - span) \div K .. (q.lng * CosNum + span) \div K
  <2>1. K \in Nat \ {0} /\ span = reach /\ span \in Nat
      BY <1>1, <1>2
  <2>2. q.lng * CosNum \in Int /\ c.lng * CosNum \in Int /\ c.lng * CosNum - q.lng * CosNum = ew
      BY <1>1, <1>2
  <2>3. x * K <= c.lng * CosNum
    <3>1. (c.lng - x * CellSize) * CosNum \in Nat
        BY <1>1, <1>2, <1>7, ProductGrows
    <3>2. (c.lng - x * CellSize) * CosNum = c.lng * CosNum - x * K
      <4> HIDE DEF x
      <4> QED BY <1>1, <1>2, <1>7
    <3> HIDE DEF x, K
    <3> QED BY <1>7, <2>1, <2>2, <3>1, <3>2
  <2>4. c.lng * CosNum < (x + 1) * K
    <3> HIDE DEF x
    <3>1. ((x + 1) * CellSize - c.lng - 1) * CosNum \in Nat
        BY <1>1, <1>2, <1>7, ProductGrows
    <3>2. ((x + 1) * CellSize - c.lng - 1) * CosNum = (x + 1) * K - c.lng * CosNum - CosNum
        BY <1>1, <1>2, <1>7
    <3> HIDE DEF K
    <3> QED BY <1>2, <1>7, <2>1, <2>2, <3>1, <3>2
  <2> HIDE DEF x, K, span, ew, reach
  <2>5. x * K \in Int /\ (x + 1) * K \in Int
      BY <1>7, <2>1
  <2>6. q.lng * CosNum - span < (x + 1) * K /\ x * K <= q.lng * CosNum + span
      BY <1>3, <1>5, <2>1, <2>2, <2>3, <2>4, <2>5
  <2> DEFINE low  == q.lng * CosNum - span
             high == q.lng * CosNum + span
  <2>7. low \in Int /\ high \in Int
      BY <2>1, <2>2
  <2> HIDE DEF low, high
  <2>8. x \in low \div K .. high \div K
    <3>1. low < (x + 1) * K /\ x * K <= high
        BY <2>6 DEF low, high
    <3> QED BY <1>7, <2>1, <2>7, <3>1, DivBetween
  <2> QED BY <2>8 DEF low, high
<1>10. MinDist(q, CellOf(c.lat, c.lng)) <= RangeOf(q)
  <2>1. RangeOf(q) \in Nat /\ Distance(q, c.lat, c.lng) <= RangeOf(q)
    <3>1. RangeOf(q) \in Nat
        BY <1>3, SquareFact DEF RangeOf
    <3> QED BY <3>1 DEF InRange, CarDistance
  <2> QED BY <1>1, <2>1, CellIsNear, DistanceFact
<1>11. CellOf(c.lat, c.lng) = <<y, x>>
    BY DEF CellOf
<1> HIDE DEF y, x
<1> QED BY <1>1, <1>8, <1>9, <1>10, <1>11 DEF SearchCells

-----------------------------------------------------------------------------
(* The walk *)

LEMMA MinFact ==
    ASSUME NEW S \in SUBSET Nat, S # {}
    PROVE  Min(S) \in S /\ \A x \in S : Min(S) <= x
<1>1. PICK n \in S : \A k \in S : ~(<<k, n>> \in OpToRel(<, Nat))
    BY NatLessThanWellFounded, WFMin
<1>2. \A k \in S : ~(k < n)
    BY <1>1 DEF OpToRel
<1>3. \A k \in S : n <= k
    BY <1>2
<1> QED BY <1>3 DEF Min

\* Whatever the order of the cells, each is in it, nearer ones first.
LEMMA OrderFact ==
    ASSUME NEW q, NEW T, Fleet(T), NEW order \in CellOrders(q, T)
    PROVE  /\ Len(order) \in Nat /\ DOMAIN order = 1 .. Len(order)
           /\ \A i \in 1 .. Len(order) : order[i] \in SearchCells(q, T)
           /\ \A cell \in SearchCells(q, T) : \E i \in 1 .. Len(order) : order[i] = cell
           /\ \A i, j \in 1 .. Len(order) : i < j => MinDist(q, order[i]) <= MinDist(q, order[j])
<1> DEFINE C == SearchCells(q, T)
           all == {CellOf(c.lat, c.lng) : c \in T}
           f == [c \in T |-> CellOf(c.lat, c.lng)]
           k == Cardinality(C)
<1>1. IsFiniteSet(C)
  <2>1. f \in Surjection(T, all)
      BY DEF Surjection
  <2>2. IsFiniteSet(all)
    <3> HIDE DEF f, all
    <3> QED BY <2>1, FS_Surjection DEF Fleet
  <2>3. C \subseteq all
      BY DEF SearchCells
  <2> HIDE DEF C, all
  <2> QED BY <2>2, <2>3, FS_Subset
<1> HIDE DEF C
<1>2. k \in Nat
    BY <1>1, FS_CardinalityType
<1>3. /\ order \in [1 .. k -> C]
      /\ \A i, j \in 1 .. k : i # j => order[i] # order[j]
      /\ \A i, j \in DOMAIN order : i < j => MinDist(q, order[i]) <= MinDist(q, order[j])
    BY DEF CellOrders, SetToSeqs, C
<1> HIDE DEF k
<1>4. Len(order) = k /\ DOMAIN order = 1 .. k
    BY <1>2, <1>3
<1>5. order \in Surjection(1 .. k, C)
  <2>1. order \in Injection(1 .. k, C)
      BY <1>3 DEF Injection, IsInjective
  <2>2. Cardinality(1 .. k) = k
      BY <1>2, FS_Interval
  <2> QED BY <1>1, <2>1, <2>2, FS_Injection DEF k
<1>6. \A cell \in C : \E i \in 1 .. k : order[i] = cell
    BY <1>5 DEF Surjection
<1> QED BY <1>2, <1>3, <1>4, <1>6 DEF C

\* The walk goes to the end, or stops where the page is full of nearer cars.
LEMMA StopFact ==
    ASSUME NEW q, NEW T, Fleet(T), NEW order \in CellOrders(q, T)
    PROVE  LET n == Stop(q, T, order) IN
           \/ n = Len(order) + 1
           \/ n \in 1 .. Len(order) /\ Enough(q, Found(q, T, order, n), order[n])
<1> DEFINE S == {n \in DOMAIN order : Enough(q, Found(q, T, order, n), order[n])}
                \cup {Len(order) + 1}
<1>1. S \in SUBSET Nat /\ S # {}
    BY OrderFact
<1>2. Min(S) \in S
  <2> HIDE DEF S
  <2> QED BY <1>1, MinFact
<1>3. Stop(q, T, order) = Min(S)
    BY DEF Stop
<1>4. DOMAIN order = 1 .. Len(order)
    BY OrderFact
<1> PICK n : n = Stop(q, T, order)
    OBVIOUS
<1>5. n \in S
    BY <1>2, <1>3
<1> QED BY <1>4, <1>5

\* What is found is what matches, but for cars of the cells not walked.
LEMMA FoundFact ==
    ASSUME NEW q, Query(q), NEW T, Fleet(T), NEW order \in CellOrders(q, T),
           NEW n \in 1 .. Len(order) + 1
    PROVE  /\ Found(q, T, order, n) \subseteq Matches(q, T)
           /\ \A c \in Matches(q, T) :
                 \/ c \in Found(q, T, order, n)
                 \/ \E i \in n .. Len(order) : CellOf(c.lat, c.lng) = order[i]
<1>1. Found(q, T, order, n) \subseteq Matches(q, T)
    BY DEF Found, Matches, InRange
<1>2. ASSUME NEW c \in Matches(q, T)
      PROVE  \/ c \in Found(q, T, order, n)
             \/ \E i \in n .. Len(order) : CellOf(c.lat, c.lng) = order[i]
  <2>1. c \in InRange(q, T) /\ c.free /\ c \in T /\ CarDistance(q, c) <= RangeOf(q)
      BY DEF Matches, InRange
  <2>2. PICK i \in 1 .. Len(order) : order[i] = CellOf(c.lat, c.lng)
      BY <2>1, InCells, OrderFact
  <2>3. CASE i < n
    <3>1. i \in 1 .. n - 1
        BY <2>3, OrderFact
    <3> QED BY <2>1, <2>2, <3>1 DEF Found, Matches, InRange
  <2>4. CASE ~(i < n)
    <3>1. i \in n .. Len(order)
        BY <2>4, OrderFact
    <3> QED BY <2>2, <3>1
  <2> QED BY <2>3, <2>4
<1> QED BY <1>1, <1>2

\* The page of a walk is the page of a scan.
LEMMA WalkIsScan ==
    ASSUME NEW q, Query(q), NEW T, Fleet(T), NEW order \in CellOrders(q, T)
    PROVE  Availability(q, T, order) = ScanPage(q, T)
<1> DEFINE n == Stop(q, T, order)
           S == Found(q, T, order, n)
           M == Matches(q, T)
<1>1. Len(order) \in Nat /\ n \in 1 .. Len(order) + 1
  <2>1. Len(order) \in Nat
      BY OrderFact
  <2> QED BY <2>1, StopFact
<1>2. Availability(q, T, order) = PageOf(q, Sorted(q, S)) /\ ScanPage(q, T) = PageOf(q, Sorted(q, M))
    BY DEF Availability, ScanPage
<1>3. S \in SUBSET M /\ \A c \in M \ S : \E i \in n .. Len(order) : CellOf(c.lat, c.lng) = order[i]
    BY <1>1, FoundFact
<1>4. Fleet(M) /\ Fleet(S)
  <2>1. M \in SUBSET T
      BY DEF Matches, InRange
  <2> HIDE DEF S, M
  <2> QED BY <1>3, <2>1, PartOfFleet
<1>5. CASE n = Len(order) + 1
  <2>1. S = M
    <3> HIDE DEF S, M, n
    <3> QED BY <1>1, <1>3, <1>5
  <2> QED BY <1>2, <2>1, Zenon
<1>6. CASE n \in 1 .. Len(order) /\ Enough(q, S, order[n])
  <2> HIDE DEF n, S, M
  <2> DEFINE m == Need(q)
             last == Sorted(q, S)[m]
  <2>1. /\ q.sort = "distance" /\ Cardinality(S) >= m
        /\ MinDist(q, order[n]) > CarDistance(q, last)
      BY <1>6 DEF Enough
  <2>2. m \in Nat \ {0} /\ Cardinality(S) \in Nat /\ Cardinality(S) <= Cardinality(M)
        /\ Cardinality(M) \in Nat
    <3>1. m \in Nat \ {0}
        BY <1>4, PageIs, SearchAssumption
    <3> QED BY <1>3, <1>4, <3>1, PartOfFleet
  <2> HIDE DEF m
  <2>3. last \in S /\ last \in M /\ Rank(q, S, last) = m - 1
      BY <1>3, <1>4, <2>1, <2>2, SortedFact
  <2> HIDE DEF last
  <2>4. ASSUME NEW d \in M \ S
        PROVE  Before(q, last, d)
    <3>1. PICK i \in n .. Len(order) : CellOf(d.lat, d.lng) = order[i]
        BY <1>3
    <3>2. d.lat \in Int /\ d.lng \in Int /\ CarDistance(q, d) = Distance(q, d.lat, d.lng)
        BY <1>4 DEF Fleet, CarDistance
    <3>3. MinDist(q, order[i]) \in Nat /\ MinDist(q, order[i]) <= CarDistance(q, d)
          /\ CarDistance(q, d) \in Nat
        BY <3>1, <3>2, CellIsNear, DistanceFact
    <3>4. MinDist(q, order[n]) <= MinDist(q, order[i])
      <4>1. CASE i = n
          BY <3>3, <4>1
      <4>2. CASE i # n
          BY <1>1, <1>6, <3>1, <4>2, OrderFact
      <4> QED BY <4>1, <4>2
    <3>5. CarDistance(q, last) \in Nat
        BY <1>4, <2>3, DistanceFact DEF Fleet, CarDistance
    <3>6. CarDistance(q, last) < CarDistance(q, d)
      <4>1. MinDist(q, order[n]) \in Int
        <5>1. order[n] \in SearchCells(q, T)
            BY <1>6, OrderFact
        <5>2. PICK c \in T : order[n] = CellOf(c.lat, c.lng)
            BY <5>1 DEF SearchCells
        <5> QED BY <5>2, CellIsNear DEF Fleet
      <4> QED BY <2>1, <3>3, <3>4, <3>5, <4>1
    <3> QED BY <2>1, <3>6 DEF Before, ByDistance
  <2>5. ASSUME NEW c \in S, NEW d \in M, Rank(q, S, c) < m, Before(q, d, c)
        PROVE  d \in S
    <3> SUFFICES ASSUME d \notin S PROVE FALSE
        OBVIOUS
    <3>1. Before(q, last, d)
        BY <2>4
    <3>2. c = last \/ Before(q, c, last)
      <4>1. ~Before(q, last, c)
        <5>1. Before(q, last, c) => m - 1 < Rank(q, S, c)
            BY <1>4, <2>3, RankFact
        <5>2. Rank(q, S, c) \in Int
            BY <1>4, <2>2, RankFact
        <5> QED BY <2>2, <2>5, <5>1, <5>2
      <4> QED BY <1>4, <2>3, <4>1, Ordered
    <3>3. Before(q, c, d)
        BY <1>3, <1>4, <2>3, <3>1, <3>2, Ordered
    <3> QED BY <1>3, <1>4, <2>5, <3>3, Ordered
  <2>6. \A i \in 1 .. m : Sorted(q, S)[i] = Sorted(q, M)[i]
      BY <1>3, <1>4, <2>1, <2>2, <2>5, SameHead
  <2> DEFINE p == PageOf(q, Sorted(q, S))
             r == PageOf(q, Sorted(q, M))
  <2>7. /\ q.page * PageSize \in Nat /\ m = PageSize + q.page * PageSize
        /\ p \in Seq(S) /\ r \in Seq(M)
        /\ \A i \in 1 .. Len(p) : p[i] = Sorted(q, S)[q.page * PageSize + i]
        /\ \A i \in 1 .. Len(r) : r[i] = Sorted(q, M)[q.page * PageSize + i]
      BY <1>4, PageIs DEF m
  <2>8. Len(p) = PageSize /\ Len(r) = PageSize
    <3>1. Len(p) = IF Cardinality(S) <= q.page * PageSize THEN 0
                   ELSE IF Cardinality(S) <= m THEN Cardinality(S) - q.page * PageSize ELSE PageSize
        BY <1>4, PageIs DEF m
    <3>2. Len(r) = IF Cardinality(M) <= q.page * PageSize THEN 0
                   ELSE IF Cardinality(M) <= m THEN Cardinality(M) - q.page * PageSize ELSE PageSize
        BY <1>4, PageIs DEF m
    <3> HIDE DEF p, r
    <3> QED BY <2>1, <2>2, <2>7, <3>1, <3>2, SearchAssumption
  <2>9. \A i \in 1 .. PageSize : p[i] = r[i]
    <3> HIDE DEF p, r
    <3> TAKE i \in 1 .. PageSize
    <3>1. q.page * PageSize + i \in 1 .. m
        BY <2>7, SearchAssumption
    <3> QED BY <2>6, <2>7, <2>8, <3>1
  <2>10. p = r
    <3> HIDE DEF p, r
    <3> QED BY <2>7, <2>8, <2>9
  <2> QED BY <1>2, <2>10
<1>7. n = Len(order) + 1 \/ (n \in 1 .. Len(order) /\ Enough(q, S, order[n]))
    BY StopFact
<1> QED BY <1>5, <1>6, <1>7

-----------------------------------------------------------------------------
(* Totals *)

\* The cars counted are those that match.
LEMMA CountIs ==
    ASSUME NEW q, Query(q), NEW T, Fleet(T)
    PROVE  LET n == Cardinality(Matches(q, T))
           IN  /\ n \in Nat /\ CountCap \in Nat
               /\ AvailabilityCount(q, T) = IF CountCap <= n THEN CountCap ELSE n
<1> DEFINE C == {c \in T : CellOf(c.lat, c.lng) \in SearchCells(q, T)}
           n == Cardinality(Matches(q, T))
<1>1. Matches(q, C) = Matches(q, T)
  <2>1. ASSUME NEW c \in Matches(q, T) PROVE c \in C
      BY InCells DEF Matches, InRange
  <2> QED BY <2>1 DEF Matches, InRange
<1>2. n \in Nat
  <2>1. Matches(q, T) \in SUBSET T
      BY DEF Matches, InRange
  <2> QED BY <2>1, PartOfFleet
<1>3. CountCap \in Nat
  <2>1. PageSize * MaxPages \in Nat
      BY SearchAssumption, ProductGrows
  <2> QED BY <2>1 DEF CountCap
<1>4. AvailabilityCount(q, T) = Min({CountCap, n})
    BY <1>1 DEF AvailabilityCount
<1> HIDE DEF n
<1>5. Min({CountCap, n}) = IF CountCap <= n THEN CountCap ELSE n
    BY <1>2, <1>3 DEF Min
<1> QED BY <1>2, <1>3, <1>4, <1>5 DEF n

\* A short page and a count tell the same total.
LEMMA TotalIs ==
    ASSUME NEW q, Query(q), NEW T, Fleet(T), NEW order \in CellOrders(q, T),
           q.page * PageSize <= Cardinality(Matches(q, T))
    PROVE  LET answer  == Answer(q, T, order)
               matches == Cardinality(Matches(q, T))
           IN  /\ answer.total = Min({matches, PageSize * MaxPages})
               /\ answer.capped = (matches > PageSize * MaxPages)
<1> DEFINE M == Matches(q, T)
           n == Cardinality(M)
           most == PageSize * MaxPages
           results == Availability(q, T, order)
           skipped == q.page * PageSize
           counted == AvailabilityCount(q, T)
<1>1. n \in Nat /\ most \in Nat /\ CountCap = most + 1 /\ PageSize \in Nat \ {0}
      /\ counted = IF CountCap <= n THEN CountCap ELSE n
    BY CountIs, SearchAssumption, ProductGrows DEF CountCap
<1>2. skipped \in Nat /\ skipped + PageSize <= most
  <2>1. q.page \in Nat /\ q.page + 1 \in Nat /\ q.page + 1 <= MaxPages /\ MaxPages \in Nat
      BY SearchAssumption DEF Query
  <2>2. (q.page + 1) * PageSize <= MaxPages * PageSize /\ MaxPages * PageSize = most
      BY <1>1, <2>1, ProductGrows
  <2>3. (q.page + 1) * PageSize = skipped + PageSize /\ skipped \in Nat
      BY <1>1, <2>1, ProductGrows
  <2> QED BY <2>2, <2>3
<1>3. Len(results) = IF n <= skipped THEN 0 ELSE IF n <= skipped + PageSize THEN n - skipped ELSE PageSize
  <2>1. results = PageOf(q, Sorted(q, M))
      BY WalkIsScan DEF ScanPage
  <2>2. Fleet(M)
    <3>1. M \in SUBSET T
        BY DEF Matches, InRange
    <3> QED BY <3>1, PartOfFleet
  <2> HIDE DEF M, results
  <2>3. Need(q) = skipped + PageSize
      BY <1>1, <1>2 DEF Need
  <2> QED BY <2>1, <2>2, <2>3, PageIs
<1>4. /\ Answer(q, T, order).total =
            IF Len(results) < PageSize THEN skipped + Len(results) ELSE Min({counted, CountCap - 1})
      /\ Answer(q, T, order).capped = IF Len(results) < PageSize THEN FALSE ELSE counted >= CountCap
    BY DEF Answer
<1>5. skipped <= n
    OBVIOUS
<1> HIDE DEF n, M, most, results, skipped, counted
<1>6. \A a, b \in Nat : Min({a, b}) = IF a <= b THEN a ELSE b
    BY DEF Min
<1>7. Answer(q, T, order).total = Min({n, most})
    BY <1>1, <1>2, <1>3, <1>4, <1>5, <1>6
<1>8. Answer(q, T, order).capped = (n > most)
  <2>1. CASE Len(results) < PageSize
    <3>1. ~(n > most)
        BY <1>1, <1>2, <1>3, <1>5, <2>1
    <3>2. (n > most) = FALSE
        BY <3>1
    <3>3. Answer(q, T, order).capped = FALSE
        BY <1>4, <2>1
    <3> QED BY <3>2, <3>3, Zenon
  <2>2. CASE ~(Len(results) < PageSize)
    <3>1. counted >= CountCap <=> n > most
        BY <1>1
    <3>2. (counted >= CountCap) = (n > most)
        BY <3>1
    <3>3. Answer(q, T, order).capped = (counted >= CountCap)
        BY <1>4, <2>2, Zenon
    <3> QED BY <3>2, <3>3, Zenon
  <2> QED BY <2>1, <2>2, Zenon
<1> QED BY <1>7, <1>8 DEF n, M, most

-----------------------------------------------------------------------------
(* The price search *)

\* The circle of the index loses no car that is in range.
LEMMA CircleIsRange ==
    ASSUME NEW q, Query(q), NEW T, Fleet(T)
    PROVE  Circle(q, T) = InRange(q, T)
<1> SUFFICES ASSUME NEW c \in InRange(q, T) PROVE InPaddedCircle(q, c)
    BY DEF Circle
<1>1. CosNum \in Nat /\ CosDen \in Nat /\ CosNum <= CosDen
    BY SearchAssumption
<1> DEFINE ns == c.lat - q.lat
           ew == c.lng - q.lng
<1>2. ns \in Int /\ ew \in Int
    BY DEF InRange, Fleet, Query
<1>3. Square(CosDen * ns) + Square(CosNum * ew) <= Square(CosDen * q.range)
    BY DEF InRange, CarDistance, Distance, RangeOf
<1> HIDE DEF ns, ew
<1>4. /\ Square(CosDen * ns) = Square(CosDen) * Square(ns)
      /\ Square(CosNum * ew) = Square(CosNum) * Square(ew)
    BY <1>1, <1>2 DEF Square
<1>5. Square(CosNum) * Square(ns) <= Square(CosDen) * Square(ns)
  <2>1. Square(CosNum) \in Nat /\ Square(CosDen) \in Nat /\ Square(ns) \in Nat
        /\ Square(CosNum) <= Square(CosDen)
      BY <1>1, <1>2, SquareFact, SquareGrows
  <2> QED BY <2>1, ProductGrows
<1>6. Square(CosNum) * (Square(ns) + Square(ew))
      = Square(CosNum) * Square(ns) + Square(CosNum) * Square(ew)
  <2>1. Square(CosNum) \in Int /\ Square(ew) \in Int /\ Square(ns) \in Int
      BY <1>1, <1>2, SquareFact
  <2> QED BY <2>1
<1>7. /\ Square(CosNum) * Square(ns) \in Int /\ Square(CosDen) * Square(ns) \in Int
      /\ Square(CosNum) * Square(ew) \in Int /\ Square(CosDen * q.range) \in Int
  <2>1. Square(CosNum) \in Int /\ Square(ew) \in Int /\ Square(ns) \in Int /\ Square(CosDen) \in Int
      BY <1>1, <1>2, SquareFact
  <2>2. CosDen * q.range \in Int
      BY <1>1 DEF Query
  <2> QED BY <2>1, <2>2, SquareFact
<1>8. Square(CosNum) * (Square(ns) + Square(ew)) <= Square(CosDen * q.range)
    BY <1>3, <1>4, <1>5, <1>6, <1>7
<1> QED BY <1>8 DEF InPaddedCircle, ns, ew

\* Candidates are cut in the order of the page, so that what is left of it is right.
LEMMA CandidatesAreFirst ==
    ASSUME NEW q, Query(q), NEW T, Fleet(T)
    PROVE  IsPrefix(SqlPricePage(q, T), ScanPage(q, T))
<1> DEFINE C == InRange(q, T)
           most == Need(q) * PriceCandidateFactor
           S == {c \in PriceCandidates(q, T) : c.free}
           M == Matches(q, T)
<1>1. Fleet(C) /\ Fleet(M) /\ Fleet(S) /\ S \in SUBSET M /\ M = {c \in C : c.free}
      /\ S = {c \in M : Rank(q, C, c) < most}
  <2>1. C \in SUBSET T /\ M = {c \in C : c.free} /\ Circle(q, T) = C
      BY CircleIsRange DEF Matches, InRange
  <2>2. S = {c \in M : Rank(q, C, c) < most}
      BY <2>1 DEF PriceCandidates
  <2>3. M \in SUBSET T /\ S \in SUBSET T /\ S \in SUBSET M
      BY <2>1, <2>2
  <2> HIDE DEF C, M, S
  <2> QED BY <2>1, <2>2, <2>3, PartOfFleet
<1>2. most \in Nat
  <2>1. Need(q) \in Nat
      BY <1>1, PageIs, SearchAssumption
  <2> QED BY <2>1, SearchAssumption, ProductGrows
<1> HIDE DEF C, most, S, M
<1>3. Cardinality(S) \in Nat /\ Cardinality(M) \in Nat /\ Cardinality(S) <= Cardinality(M)
      /\ Cardinality(C) \in Nat
    BY <1>1, PartOfFleet
<1>4. ASSUME NEW c \in S, NEW d \in M, Before(q, d, c)
      PROVE  d \in S
  <2>1. Rank(q, C, d) < Rank(q, C, c) /\ Rank(q, C, d) \in Int /\ Rank(q, C, c) \in Int
      BY <1>1, <1>3, <1>4, RankFact
  <2>2. Rank(q, C, c) < most
      BY <1>1
  <2>3. Rank(q, C, d) < most
      BY <1>2, <2>1, <2>2
  <2> QED BY <1>1, <2>3
<1>5. \A i \in 1 .. Cardinality(S) : Sorted(q, S)[i] = Sorted(q, M)[i]
    BY <1>1, <1>3, <1>4, SameHead
<1> DEFINE p == PageOf(q, Sorted(q, S))
           r == PageOf(q, Sorted(q, M))
           skipped == q.page * PageSize
           Size(n) == IF n <= skipped THEN 0
                      ELSE IF n <= Need(q) THEN n - skipped ELSE PageSize
<1>6. SqlPricePage(q, T) = p /\ ScanPage(q, T) = r
    BY DEF SqlPricePage, ScanPage, S, M
<1>7. /\ skipped \in Nat /\ Need(q) = PageSize + skipped
      /\ p \in Seq(S) /\ Len(p) = Size(Cardinality(S))
      /\ \A i \in 1 .. Len(p) : p[i] = Sorted(q, S)[skipped + i]
    BY <1>1, PageIs
<1>8. /\ r \in Seq(M) /\ Len(r) = Size(Cardinality(M))
      /\ \A i \in 1 .. Len(r) : r[i] = Sorted(q, M)[skipped + i]
    BY <1>1, PageIs
<1>9. PageSize \in Nat
    BY SearchAssumption
<1> HIDE DEF p, r, skipped
<1>10. Len(p) <= Len(r) /\ \A i \in 1 .. Len(p) : skipped + i \in 1 .. Cardinality(S)
    BY <1>3, <1>7, <1>8, <1>9
<1>11. \A i \in 1 .. Len(p) : p[i] = r[i]
    BY <1>5, <1>7, <1>8, <1>10
<1>12. SubSeq(p, 1, Len(p)) = SubSeq(r, 1, Len(p))
    BY <1>7, <1>8, <1>10, <1>11
<1> QED BY <1>6, <1>10, <1>12 DEF IsPrefix

-----------------------------------------------------------------------------
(* The calendar *)

\* Induction up to a bound, over a set rather than a predicate.
LEMMA CountUp ==
    ASSUME NEW top \in Nat, NEW S, 0 \in S, \A n \in 0 .. top - 1 : n \in S => n + 1 \in S
    PROVE  \A n \in 0 .. top : n \in S
<1> DEFINE T == {n \in 0 .. top : n \notin S}
<1> SUFFICES ASSUME T # {} PROVE FALSE
    OBVIOUS
<1>1. Min(T) \in T /\ \A n \in T : Min(T) <= n
    BY MinFact
<1> PICK n : n = Min(T)
    OBVIOUS
<1>2. n \in 0 .. top /\ n \notin S /\ n # 0 /\ \A k \in T : n <= k
    BY <1>1
<1>3. n - 1 \in 0 .. top - 1 /\ n - 1 \in 0 .. top /\ n - 1 \in S
    BY <1>2
<1> QED BY <1>2, <1>3

LastMonth == Years * MonthsOfYear - 1

LEMMA SizeFact ==
    /\ MonthsOfYear \in Nat \ {0} /\ DOMAIN MonthDays = 1 .. MonthsOfYear
    /\ Years \in Nat \ {0} /\ DayLen \in Nat \ {0} /\ WeekDays \in Nat \ {0}
    /\ LastMonth \in Nat /\ MonthsOfYear <= LastMonth + 1
    /\ Years * MonthsOfYear = LastMonth + 1 /\ AllMonths = 0 .. LastMonth + 1
<1>1. Len(MonthDays) \in Nat /\ DOMAIN MonthDays = 1 .. Len(MonthDays) /\ MonthDays # <<>>
    BY CalendarAssumption
<1>2. Cardinality(1 .. Len(MonthDays)) = Len(MonthDays)
    BY <1>1, FS_Interval
<1>3. MonthsOfYear = Len(MonthDays)
    BY <1>1, <1>2 DEF MonthsOfYear
<1>4. Len(MonthDays) # 0
    BY <1>1, CalendarAssumption
<1>5. 1 * MonthsOfYear <= Years * MonthsOfYear /\ Years * MonthsOfYear \in Nat
    BY <1>1, <1>3, ProductGrows, CalendarAssumption
<1> QED BY <1>1, <1>3, <1>4, <1>5, CalendarAssumption DEF LastMonth, AllMonths

\* A month has a day, and no fewer days than the one of the first year.
LEMMA DaysFact ==
    ASSUME NEW m \in Nat
    PROVE  /\ m % MonthsOfYear \in 0 .. MonthsOfYear - 1 /\ YearOf(m) \in Nat
           /\ DaysIn(m) \in Nat \ {0}
           /\ DaysIn(m % MonthsOfYear) \in Nat \ {0}
           /\ DaysIn(m % MonthsOfYear) <= DaysIn(m)
<1> DEFINE k == m % MonthsOfYear
<1>1. k \in 0 .. MonthsOfYear - 1 /\ m \div MonthsOfYear \in Nat
    BY SizeFact
<1> HIDE DEF k
<1>2. k % MonthsOfYear = k /\ k \div MonthsOfYear = 0
    BY <1>1, SizeFact
<1>3. k + 1 \in DOMAIN MonthDays
    BY <1>1, SizeFact
<1>4. MonthDays[k + 1] \in Nat \ {0}
    BY <1>3, CalendarAssumption
<1>5. DaysIn(k) = MonthDays[k + 1]
    BY <1>2, <1>4 DEF DaysIn, YearOf
<1>6. DaysIn(m) = MonthDays[k + 1] + (IF k + 1 = LeapMonth /\ YearOf(m) % 2 = 1 THEN 1 ELSE 0)
    BY DEF DaysIn, k
<1>7. DaysIn(m) \in {MonthDays[k + 1], MonthDays[k + 1] + 1}
    BY <1>4, <1>6
<1>8. DaysIn(k) \in Nat \ {0} /\ DaysIn(m) \in Nat \ {0} /\ DaysIn(k) <= DaysIn(m)
    BY <1>4, <1>5, <1>7
<1> QED BY <1>1, <1>8 DEF YearOf, k

LEMMA StartExists ==
    \E f : f = [month \in AllMonths |-> IF month = 0 THEN 0 ELSE f[month - 1] + DaysIn(month - 1)]
<1> DEFINE L == LastMonth + 1
           Run(k, f) == f = [n \in 0 .. k |-> IF n = 0 THEN 0 ELSE f[n - 1] + DaysIn(n - 1)]
           S == {k \in 0 .. L : \E f : Run(k, f)}
<1>1. 0 \in S
  <2> DEFINE f == [n \in 0 .. 0 |-> 0]
  <2>1. Run(0, f)
      OBVIOUS
  <2>2. \E x : Run(0, x)
      BY <2>1
  <2>3. 0 \in 0 .. L
      BY SizeFact
  <2> QED BY <2>2, <2>3
<1>2. ASSUME NEW k \in 0 .. L - 1, k \in S
      PROVE  k + 1 \in S
  <2>0. LastMonth \in Nat
      BY SizeFact
  <2>1. PICK f : Run(k, f)
      BY <1>2
  <2> DEFINE g == [n \in 0 .. k + 1 |-> IF n = k + 1 THEN f[k] + DaysIn(n - 1) ELSE f[n]]
             h == [n \in 0 .. k + 1 |-> IF n = 0 THEN 0 ELSE g[n - 1] + DaysIn(n - 1)]
  <2>2. ASSUME NEW n \in 0 .. k + 1 PROVE g[n] = h[n]
    <3>1. CASE n = k + 1
      <4>1. n # 0 /\ n - 1 = k /\ n - 1 # k + 1 /\ n - 1 \in 0 .. k + 1
          BY <3>1, <2>0
      <4>2. g[n - 1] = f[k]
          BY <4>1
      <4>3. h[n] = g[n - 1] + DaysIn(n - 1) /\ g[n] = f[k] + DaysIn(n - 1)
          BY <4>1, <3>1
      <4> QED BY <4>2, <4>3
    <3>2. CASE n # k + 1
      <4>1. n \in 0 .. k /\ g[n] = f[n]
          BY <3>2, <2>0
      <4>2. CASE n = 0
          BY <4>1, <4>2, <2>1
      <4>3. CASE n # 0
        <5>1. n - 1 \in 0 .. k /\ n - 1 # k + 1 /\ n - 1 \in 0 .. k + 1
            BY <4>1, <4>3, <2>0
        <5>2. g[n - 1] = f[n - 1]
            BY <5>1
        <5>3. f[n] = f[n - 1] + DaysIn(n - 1)
            BY <2>1, <4>1, <4>3
        <5>4. h[n] = g[n - 1] + DaysIn(n - 1)
            BY <4>3
        <5> QED BY <4>1, <5>2, <5>3, <5>4
      <4> QED BY <4>2, <4>3
    <3> QED BY <3>1, <3>2
  <2>3. g = h
      BY <2>2
  <2>4. Run(k + 1, g)
      BY <2>3
  <2>5. \E x : Run(k + 1, x)
      BY <2>4
  <2>6. k + 1 \in 0 .. L
      BY <2>0
  <2> QED BY <2>5, <2>6, Zenon
<1>3. L \in S
  <2> HIDE DEF S
  <2>1. L \in Nat
      BY SizeFact
  <2>2. \A n \in 0 .. L - 1 : n \in S => n + 1 \in S
      BY <1>2
  <2> HIDE DEF L
  <2> QED BY <1>1, <2>1, <2>2, CountUp
<1>4. \E f : Run(L, f)
    BY <1>3
<1> QED BY <1>4, SizeFact

\* The first day of each month, counted up.
LEMMA StartFact ==
    /\ MonthStart \in [0 .. LastMonth + 1 -> Nat] /\ MonthStart[0] = 0
    /\ \A m \in 0 .. LastMonth : MonthStart[m + 1] = MonthStart[m] + DaysIn(m)
<1>1. MonthStart = [m \in AllMonths |-> IF m = 0 THEN 0 ELSE MonthStart[m - 1] + DaysIn(m - 1)]
    BY StartExists, Zenon DEF MonthStart
<1> PICK f : f = MonthStart
    OBVIOUS
<1>2. f = [m \in 0 .. LastMonth + 1 |-> IF m = 0 THEN 0 ELSE f[m - 1] + DaysIn(m - 1)]
    BY <1>1, SizeFact, Zenon
<1>3. f[0] = 0 /\ \A m \in 0 .. LastMonth : f[m + 1] = f[m] + DaysIn(m)
  <2>1. f[0] = 0
      BY <1>2, SizeFact
  <2>2. ASSUME NEW m \in 0 .. LastMonth
        PROVE  f[m + 1] = f[m] + DaysIn(m)
    <3>1. m + 1 \in 0 .. LastMonth + 1 /\ m + 1 # 0 /\ (m + 1) - 1 = m
        BY SizeFact
    <3>2. f[m + 1] = f[(m + 1) - 1] + DaysIn((m + 1) - 1)
        BY <3>1, <1>2
    <3> QED BY <3>1, <3>2
  <2> QED BY <2>1, <2>2
<1> DEFINE S == {m \in Nat : f[m] \in Nat}
<1>4. \A n \in 0 .. LastMonth + 1 : n \in S
  <2>1. ASSUME NEW n \in 0 .. (LastMonth + 1) - 1, n \in S
        PROVE  n + 1 \in S
    <3>1. n \in 0 .. LastMonth /\ n \in Nat
        BY SizeFact
    <3> QED BY <2>1, <3>1, <1>3, DaysFact
  <2>2. 0 \in S
      BY <1>3
  <2> HIDE DEF S
  <2>3. LastMonth + 1 \in Nat
      BY SizeFact
  <2> QED BY <2>1, <2>2, <2>3, CountUp
<1>5. f \in [0 .. LastMonth + 1 -> Nat]
    BY <1>2, <1>4
<1> QED BY <1>3, <1>5

LEMMA StartsGrow ==
    ASSUME NEW a \in 0 .. LastMonth + 1, NEW b \in 0 .. LastMonth + 1, a <= b
    PROVE  MonthStart[a] \in Nat /\ MonthStart[b] \in Nat /\ MonthStart[a] <= MonthStart[b]
<1> DEFINE S == {n \in Nat : a + n <= LastMonth + 1 => MonthStart[a] <= MonthStart[a + n]}
<1>1. LastMonth \in Nat
    BY SizeFact
<1>2. 0 \in S
    BY <1>1, StartFact
<1>3. ASSUME NEW n \in 0 .. (b - a) - 1, n \in S
      PROVE  n + 1 \in S
  <2> SUFFICES ASSUME a + (n + 1) <= LastMonth + 1
               PROVE  MonthStart[a] <= MonthStart[a + (n + 1)]
      BY <1>1
  <2>1. a + n \in 0 .. LastMonth /\ a + n <= LastMonth + 1 /\ (a + n) + 1 = a + (n + 1)
      BY <1>1
  <2>2. MonthStart[a] <= MonthStart[a + n]
      BY <1>3, <2>1
  <2>3. MonthStart[a + (n + 1)] = MonthStart[a + n] + DaysIn(a + n) /\ a + n \in Nat
      BY <2>1, <1>1, StartFact
  <2>4. MonthStart[a] \in Nat /\ MonthStart[a + n] \in Nat
      BY <2>1, <1>1, StartFact
  <2> QED BY <2>2, <2>3, <2>4, DaysFact
<1>4. b - a \in Nat /\ b = a + (b - a)
    BY <1>1
<1>5. \A n \in 0 .. b - a : n \in S
  <2> HIDE DEF S
  <2> QED BY <1>2, <1>3, <1>4, CountUp
<1>6. b - a \in S
    BY <1>4, <1>5
<1> QED BY <1>1, <1>4, <1>6, StartFact

\* local is in month m.
In(local, m) ==
    /\ m \in 0 .. LastMonth
    /\ MonthStart[m] * DayLen <= local /\ local < MonthStart[m + 1] * DayLen

LEMMA LocalDay ==
    ASSUME NEW local \in Int
    PROVE  /\ local \div DayLen \in Int /\ local % DayLen \in 0 .. DayLen - 1
           /\ local = (local \div DayLen) * DayLen + (local % DayLen)
<1> PICK k \in Nat \ {0} : k = DayLen
    BY SizeFact
<1>1. /\ local \div k \in Int /\ local % k \in 0 .. k - 1
      /\ local = (local \div k) * k + (local % k)
    OBVIOUS
<1> QED BY <1>1

\* Days d and x in order, in hours.
LEMMA DayOrder ==
    ASSUME NEW d \in Int, NEW x \in Int, NEW h \in 0 .. DayLen - 1
    PROVE  /\ d * DayLen \in Int /\ x * DayLen \in Int
           /\ d * DayLen <= x * DayLen + h <=> d <= x
           /\ x * DayLen + h < d * DayLen <=> x < d
<1> PICK k \in Nat \ {0} : k = DayLen
    BY SizeFact
<1>1. d * k \in Int /\ x * k \in Int
    OBVIOUS
<1>2. ASSUME d <= x PROVE d * k <= x * k
  <2>1. x * k - d * k = (x - d) * k /\ x - d \in Nat
      BY <1>2
  <2>2. (x - d) * k >= 0
      BY <2>1, ProductGrows
  <2> QED BY <1>1, <2>1, <2>2
<1>3. ASSUME x < d PROVE x * k + k <= d * k
  <2>1. d * k - x * k = (d - x) * k /\ d - x \in Nat /\ 1 <= d - x
      BY <1>3
  <2>2. 1 * k <= (d - x) * k
      BY <2>1, ProductGrows
  <2> QED BY <1>1, <2>1, <2>2
<1>4. d <= x \/ x < d
    OBVIOUS
<1> QED BY <1>1, <1>2, <1>3, <1>4

\* There is one month that a time of the calendar is in.
LEMMA MonthUnique ==
    ASSUME NEW local \in Int, NEW m, NEW k, In(local, m), In(local, k)
    PROVE  m = k
<1>1. LastMonth \in Nat /\ m \in 0 .. LastMonth /\ k \in 0 .. LastMonth
    BY SizeFact DEF In
<1> SUFFICES ASSUME NEW i \in 0 .. LastMonth, NEW j \in 0 .. LastMonth,
                    In(local, i), In(local, j), i < j
             PROVE  FALSE
  <2>1. m = k \/ m < k \/ k < m
      BY <1>1
  <2> QED BY <1>1, <2>1
<1>2. i + 1 \in 0 .. LastMonth + 1 /\ j \in 0 .. LastMonth + 1 /\ i + 1 <= j
    BY <1>1
<1>3. MonthStart[i + 1] <= MonthStart[j] /\ MonthStart[i + 1] \in Nat /\ MonthStart[j] \in Nat
    BY <1>2, StartsGrow
<1>4. MonthStart[i + 1] * DayLen <= MonthStart[j] * DayLen
      /\ MonthStart[i + 1] * DayLen \in Int /\ MonthStart[j] * DayLen \in Int
    BY <1>3, SizeFact, ProductGrows
<1> QED BY <1>4 DEF In

LEMMA MonthExists ==
    ASSUME NEW day \in 0 .. LastDay
    PROVE  \E m \in 0 .. LastMonth : MonthStart[m] <= day /\ day < MonthStart[m + 1]
<1> DEFINE Has(n) == \E m \in 0 .. LastMonth : MonthStart[m] <= day /\ day < MonthStart[m + 1]
           S == {n \in 0 .. LastMonth + 1 : day < MonthStart[n] => Has(n)}
<1>0. /\ LastMonth + 1 \in Nat /\ LastDay = MonthStart[LastMonth + 1] - 1
      /\ MonthStart[LastMonth + 1] \in Nat /\ LastMonth \in Nat /\ LastMonth + 1 \in 0 .. LastMonth + 1
    BY SizeFact, StartFact DEF LastDay
<1>1. 0 \in S
    BY <1>0, StartFact
<1>2. ASSUME NEW n \in 0 .. (LastMonth + 1) - 1, n \in S
      PROVE  n + 1 \in S
  <2>1. n \in 0 .. LastMonth /\ n + 1 \in 0 .. LastMonth + 1 /\ n \in 0 .. LastMonth + 1
      BY <1>0
  <2>2. MonthStart[n] \in Nat
      BY <2>1, StartFact
  <2>3. CASE MonthStart[n] <= day
      BY <2>1, <2>3
  <2>4. CASE day < MonthStart[n]
      BY <2>1, <2>4, <1>2
  <2> QED BY <1>0, <2>2, <2>3, <2>4
<1>3. LastMonth + 1 \in S
  <2> HIDE DEF S
  <2> QED BY <1>0, <1>1, <1>2, CountUp
<1>4. day < MonthStart[LastMonth + 1]
    BY <1>0
<1> QED BY <1>3, <1>4

LEMMA MonthOfIn ==
    ASSUME NEW local \in Calendar
    PROVE  local \in Int /\ In(local, MonthOf(local))
<1>0. /\ LastMonth \in Nat /\ MonthStart[LastMonth + 1] \in Nat
      /\ LastDay = MonthStart[LastMonth + 1] - 1 /\ local \in Int
    BY SizeFact, StartFact DEF LastDay, Calendar
<1> PICK day \in Int, h \in 0 .. DayLen - 1 : day = local \div DayLen /\ local = day * DayLen + h
    BY <1>0, LocalDay, Zenon
<1> DEFINE len == DayLen
<1>1. len \in Nat \ {0} /\ h \in 0 .. len - 1 /\ local = day * len + h
    BY SizeFact
<1>2. day \in 0 .. LastDay
  <2>1. 0 <= local /\ local < (LastDay + 1) * DayLen
    <3>1. (LastDay + 1) * DayLen \in Int
        BY <1>0, SizeFact
    <3> QED BY <1>0, <3>1 DEF Calendar
  <2>2. 0 * DayLen = 0
      BY SizeFact
  <2>3. 0 <= day
      BY <1>1, <2>1, <2>2, DayOrder
  <2>4. LastDay + 1 \in Int
      BY <1>0
  <2>5. day < LastDay + 1
      BY <2>4, <1>1, <2>1, DayOrder
  <2> QED BY <1>0, <1>1, <2>3, <2>5
<1>3. PICK m \in 0 .. LastMonth : MonthStart[m] <= day /\ day < MonthStart[m + 1]
    BY <1>2, MonthExists
<1> DEFINE P(k) == MonthStart[k] <= day /\ day < MonthStart[k] + DaysIn(k)
<1>4. m \in AllMonths /\ P(m)
    BY <1>0, <1>3, StartFact, SizeFact
<1> PICK n : n = (CHOOSE k \in AllMonths : P(k))
    OBVIOUS
<1>5. n \in AllMonths /\ P(n)
    BY <1>4, Zenon
<1>6. MonthOfDay[day] = n
    BY <1>2, Zenon DEF MonthOfDay
<1>7. n \in 0 .. LastMonth
  <2>1. n \in 0 .. LastMonth + 1
      BY <1>5, SizeFact
  <2>2. MonthStart[n] <= day /\ day < MonthStart[LastMonth + 1]
      BY <1>0, <1>2, <1>5
  <2>3. PICK last : last = MonthStart[LastMonth + 1]
      OBVIOUS
  <2>4. last \in Nat /\ day < last
      BY <1>0, <2>2, <2>3
  <2>5. ASSUME n = LastMonth + 1 PROVE FALSE
    <3>1. MonthStart[n] = last
        BY <2>3, <2>5, Zenon
    <3> QED BY <2>2, <2>4, <3>1
  <2>6. n # LastMonth + 1
      BY <2>5
  <2> QED BY <1>0, <2>1, <2>6
<1>8. MonthStart[n] \in Nat /\ MonthStart[n + 1] \in Nat /\ day < MonthStart[n + 1]
    BY <1>0, <1>5, <1>7, StartFact
<1>9. MonthStart[n] * DayLen <= local /\ local < MonthStart[n + 1] * DayLen
    BY <1>1, <1>5, <1>8, DayOrder
<1>10. MonthOf(local) = n
    BY <1>6 DEF MonthOf
<1> QED BY <1>0, <1>7, <1>9, <1>10 DEF In

LEMMA InCalendar ==
    ASSUME NEW local \in Int, NEW m, In(local, m)
    PROVE  local \in Calendar /\ MonthOf(local) = m
<1>1. /\ LastMonth \in Nat /\ m \in 0 .. LastMonth /\ m \in 0 .. LastMonth + 1
      /\ m + 1 \in 0 .. LastMonth + 1 /\ LastMonth + 1 \in 0 .. LastMonth + 1
      /\ m + 1 <= LastMonth + 1
    BY SizeFact DEF In
<1>2. /\ MonthStart[m] \in Nat /\ MonthStart[m + 1] \in Nat
      /\ MonthStart[m + 1] <= MonthStart[LastMonth + 1] /\ MonthStart[LastMonth + 1] \in Nat
    BY <1>1, StartsGrow, StartFact
<1>3. MonthStart[m + 1] * DayLen <= MonthStart[LastMonth + 1] * DayLen
      /\ MonthStart[LastMonth + 1] * DayLen \in Nat /\ MonthStart[m] * DayLen \in Nat
      /\ MonthStart[m + 1] * DayLen \in Nat
    BY <1>2, SizeFact, ProductGrows
<1>4. (LastDay + 1) * DayLen = MonthStart[LastMonth + 1] * DayLen
  <2>1. LastDay + 1 = MonthStart[LastMonth + 1]
      BY <1>2, SizeFact DEF LastDay
  <2> QED BY <2>1
<1>5. local \in Calendar
    BY <1>3, <1>4 DEF Calendar, In
<1> QED BY <1>5, MonthOfIn, MonthUnique

LEMMA QuotientIs ==
    ASSUME NEW k \in Nat \ {0}, NEW d \in Int, NEW h \in 0 .. k - 1, NEW x, x = d * k + h
    PROVE  x \in Int /\ x \div k = d /\ x % k = h
<1>1. x \in Int
    OBVIOUS
<1>2. PICK q \in Int, i \in 0 .. k - 1 : q = x \div k /\ i = x % k /\ x = q * k + i
  <2>1. x \div k \in Int /\ x % k \in 0 .. k - 1 /\ x = (x \div k) * k + (x % k)
      BY <1>1
  <2> QED BY <2>1, Zenon
<1>3. (q - d) * k = h - i /\ -k < h - i /\ h - i < k
    BY <1>2
<1>4. q = d
  <2>1. CASE q - d >= 1
    <3>1. 1 * k <= (q - d) * k
        BY <2>1, ProductGrows
    <3> QED BY <1>3, <3>1
  <2>2. CASE q - d <= -1
    <3>1. 1 * k <= (d - q) * k
        BY <2>2, ProductGrows
    <3>2. (q - d) * k = -((d - q) * k)
        OBVIOUS
    <3> QED BY <1>3, <3>1, <3>2
  <2> QED BY <2>1, <2>2
<1>5. i = h
    BY <1>3, <1>4
<1> QED BY <1>1, <1>2, <1>4, <1>5

LEMMA DayIs ==
    ASSUME NEW d \in Int, NEW h \in 0 .. DayLen - 1, NEW local, local = d * DayLen + h
    PROVE  /\ local \in Int /\ local \div DayLen = d /\ local % DayLen = h
  BY SizeFact, QuotientIs

DayOf(local) == (local \div DayLen) - MonthStart[MonthOf(local)]

\* A time of the calendar is an hour of a day of a month.
LEMMA PartsOf ==
    ASSUME NEW local \in Calendar
    PROVE  /\ MonthOf(local) \in 0 .. LastMonth /\ MonthStart[MonthOf(local)] \in Nat
           /\ DayOf(local) \in 0 .. DaysIn(MonthOf(local)) - 1
           /\ local % DayLen \in 0 .. DayLen - 1
           /\ local = (MonthStart[MonthOf(local)] + DayOf(local)) * DayLen + (local % DayLen)
<1>1. local \in Int /\ In(local, MonthOf(local))
    BY MonthOfIn
<1> PICK m \in 0 .. LastMonth : m = MonthOf(local)
    BY <1>1 DEF In
<1> PICK d \in Int : d = local \div DayLen
    BY <1>1, LocalDay
<1> PICK h \in 0 .. DayLen - 1 : h = local % DayLen
    BY <1>1, LocalDay
<1>2. local = d * DayLen + h
    BY <1>1, LocalDay
<1>3. /\ m \in Nat /\ MonthStart[m] \in Nat /\ MonthStart[m + 1] \in Nat /\ DaysIn(m) \in Nat
      /\ MonthStart[m + 1] = MonthStart[m] + DaysIn(m)
  <2>1. m \in Nat /\ m \in 0 .. LastMonth + 1 /\ m + 1 \in 0 .. LastMonth + 1
      BY SizeFact
  <2> QED BY <2>1, StartFact, DaysFact
<1>4. MonthStart[m] * DayLen <= d * DayLen + h /\ d * DayLen + h < MonthStart[m + 1] * DayLen
    BY <1>1, <1>2 DEF In
<1>5. MonthStart[m] <= d /\ d < MonthStart[m + 1]
  <2> PICK a \in Int, b \in Int : a = MonthStart[m] /\ b = MonthStart[m + 1]
      BY <1>3
  <2>1. a * DayLen <= d * DayLen + h <=> a <= d
      BY DayOrder
  <2>2. d * DayLen + h < b * DayLen <=> d < b
      BY DayOrder
  <2> QED BY <1>4, <2>1, <2>2
<1>6. DayOf(local) = d - MonthStart[m]
    BY DEF DayOf
<1>7. MonthStart[m] + DayOf(local) = d /\ DayOf(local) \in 0 .. DaysIn(m) - 1
    BY <1>3, <1>5, <1>6
<1> QED BY <1>2, <1>3, <1>7

\* And an hour of a day of a month is a time of the calendar.
LEMMA PartsMake ==
    ASSUME NEW m \in 0 .. LastMonth, NEW d \in 0 .. DaysIn(m) - 1, NEW h \in 0 .. DayLen - 1,
           NEW local, local = (MonthStart[m] + d) * DayLen + h
    PROVE  /\ local \in Int /\ In(local, m) /\ local \in Calendar /\ MonthOf(local) = m
           /\ DayOf(local) = d /\ local % DayLen = h
<1>1. /\ m \in Nat /\ MonthStart[m] \in Nat /\ MonthStart[m + 1] \in Nat /\ DaysIn(m) \in Nat
      /\ MonthStart[m + 1] = MonthStart[m] + DaysIn(m)
  <2>1. m \in Nat /\ m \in 0 .. LastMonth + 1 /\ m + 1 \in 0 .. LastMonth + 1
      BY SizeFact
  <2> QED BY <2>1, StartFact, DaysFact
<1> PICK x : x = MonthStart[m] + d
    OBVIOUS
<1>2. x \in Int /\ MonthStart[m] <= x /\ x < MonthStart[m + 1] /\ x - MonthStart[m] = d
    BY <1>1
<1>3. local \in Int /\ local \div DayLen = x /\ local % DayLen = h
    BY <1>2, DayIs
<1>4. In(local, m)
  <2> PICK a \in Int, b \in Int : a = MonthStart[m] /\ b = MonthStart[m + 1]
      BY <1>1
  <2>1. a * DayLen <= x * DayLen + h <=> a <= x
      BY <1>2, DayOrder
  <2>2. x * DayLen + h < b * DayLen <=> x < b
      BY <1>2, DayOrder
  <2> QED BY <1>2, <2>1, <2>2 DEF In
<1>5. local \in Calendar /\ MonthOf(local) = m
    BY <1>3, <1>4, InCalendar
<1> QED BY <1>2, <1>3, <1>4, <1>5 DEF DayOf

\* Go and PostgreSQL add months alike, and get to the month that many later.
LEMMA ClampedAlike ==
    ASSUME NEW local \in Calendar, NEW k \in Nat, MonthOf(local) + k <= LastMonth
    PROVE  /\ AddMonthsClamped(local, k) = SqlAddMonths(local, k)
           /\ SqlAddMonths(local, k) \in Int
           /\ In(SqlAddMonths(local, k), MonthOf(local) + k)
           /\ k = 0 => SqlAddMonths(local, k) = local
           /\ \A j \in Nat : MonthOf(local) + k + j <= LastMonth
                             /\ DayOf(local) < DaysIn(MonthOf(local) + k)
                             /\ DayOf(local) < DaysIn(MonthOf(local) + k + j)
                             => AddMonths(SqlAddMonths(local, k), j) = SqlAddMonths(local, k + j)
<1> PICK m, d, h : m = MonthOf(local) /\ d = DayOf(local) /\ h = local % DayLen
    OBVIOUS
<1>1. /\ m \in 0 .. LastMonth /\ d \in Nat /\ d \in 0 .. DaysIn(m) - 1 /\ h \in 0 .. DayLen - 1
      /\ local = (MonthStart[m] + d) * DayLen + h
  <2>1. m \in Nat
      BY PartsOf, SizeFact
  <2> QED BY <2>1, PartsOf, DaysFact
<1>2. m + k \in 0 .. LastMonth /\ m + k \in Nat /\ DaysIn(m + k) \in Nat \ {0} /\ MonthStart[m + k] \in Nat
  <2>1. LastMonth \in Nat
      BY SizeFact
  <2>2. m + k \in Nat /\ m + k \in 0 .. LastMonth /\ m + k \in 0 .. LastMonth + 1
      BY <1>1, <2>1
  <2> QED BY <2>2, DaysFact, StartFact
<1> PICK last \in Nat : last = DaysIn(m + k) - 1
    BY <1>2
<1> DEFINE c == IF d > last THEN last ELSE d
<1>3. Min({d, last}) = c
  <2>1. {d, last} \in SUBSET Nat /\ {d, last} # {}
      BY <1>1
  <2>2. Min({d, last}) \in {d, last} /\ Min({d, last}) <= d /\ Min({d, last}) <= last
      BY <2>1, MinFact
  <2> QED BY <1>1, <2>2
<1>4. c \in 0 .. DaysIn(m + k) - 1
    BY <1>1, <1>2
<1>5. SqlAddMonths(local, k) = (MonthStart[m + k] + c) * DayLen + h
    BY Zenon DEF SqlAddMonths, DayOf
<1>6. AddMonthsClamped(local, k) = (MonthStart[m + k] + c) * DayLen + h
  <2>1. AddMonthsClamped(local, k) = (MonthStart[m + k] + Min({d, last})) * DayLen + h
      BY Zenon DEF AddMonthsClamped, DayOf
  <2> HIDE DEF c
  <2> QED BY <2>1, <1>3
<1>7. PICK x : x = SqlAddMonths(local, k)
    OBVIOUS
<1>8. /\ x \in Int /\ In(x, m + k) /\ x \in Calendar /\ MonthOf(x) = m + k
      /\ DayOf(x) = c /\ x % DayLen = h
  <2> HIDE DEF c
  <2>1. x = (MonthStart[m + k] + c) * DayLen + h
      BY <1>5, <1>7, Zenon
  <2>2. h \in 0 .. DayLen - 1
      BY <1>1
  <2> PICK p \in 0 .. LastMonth : p = m + k
      BY <1>2
  <2>3. c \in 0 .. DaysIn(p) - 1 /\ x = (MonthStart[p] + c) * DayLen + h
      BY <1>4, <2>1, Zenon
  <2>4. /\ x \in Int /\ In(x, p) /\ x \in Calendar /\ MonthOf(x) = p
        /\ DayOf(x) = c /\ x % DayLen = h
      BY <2>2, <2>3, PartsMake
  <2> QED BY <2>4, Zenon
<1>9. k = 0 => x = local
  <2> SUFFICES ASSUME k = 0 PROVE x = local
      OBVIOUS
  <2>1. m + k = m /\ c = d
    <3>1. m + k = m
        BY <1>1
    <3>2. d \in 0 .. DaysIn(m + k) - 1
        BY <3>1, <1>1, Zenon
    <3> QED BY <3>1, <3>2, <1>2
  <2> HIDE DEF c
  <2> QED BY <2>1, <1>1, <1>5, <1>7, Zenon
<1>10. ASSUME NEW j \in Nat, m + k + j <= LastMonth, d < DaysIn(m + k), d < DaysIn(m + k + j)
       PROVE  AddMonths(x, j) = SqlAddMonths(local, k + j)
  <2>1. c = d
      BY <1>1, <1>2, <1>10
  <2>2. AddMonths(x, j) = (MonthStart[m + k + j] + c) * DayLen + h
    <3> HIDE DEF c
    <3>1. AddMonths(x, j) = (MonthStart[MonthOf(x) + j] + DayOf(x)) * DayLen + (x % DayLen)
        BY Zenon DEF AddMonths, DayOf
    <3> QED BY <1>8, <3>1, Zenon
  <2>3. m + (k + j) = m + k + j /\ m + k + j \in Nat
      BY <1>1
  <2>4. SqlAddMonths(local, k + j)
        = (MonthStart[m + (k + j)]
           + (IF d > DaysIn(m + (k + j)) - 1 THEN DaysIn(m + (k + j)) - 1 ELSE d)) * DayLen + h
      BY Zenon DEF SqlAddMonths, DayOf
  <2>5. (IF d > DaysIn(m + (k + j)) - 1 THEN DaysIn(m + (k + j)) - 1 ELSE d) = d
    <3>1. DaysIn(m + (k + j)) \in Nat /\ d < DaysIn(m + (k + j))
        BY <1>10, <2>3, DaysFact
    <3> QED BY <3>1, <1>1
  <2> HIDE DEF c
  <2>6. SqlAddMonths(local, k + j) = (MonthStart[m + (k + j)] + d) * DayLen + h
      BY <2>4, <2>5
  <2> QED BY <2>1, <2>2, <2>3, <2>6
<1> HIDE DEF c
<1> QED BY <1>5, <1>6, <1>7, <1>8, <1>9, <1>10

-----------------------------------------------------------------------------
(* Zones *)

Zone(zone) ==
    /\ zone.offset \in Int
    /\ \A i \in zone.summers :
          /\ i[1] \in Int /\ i[2] \in Int /\ zone.offset < i[2] - i[1]
          /\ \A j \in zone.summers : i[1] < j[1] => zone.offset < j[1] - i[2]

LEMMA OffsetFact ==
    ASSUME NEW zone, Zone(zone), NEW t \in Int
    PROVE  /\ Offset(zone, t) \in {zone.offset, zone.offset + 1}
           /\ zone.offset \in Int
           /\ Offset(zone, t) = zone.offset + 1 <=> InSummer(zone, t)
           /\ Local(zone, t) \in Int
           /\ Local(zone, t) = t + Offset(zone, t)
<1>1. zone.offset \in Int
    BY DEF Zone
<1>2. Offset(zone, t) = zone.offset + (IF InSummer(zone, t) THEN 1 ELSE 0)
    BY DEF Offset
<1>3. CASE InSummer(zone, t)
    BY <1>1, <1>2, <1>3 DEF Local
<1>4. CASE ~InSummer(zone, t)
    BY <1>1, <1>2, <1>4 DEF Local
<1> QED BY <1>3, <1>4

\* The instants at which the clock shows local: which they are depends on whether
\* it is summer at the two it could be.
LEMMA InstantsFact ==
    ASSUME NEW zone, Zone(zone), NEW local \in Int, NEW std, std = local - zone.offset
    PROVE  /\ std \in Int
           /\ Instants(zone, local) \subseteq {std, std - 1}
           /\ std \in Instants(zone, local) <=> ~InSummer(zone, std)
           /\ std - 1 \in Instants(zone, local) <=> InSummer(zone, std - 1)
           /\ \A t \in Instants(zone, local) : Local(zone, t) = local
           /\ SqlInstant(zone, local) = IF std - 1 \in Instants(zone, local)
                                           /\ std \notin Instants(zone, local)
                                        THEN std - 1 ELSE std
<1>1. std \in Int /\ std - 1 \in Int /\ zone.offset \in Int /\ local - zone.offset - 1 = std - 1
    BY DEF Zone
<1> PICK T : T = Instants(zone, local)
    OBVIOUS
<1>2. T = {t \in {std, std - 1} : Local(zone, t) = local}
    BY <1>1 DEF Instants
<1>3. Local(zone, std) = local <=> ~InSummer(zone, std)
    BY <1>1, OffsetFact
<1>4. Local(zone, std - 1) = local <=> InSummer(zone, std - 1)
    BY <1>1, OffsetFact
<1>5. SqlInstant(zone, local) = IF std - 1 \in T /\ std \notin T THEN std - 1 ELSE std
  <2>1. CASE T = {}
      BY <2>1, <1>1 DEF SqlInstant
  <2>2. CASE T # {}
    <3>1. SqlInstant(zone, local) = Max(T)
        BY <2>2 DEF SqlInstant
    <3>2. PICK y : y = IF std \in T THEN std ELSE std - 1
        OBVIOUS
    <3>3. y \in T /\ \A x \in T : x \in Int /\ y >= x
        BY <1>1, <1>2, <2>2, <3>2
    <3>4. Max(T) = CHOOSE x \in T : \A z \in T : x >= z
        BY DEF Max
    <3>5. Max(T) \in T /\ \A z \in T : Max(T) >= z
        BY <3>3, <3>4, Zenon
    <3>6. Max(T) = y
        BY <3>3, <3>5
    <3> QED BY <1>1, <1>2, <2>2, <3>1, <3>2, <3>6
  <2> QED BY <2>1, <2>2
<1> QED BY <1>1, <1>2, <1>3, <1>4, <1>5

\* Both read a local time in standard time or in daylight saving time.
LEMMA InstantRange ==
    ASSUME NEW zone, Zone(zone), NEW local \in Int
    PROVE  /\ GoInstant(zone, local) \in {local - zone.offset, local - zone.offset - 1}
           /\ SqlInstant(zone, local) \in {local - zone.offset, local - zone.offset - 1}
           /\ zone.offset \in Int
<1>1. SqlInstant(zone, local) \in {local - zone.offset, local - zone.offset - 1}
    BY InstantsFact
<1>2. zone.offset \in Int /\ Offset(zone, local) \in {zone.offset, zone.offset + 1}
    BY OffsetFact
<1>3. PICK utc \in Int : utc = local - Offset(zone, local)
    BY <1>2
<1>4. Offset(zone, utc) \in {zone.offset, zone.offset + 1}
    BY <1>3, OffsetFact
<1>5. GoInstant(zone, local) \in {utc, local - Offset(zone, utc)}
    BY <1>3 DEF GoInstant
<1>6. GoInstant(zone, local) \in {local - zone.offset, local - zone.offset - 1}
    BY <1>2, <1>3, <1>4, <1>5
<1> QED BY <1>1, <1>2, <1>6

LEMMA OnlyInstant ==
    ASSUME NEW zone, Zone(zone), NEW local \in Int, Cardinality(Instants(zone, local)) = 1
    PROVE  /\ SqlInstant(zone, local) \in Instants(zone, local)
           /\ \A t \in Instants(zone, local) : t = SqlInstant(zone, local)
           /\ SqlInstant(zone, local) \in Int
           /\ Local(zone, SqlInstant(zone, local)) = local
<1> PICK std : std = local - zone.offset
    OBVIOUS
<1>1. /\ std \in Int /\ Instants(zone, local) \subseteq {std, std - 1}
      /\ SqlInstant(zone, local)
         = IF std - 1 \in Instants(zone, local) /\ std \notin Instants(zone, local)
           THEN std - 1 ELSE std
      /\ \A t \in Instants(zone, local) : Local(zone, t) = local
    BY InstantsFact
<1>2. Instants(zone, local) # {}
  <2>1. Cardinality({}) = 0
      BY FS_EmptySet
  <2>2. ASSUME Instants(zone, local) = {} PROVE FALSE
    <3>1. Cardinality({}) = 1
        BY <2>2, Zenon
    <3> QED BY <2>1, <3>1
  <2> QED BY <2>2
<1>3. IsFiniteSet({std, std - 1})
  <2>1. IsFiniteSet({std})
      BY FS_Singleton
  <2>2. IsFiniteSet({std} \cup {std - 1})
      BY <2>1, FS_AddElement
  <2>3. {std, std - 1} = {std} \cup {std - 1}
      OBVIOUS
  <2> QED BY <2>2, <2>3
<1>4. IsFiniteSet(Instants(zone, local))
    BY <1>1, <1>3, FS_Subset
<1>5. PICK t : Instants(zone, local) = {t}
    BY <1>4, FS_Singleton
<1> QED BY <1>1, <1>5

\* Go and PostgreSQL read a local time alike if the clock shows it once.
LEMMA ReadAlikeOnce ==
    ASSUME NEW zone, Zone(zone), NEW local \in Int, Cardinality(Instants(zone, local)) = 1
    PROVE  GoInstant(zone, local) = SqlInstant(zone, local)
<1> PICK std : std = local - zone.offset
    OBVIOUS
<1>1. /\ std \in Int /\ zone.offset \in Int /\ local = std + zone.offset
      /\ Instants(zone, local) \subseteq {std, std - 1}
      /\ std \in Instants(zone, local) <=> ~InSummer(zone, std)
      /\ std - 1 \in Instants(zone, local) <=> InSummer(zone, std - 1)
      /\ SqlInstant(zone, local) \in Instants(zone, local)
      /\ \A t \in Instants(zone, local) : t = SqlInstant(zone, local)
    BY InstantsFact, OnlyInstant DEF Zone
<1>2. \/ InSummer(zone, std - 1) /\ InSummer(zone, std) /\ SqlInstant(zone, local) = std - 1
      \/ ~InSummer(zone, std - 1) /\ ~InSummer(zone, std) /\ SqlInstant(zone, local) = std
    BY <1>1
<1> PICK first : first = Offset(zone, local)
    OBVIOUS
<1> PICK utc : utc = local - first
    OBVIOUS
<1>3. /\ first \in {zone.offset, zone.offset + 1} /\ first \in Int /\ utc \in {std, std - 1} /\ utc \in Int
      /\ first = zone.offset + 1 <=> InSummer(zone, local)
      /\ utc = std - 1 <=> InSummer(zone, local)
    BY <1>1, OffsetFact
<1>4. GoInstant(zone, local) = IF first = 0 \/ InSummer(zone, utc) = InSummer(zone, local) THEN utc
                               ELSE local - Offset(zone, utc)
    BY DEF GoInstant
<1>5. /\ Offset(zone, utc) \in {zone.offset, zone.offset + 1}
      /\ Offset(zone, utc) = zone.offset + 1 <=> InSummer(zone, utc)
      /\ InSummer(zone, utc) <=> InSummer(zone, std)
    BY <1>2, <1>3, OffsetFact
<1>6. CASE first = 0
  <2>1. utc = local
      BY <1>3, <1>6
  <2> QED BY <1>1, <1>2, <1>3, <1>4, <1>5, <1>6, <2>1
<1>7. CASE first # 0 /\ InSummer(zone, utc) = InSummer(zone, local)
    BY <1>1, <1>2, <1>3, <1>4, <1>5, <1>7
<1>8. CASE first # 0 /\ InSummer(zone, utc) # InSummer(zone, local)
  <2>1. InSummer(zone, utc) \in BOOLEAN /\ InSummer(zone, local) \in BOOLEAN
      BY DEF InSummer
  <2>2. ~(InSummer(zone, utc) <=> InSummer(zone, local))
      BY <2>1, <1>8
  <2>3. GoInstant(zone, local) = local - Offset(zone, utc)
      BY <1>4, <1>8
  <2> QED BY <1>1, <1>2, <1>3, <1>5, <2>2, <2>3
<1> QED BY <1>6, <1>7, <1>8

\* And east of Greenwich, or at it, in any case.
LEMMA ReadAlikeEast ==
    ASSUME NEW zone, Zone(zone), zone.offset >= 0, NEW local \in Int
    PROVE  GoInstant(zone, local) = SqlInstant(zone, local)
<1> PICK std : std = local - zone.offset
    OBVIOUS
<1>1. /\ std \in Int /\ zone.offset \in Int /\ local = std + zone.offset
      /\ Instants(zone, local) \subseteq {std, std - 1}
      /\ std \in Instants(zone, local) <=> ~InSummer(zone, std)
      /\ std - 1 \in Instants(zone, local) <=> InSummer(zone, std - 1)
      /\ SqlInstant(zone, local) = IF std - 1 \in Instants(zone, local)
                                      /\ std \notin Instants(zone, local)
                                   THEN std - 1 ELSE std
    BY InstantsFact DEF Zone
<1> PICK first : first = Offset(zone, local)
    OBVIOUS
<1> PICK utc : utc = local - first
    OBVIOUS
<1>2. /\ first \in {zone.offset, zone.offset + 1} /\ first \in Int /\ utc \in {std, std - 1} /\ utc \in Int
      /\ first = zone.offset + 1 <=> InSummer(zone, local)
      /\ utc = std - 1 <=> InSummer(zone, local)
    BY <1>1, OffsetFact
<1>3. GoInstant(zone, local) = IF first = 0 \/ InSummer(zone, utc) = InSummer(zone, local) THEN utc
                               ELSE local - Offset(zone, utc)
    BY DEF GoInstant
<1>4. /\ Offset(zone, utc) \in {zone.offset, zone.offset + 1}
      /\ Offset(zone, utc) = zone.offset + 1 <=> InSummer(zone, utc)
    BY <1>2, OffsetFact
<1>5. InSummer(zone, utc) \in BOOLEAN /\ InSummer(zone, local) \in BOOLEAN
    BY DEF InSummer
<1>6. \A i \in zone.summers :
          /\ i[1] \in Int /\ i[2] \in Int /\ zone.offset < i[2] - i[1]
          /\ \A j \in zone.summers : i[1] < j[1] => zone.offset < j[1] - i[2]
    BY DEF Zone
\* The hour is skipped: daylight saving has begun and goes on.
<1>7. CASE InSummer(zone, std) /\ ~InSummer(zone, std - 1)
  <2>1. PICK i \in zone.summers : i[1] <= std /\ std < i[2]
      BY <1>7 DEF InSummer
  <2>2. ~(i[1] <= std - 1 /\ std - 1 < i[2])
      BY <1>7 DEF InSummer
  <2>3. i[1] \in Int /\ i[2] \in Int /\ zone.offset < i[2] - i[1]
      BY <1>6
  <2>4. i[1] <= local /\ local < i[2]
      BY <1>1, <2>1, <2>2, <2>3
  <2>5. InSummer(zone, local)
      BY <2>4 DEF InSummer
  <2>6. first = zone.offset + 1 /\ utc = std - 1 /\ first # 0
      BY <1>1, <1>2, <2>5
  <2>7. GoInstant(zone, local) = local - Offset(zone, utc)
      BY <1>3, <1>5, <1>7, <2>5, <2>6
  <2> QED BY <1>1, <1>4, <1>7, <2>6, <2>7
\* The hour is repeated: daylight saving is over, and is not back soon.
<1>8. CASE ~InSummer(zone, std) /\ InSummer(zone, std - 1)
  <2>1. PICK i \in zone.summers : i[1] <= std - 1 /\ std - 1 < i[2]
      BY <1>8 DEF InSummer
  <2>2. ~(i[1] <= std /\ std < i[2])
      BY <1>8 DEF InSummer
  <2>3. i[1] \in Int /\ i[2] \in Int /\ i[2] = std
      BY <1>1, <1>6, <2>1, <2>2
  <2>4. ASSUME NEW j \in zone.summers, j[1] <= local, local < j[2]
        PROVE  FALSE
    <3>1. /\ j[1] \in Int /\ j[2] \in Int
          /\ i[1] < j[1] => zone.offset < j[1] - i[2]
          /\ j[1] < i[1] => zone.offset < i[1] - j[2]
        BY <1>6
    <3>2. ~(j[1] <= std /\ std < j[2])
        BY <1>8 DEF InSummer
    <3> QED BY <1>1, <2>1, <2>3, <2>4, <3>1, <3>2
  <2>5. ~InSummer(zone, local)
      BY <2>4 DEF InSummer
  <2>6. utc = std
      BY <1>1, <1>2, <2>5
  <2>7. GoInstant(zone, local) = utc
      BY <1>3, <1>8, <2>5, <2>6, <1>5
  <2> QED BY <1>1, <1>8, <2>6, <2>7
<1>9. CASE InSummer(zone, std) <=> InSummer(zone, std - 1)
  <2>1. Cardinality(Instants(zone, local)) = 1
    <3>1. Instants(zone, local) = {std} \/ Instants(zone, local) = {std - 1}
        BY <1>1, <1>9
    <3> QED BY <3>1, FS_Singleton
  <2> QED BY <2>1, ReadAlikeOnce
<1> QED BY <1>7, <1>8, <1>9

-----------------------------------------------------------------------------
(* Months and years against the floors of the periods *)

Shortest == Min({DaysIn(m) : m \in 0 .. MonthsOfYear - 1})

LEMMA ShortestFact ==
    /\ Shortest \in Nat
    /\ \A m \in Nat : Shortest <= DaysIn(m)
<1> DEFINE D == {DaysIn(m) : m \in 0 .. MonthsOfYear - 1}
<1>1. D \in SUBSET Nat /\ D # {}
  <2>1. ASSUME NEW m \in 0 .. MonthsOfYear - 1
        PROVE  DaysIn(m) \in Nat
    <3>1. m \in Nat
        BY SizeFact
    <3> QED BY <3>1, DaysFact
  <2>2. 0 \in 0 .. MonthsOfYear - 1
      BY SizeFact
  <2> QED BY <2>1, <2>2
<1> HIDE DEF D
<1>2. Min(D) \in D /\ \A x \in D : Min(D) <= x
    BY <1>1, MinFact
<1>3. Shortest = Min(D) /\ Shortest \in Nat
    BY <1>1, <1>2 DEF Shortest, D
<1>4. ASSUME NEW m \in Nat PROVE Shortest <= DaysIn(m)
  <2>1. DaysIn(m % MonthsOfYear) \in D
      BY DaysFact DEF D
  <2>2. Shortest <= DaysIn(m % MonthsOfYear)
      BY <1>2, <1>3, <2>1
  <2> QED BY <1>3, <2>2, DaysFact
<1> QED BY <1>3, <1>4

LEMMA HoursFact ==
    ASSUME NEW a \in Nat, NEW b \in Nat, NEW c \in Nat, a + b <= c
    PROVE  /\ a * DayLen \in Nat /\ b * DayLen \in Nat /\ c * DayLen \in Nat
           /\ a * DayLen + b * DayLen <= c * DayLen
<1> PICK k \in Nat \ {0} : k = DayLen
    BY SizeFact
<1>1. (a + b) * k <= c * k /\ (a + b) * k = a * k + b * k
    BY ProductGrows
<1>2. a * k \in Nat /\ b * k \in Nat /\ c * k \in Nat
    OBVIOUS
<1> QED BY <1>1, <1>2

LEMMA MonthGap ==
    ASSUME NEW m \in 0 .. LastMonth
    PROVE  /\ Floor("monthly") \in Nat
           /\ MonthStart[m] * DayLen + Floor("monthly") <= MonthStart[m + 1] * DayLen
<1>1. m \in Nat /\ m \in 0 .. LastMonth + 1 /\ m + 1 \in 0 .. LastMonth + 1
    BY SizeFact
<1>2. /\ MonthStart[m] \in Nat /\ MonthStart[m + 1] \in Nat /\ Shortest \in Nat
      /\ MonthStart[m + 1] = MonthStart[m] + DaysIn(m) /\ DaysIn(m) \in Nat
      /\ Shortest <= DaysIn(m)
    BY <1>1, StartFact, DaysFact, ShortestFact
<1>3. MonthStart[m] + Shortest <= MonthStart[m + 1]
    BY <1>2
<1>4. Floor("monthly") = Shortest * DayLen
    BY DEF Floor, Shortest
<1>5. /\ Shortest * DayLen \in Nat
      /\ MonthStart[m] * DayLen + Shortest * DayLen <= MonthStart[m + 1] * DayLen
    BY <1>2, <1>3, HoursFact
<1> QED BY <1>4, <1>5

LEMMA YearIs ==
    ASSUME NEW m \in 0 .. LastMonth
    PROVE  /\ YearOf(m) \in 0 .. Years - 1
           /\ YearOf(m) * MonthsOfYear <= m /\ m < (YearOf(m) + 1) * MonthsOfYear
<1> PICK l \in Nat \ {0} : l = MonthsOfYear
    BY SizeFact
<1> PICK y \in Nat \ {0} : y = Years
    BY SizeFact
<1>1. m \in Nat /\ m < y * l
    BY SizeFact
<1> PICK q : q = m \div l
    OBVIOUS
<1>2. q \in Int /\ q * l <= m /\ m < (q + 1) * l
    BY <1>1, DivFact
<1>3. q * l \in Int /\ y * l \in Int /\ (q + 1) * l \in Int
    BY <1>2
<1>4. q < y
    BY <1>1, <1>2, <1>3, Cancels
<1>5. 0 < q + 1
  <2>1. 0 * l < (q + 1) * l
      BY <1>1, <1>2, <1>3
  <2> QED BY <1>2, <2>1, Cancels
<1>6. YearOf(m) = q
    BY DEF YearOf
<1> QED BY <1>2, <1>4, <1>5, <1>6

LEMMA YearMonths ==
    ASSUME NEW y \in 0 .. Years - 1
    PROVE  /\ y * MonthsOfYear \in 0 .. LastMonth
           /\ (y + 1) * MonthsOfYear \in 0 .. LastMonth + 1
           /\ (y + 1) * MonthsOfYear = y * MonthsOfYear + MonthsOfYear
<1> PICK l \in Nat \ {0} : l = MonthsOfYear
    BY SizeFact
<1> PICK z \in Nat \ {0} : z = Years
    BY SizeFact
<1>1. y + 1 <= z /\ y \in Nat /\ y + 1 \in Nat
    OBVIOUS
<1>2. (y + 1) * l <= z * l /\ (y + 1) * l = y * l + l /\ y * l \in Nat
    BY <1>1, ProductGrows
<1>3. z * l = LastMonth + 1 /\ LastMonth \in Nat
    BY SizeFact
<1> QED BY <1>2, <1>3

LEMMA YearGap ==
    ASSUME NEW y \in 0 .. Years - 1
    PROVE  /\ Floor("yearly") \in Nat
           /\ MonthStart[y * MonthsOfYear] * DayLen + Floor("yearly")
              <= MonthStart[(y + 1) * MonthsOfYear] * DayLen
<1> PICK l \in Nat \ {0} : l = MonthsOfYear
    BY SizeFact
<1> PICK b : b = y * l
    OBVIOUS
<1>1. /\ b \in Nat /\ b \in 0 .. LastMonth /\ (y + 1) * l = b + l /\ b + l \in 0 .. LastMonth + 1
      /\ LastMonth \in Nat /\ b \in 0 .. LastMonth + 1 /\ l \in 0 .. LastMonth + 1
    BY YearMonths, SizeFact
<1> DEFINE S == {j \in 0 .. l : MonthStart[b] + MonthStart[j] <= MonthStart[b + j]}
<1>2. 0 \in S
  <2>1. 0 \in 0 .. l /\ b + 0 = b /\ MonthStart[b] \in Nat /\ MonthStart[0] = 0
      BY <1>1, StartFact
  <2> QED BY <2>1
<1>3. ASSUME NEW j \in 0 .. l - 1, j \in S
      PROVE  j + 1 \in S
  <2>1. /\ j \in Nat /\ b + j \in Nat /\ b + j \in 0 .. LastMonth /\ j \in 0 .. LastMonth
        /\ b + (j + 1) = (b + j) + 1 /\ j + 1 \in 0 .. l
        /\ b + j \in 0 .. LastMonth + 1 /\ j \in 0 .. LastMonth + 1
      BY <1>1
  <2>2. (b + j) % l = j
    <3> PICK x : x = b + j
        OBVIOUS
    <3>1. x = y * l + j /\ y \in Int /\ j \in 0 .. l - 1 /\ l \in Nat \ {0}
        OBVIOUS
    <3>2. x \in Int /\ x \div l = y /\ x % l = j
        BY ONLY <3>1, QuotientIs, Zenon
    <3> QED BY <3>2
  <2>3. DaysIn(j) \in Nat /\ DaysIn(b + j) \in Nat /\ DaysIn(j) <= DaysIn(b + j)
    <3>1. /\ DaysIn((b + j) % MonthsOfYear) \in Nat \ {0} /\ DaysIn(b + j) \in Nat \ {0}
          /\ DaysIn((b + j) % MonthsOfYear) <= DaysIn(b + j)
        BY <2>1, DaysFact
    <3> QED BY <2>2, <3>1, Zenon
  <2>4. /\ MonthStart[j + 1] = MonthStart[j] + DaysIn(j)
        /\ MonthStart[b + (j + 1)] = MonthStart[b + j] + DaysIn(b + j)
        /\ MonthStart[b] \in Nat /\ MonthStart[j] \in Nat /\ MonthStart[b + j] \in Nat
      BY <1>1, <2>1, StartFact
  <2>5. MonthStart[b] + MonthStart[j] <= MonthStart[b + j]
      BY <1>3
  <2>6. MonthStart[b] + MonthStart[j + 1] <= MonthStart[b + (j + 1)]
      BY <2>3, <2>4, <2>5
  <2> QED BY <2>1, <2>6
<1>4. l \in S
  <2> HIDE DEF S
  <2> QED BY <1>2, <1>3, CountUp
<1>5. MonthStart[b] \in Nat /\ MonthStart[l] \in Nat /\ MonthStart[b + l] \in Nat
    BY <1>1, StartFact
<1>6. /\ MonthStart[l] * DayLen \in Nat
      /\ MonthStart[b] * DayLen + MonthStart[l] * DayLen <= MonthStart[b + l] * DayLen
    BY <1>4, <1>5, HoursFact
<1>7. Floor("yearly") = MonthStart[l] * DayLen
    BY DEF Floor
<1> QED BY <1>1, <1>6, <1>7

LEMMA WeekFact == Week \in Nat \ {0} /\ Floor("weekly") = Week
<1> PICK k \in Nat \ {0}, w \in Nat \ {0} : k = DayLen /\ w = WeekDays
    BY SizeFact
<1>1. 1 * k <= w * k /\ w * k \in Nat
    BY ProductGrows
<1> QED BY <1>1 DEF Week, Floor

-----------------------------------------------------------------------------
(* The guess *)

LEMMA MaxIs ==
    ASSUME NEW a \in Int, NEW b \in Int
    PROVE  Max({a, b}) = IF a >= b THEN a ELSE b
<1>1. PICK y : y = IF a >= b THEN a ELSE b
    OBVIOUS
<1>2. y \in {a, b} /\ \A x \in {a, b} : y >= x
    BY <1>1
<1>3. Max({a, b}) = CHOOSE x \in {a, b} : \A z \in {a, b} : x >= z
    BY DEF Max
<1>4. Max({a, b}) \in {a, b} /\ \A z \in {a, b} : Max({a, b}) >= z
    BY <1>2, <1>3, Zenon
<1> QED BY <1>1, <1>2, <1>4

LEMMA NearIs ==
    ASSUME NEW g \in Int, NEW n \in Nat
    PROVE  /\ n \in Near(g) <=> g - 1 <= n /\ n <= (IF g + 2 >= 0 THEN g + 2 ELSE 0)
           /\ \A k \in Near(g) : k \in Nat /\ k <= (IF g + 2 >= 0 THEN g + 2 ELSE 0)
<1>1. /\ Max({g - 1, 0}) = (IF g - 1 >= 0 THEN g - 1 ELSE 0)
      /\ Max({g + 2, 0}) = (IF g + 2 >= 0 THEN g + 2 ELSE 0)
    BY MaxIs
<1>2. Near(g) = (IF g - 1 >= 0 THEN g - 1 ELSE 0) .. (IF g + 2 >= 0 THEN g + 2 ELSE 0)
    BY <1>1 DEF Near
<1> QED BY <1>2

\* Occurrence n begins, on the clock, in block n of blocks at least floor long; read
\* as an instant it is up to an hour earlier.
Blocks(top, B, loc, at, floor, off) ==
    /\ \A n \in 0 .. top : /\ B[n] \in Int /\ loc[n] \in Int /\ B[n] <= loc[n]
                           /\ at[n] \in {loc[n] - off, loc[n] - off - 1}
    /\ \A n \in 0 .. top - 1 : loc[n] < B[n + 1] /\ B[n] + floor <= B[n + 1]

\* The window begins in block g of those, or before all if g is negative.
BeginsIn(top, B, g, w) ==
    /\ g \in Int /\ g + 2 <= top
    /\ g >= 1 => B[g] <= w
    /\ w < B[IF g + 1 >= 0 THEN g + 1 ELSE 0]

Guessing(top, B, loc, at, floor, off, r, s, e, w, g) ==
    /\ top \in Nat /\ floor \in Nat /\ off \in Int /\ s \in Int /\ e \in Int
    /\ r.start \in Int /\ r.end \in Int /\ r.start < r.end /\ r.end - r.start < floor
    /\ Blocks(top, B, loc, at, floor, off) /\ BeginsIn(top, B, g, w)
    /\ w \in {s + off, s + off + 1}

\* Then an occurrence that meets the window is near g, or one that is meets it too.
LEMMA GuessReaches ==
    ASSUME NEW top, NEW B, NEW loc, NEW at, NEW floor, NEW off, NEW r, NEW s, NEW e, NEW w, NEW g,
           Guessing(top, B, loc, at, floor, off, r, s, e, w, g)
    PROVE  /\ \A n \in Near(g) : n \in 0 .. top
           /\ (\E n \in Near(g) : MeetsAt(r, s, e, at[n]))
              <=> (\E n \in 0 .. top : MeetsAt(r, s, e, at[n]))
<1> DEFINE high == IF g + 2 >= 0 THEN g + 2 ELSE 0
           k == IF g + 1 >= 0 THEN g + 1 ELSE 0
           dur == r.end - r.start
<1> USE DEF Guessing, Blocks, BeginsIn
<1>1. /\ high \in 0 .. top /\ k \in 0 .. top /\ k <= high /\ g - 1 <= k
      /\ dur \in Int /\ 1 <= dur /\ dur < floor /\ w < B[k]
    OBVIOUS
<1>2. \A a, b \in 0 .. top : a <= b => B[a] <= B[b]
  <2> SUFFICES ASSUME NEW a \in 0 .. top PROVE \A b \in 0 .. top : a <= b => B[a] <= B[b]
      OBVIOUS
  <2> DEFINE S == {b \in 0 .. top : a <= b => B[a] <= B[b]}
  <2>1. 0 \in S
      OBVIOUS
  <2>2. ASSUME NEW n \in 0 .. top - 1, n \in S
        PROVE  n + 1 \in S
    <3>1. n \in 0 .. top /\ n + 1 \in 0 .. top /\ B[n] + floor <= B[n + 1]
        OBVIOUS
    <3>2. B[a] \in Int /\ B[n] \in Int /\ B[n + 1] \in Int
        BY <3>1
    <3>3. CASE a <= n
        BY <3>1, <3>2, <3>3, <2>2
    <3>4. CASE n + 1 <= a
      <4>1. a <= n + 1 => a = n + 1
          BY <3>4
      <4> QED BY <3>1, <3>2, <4>1
    <3> QED BY <3>3, <3>4
  <2>3. \A b \in 0 .. top : b \in S
    <3> HIDE DEF S
    <3> QED BY <2>1, <2>2, CountUp
  <2> QED BY <2>3
<1>3. \A n \in Near(g) : n \in 0 .. top
  <2> SUFFICES ASSUME NEW n \in Near(g) PROVE n \in 0 .. top
      OBVIOUS
  <2>1. n \in Nat /\ n <= high
      BY NearIs
  <2> QED BY <1>1, <2>1
<1>4. k \in Near(g)
  <2> HIDE DEF high, k
  <2>1. k \in Nat
      BY <1>1
  <2> QED BY <1>1, <2>1, NearIs DEF high
<1>5. ASSUME NEW n \in 0 .. top, MeetsAt(r, s, e, at[n])
      PROVE  \E i \in Near(g) : MeetsAt(r, s, e, at[i])
  <2>0. /\ B[n] \in Int /\ loc[n] \in Int /\ B[n] <= loc[n] /\ at[n] \in Int
        /\ at[n] <= loc[n] - off /\ loc[n] - off - 1 <= at[n]
        /\ at[n] < e /\ s < at[n] + dur
      BY <1>5 DEF MeetsAt
  <2>1. CASE n < g - 1
    <3>1. n \in 0 .. top - 1 /\ n + 1 \in 0 .. top /\ g - 1 \in 0 .. top - 1 /\ g \in 0 .. top /\ g >= 1
          /\ n + 1 <= g - 1 /\ g - 1 \in 0 .. top /\ (g - 1) + 1 = g
        BY <2>1
    <3>2. loc[n] < B[n + 1] /\ B[n + 1] <= B[g - 1]
        BY <1>2, <3>1
    <3>3. B[g - 1] + floor <= B[(g - 1) + 1]
        BY <3>1
    <3>4. B[n + 1] \in Int /\ B[g - 1] \in Int /\ B[g] \in Int
        BY <3>1
    <3>5. B[g] <= w
        BY <3>1
    <3>6. at[n] + dur <= B[g] - off - 2
        BY <1>1, <2>0, <3>1, <3>2, <3>3, <3>4
    <3>7. B[g] - off - 1 <= s
        BY <3>4, <3>5
    <3> QED BY <1>1, <2>0, <3>4, <3>6, <3>7
  <2>2. CASE g - 1 <= n /\ n <= high
      BY <2>2, <1>5, NearIs
  <2>3. CASE high < n
    <3> HIDE DEF high, k, dur
    <3>0. k + 1 <= n
        BY <2>3 DEF high, k
    <3>1. k \in 0 .. top - 1 /\ k + 1 \in 0 .. top /\ k + 1 <= n
        BY <1>1, <3>0
    <3>2. loc[k] < B[k + 1] /\ B[k + 1] <= B[n]
        BY <1>2, <3>1
    <3>3. /\ B[k + 1] \in Int /\ B[k] \in Int /\ loc[k] \in Int /\ B[k] <= loc[k]
          /\ at[k] \in Int /\ at[k] <= loc[k] - off /\ loc[k] - off - 1 <= at[k]
        BY <1>1, <3>1
    <3>4. at[k] < e
        BY <2>0, <3>2, <3>3
    <3>5. s < at[k] + dur
      <4>1. s + off <= w
          OBVIOUS
      <4>2. w < B[k]
          BY <1>1
      <4> QED BY <1>1, <3>3, <4>1, <4>2
    <3>6. MeetsAt(r, s, e, at[k])
        BY <3>4, <3>5 DEF MeetsAt, dur
    <3> QED BY <1>4, <3>6
  <2> QED BY <1>1, <2>1, <2>2, <2>3
<1> HIDE DEF high, k, dur
<1> QED BY <1>3, <1>5

-----------------------------------------------------------------------------
(* Schedules *)

Schedule(r) ==
    /\ r.start \in Int /\ r.end \in Int /\ r.period \in {"weekly", "monthly", "yearly"}
    /\ r.start < r.end /\ r.end - r.start < Floor(r.period)
    /\ Zone(r.zone) /\ Local(r.zone, r.start) \in Calendar

First(r) == Local(r.zone, r.start)

Top(r) ==
    CASE r.period = "weekly"  -> LastDay \div WeekDays + 2
      [] r.period = "monthly" -> LastMonth - MonthOf(First(r))
      [] r.period = "yearly"  -> Years - 1 - YearOf(MonthOf(First(r)))

\* The week, month or year of occurrence n begins here.
Block(r, n) ==
    CASE r.period = "weekly"  -> First(r) + n * Week
      [] r.period = "monthly" -> MonthStart[MonthOf(First(r)) + n] * DayLen
      [] r.period = "yearly"  -> MonthStart[(YearOf(MonthOf(First(r))) + n) * MonthsOfYear] * DayLen

LEMMA FirstFact ==
    ASSUME NEW r, Schedule(r)
    PROVE  /\ First(r) \in Int /\ First(r) \in Calendar
           /\ MonthOf(First(r)) \in 0 .. LastMonth /\ In(First(r), MonthOf(First(r)))
           /\ Zone(r.zone) /\ r.zone.offset \in Int
  BY MonthOfIn DEF Schedule, First, In, Zone

LEMMA LastDayFact == LastDay \in Nat /\ LastDay \div WeekDays \in Nat
<1> PICK w \in Nat \ {0} : w = WeekDays
    BY SizeFact
<1>1. LastMonth \in Nat /\ LastMonth \in 0 .. LastMonth + 1 /\ LastMonth \in 0 .. LastMonth
    BY SizeFact
<1>2. /\ MonthStart[LastMonth] \in Nat /\ DaysIn(LastMonth) \in Nat \ {0}
      /\ MonthStart[LastMonth + 1] = MonthStart[LastMonth] + DaysIn(LastMonth)
    BY <1>1, StartFact, DaysFact
<1>3. LastDay = MonthStart[LastMonth + 1] - 1
    BY SizeFact DEF LastDay
<1>4. LastDay \in Nat
    BY <1>2, <1>3
<1>5. LastDay \div w \in Nat
    BY <1>4
<1> QED BY <1>4, <1>5

LEMMA TopFact ==
    ASSUME NEW r, Schedule(r)
    PROVE  Top(r) \in Nat /\ Occurrences(r) = 0 .. Top(r)
<1> PICK m \in 0 .. LastMonth : m = MonthOf(First(r))
    BY FirstFact
<1>1. /\ LastMonth \in Nat /\ Years * MonthsOfYear - 1 = LastMonth /\ Years \in Nat
      /\ YearOf(m) \in 0 .. Years - 1
    BY SizeFact, YearIs
<1>2. CASE r.period = "weekly"
    BY <1>2, LastDayFact DEF Top, Occurrences
<1>3. CASE r.period = "monthly"
    BY <1>1, <1>3 DEF Top, Occurrences, First
<1>4. CASE r.period = "yearly"
    BY <1>1, <1>4 DEF Top, Occurrences, First
<1> QED BY <1>2, <1>3, <1>4 DEF Schedule

\* Occurrence n is in block n, by Go and by PostgreSQL, and blocks are as long as
\* a schedule is short of.
LEMMA BlockFact ==
    ASSUME NEW r, Schedule(r), NEW n \in 0 .. Top(r)
    PROVE  /\ GoOccurrence(r, n) = SqlOccurrence(r, n) /\ SqlOccurrence(r, n) \in Int
           /\ n = 0 => SqlOccurrence(r, n) = First(r)
           /\ Block(r, n) \in Int /\ Block(r, n) <= SqlOccurrence(r, n)
           /\ Floor(r.period) \in Nat
           /\ n + 1 \in 0 .. Top(r) => /\ SqlOccurrence(r, n) < Block(r, n + 1)
                                       /\ Block(r, n) + Floor(r.period) <= Block(r, n + 1)
<1> PICK first, m : first = First(r) /\ m = MonthOf(first)
    OBVIOUS
<1>1. /\ first \in Int /\ first \in Calendar /\ m \in 0 .. LastMonth /\ m \in Nat
      /\ In(first, m) /\ LastMonth \in Nat /\ n \in Nat /\ n + 1 \in Nat /\ Top(r) \in Nat
    BY FirstFact, SizeFact, TopFact
<1>2. CASE r.period = "weekly"
  <2> PICK w \in Nat \ {0} : w = Week /\ Floor("weekly") = Week
      BY WeekFact
  <2>1. /\ GoOccurrence(r, n) = first + n * w /\ SqlOccurrence(r, n) = first + n * w
        /\ Block(r, n) = first + n * w /\ Block(r, n + 1) = first + (n + 1) * w
        /\ Floor(r.period) = w
      BY <1>2 DEF GoOccurrence, SqlOccurrence, Block, First
  <2>2. n * w \in Int /\ (n + 1) * w = n * w + w /\ (n = 0 => n * w = 0)
      BY <1>1
  <2> QED BY <1>1, <2>1, <2>2
<1>3. CASE r.period = "monthly"
  <2>1. Top(r) = LastMonth - m
      BY <1>3 DEF Top
  <2>2. m + n \in 0 .. LastMonth /\ m + n <= LastMonth /\ (m + n) + 1 = m + (n + 1)
      BY <1>1, <2>1
  <2>3. GoOccurrence(r, n) = AddMonthsClamped(first, n) /\ SqlOccurrence(r, n) = SqlAddMonths(first, n)
      BY <1>3 DEF GoOccurrence, SqlOccurrence, First
  <2>4. /\ AddMonthsClamped(first, n) = SqlAddMonths(first, n) /\ SqlAddMonths(first, n) \in Int
        /\ In(SqlAddMonths(first, n), m + n)
        /\ n = 0 => SqlAddMonths(first, n) = first
      BY <1>1, <2>2, ClampedAlike
  <2>5. /\ Block(r, n) = MonthStart[m + n] * DayLen
        /\ Block(r, n + 1) = MonthStart[m + (n + 1)] * DayLen
        /\ Floor(r.period) = Floor("monthly")
      BY <1>3 DEF Block, First
  <2>6. /\ Floor("monthly") \in Nat
        /\ MonthStart[m + n] * DayLen + Floor("monthly") <= MonthStart[(m + n) + 1] * DayLen
      BY <2>2, MonthGap
  <2>7. MonthStart[m + n] * DayLen \in Int
    <3>1. m + n \in 0 .. LastMonth + 1
        BY <1>1, <2>2
    <3>2. MonthStart[m + n] \in Nat
        BY <3>1, StartFact
    <3> QED BY <3>2, SizeFact
  <2>8. /\ MonthStart[m + n] * DayLen <= SqlAddMonths(first, n)
        /\ SqlAddMonths(first, n) < MonthStart[(m + n) + 1] * DayLen
      BY <2>4 DEF In
  <2> QED BY <2>2, <2>3, <2>4, <2>5, <2>6, <2>7, <2>8
<1>4. CASE r.period = "yearly"
  <2> PICK l \in Nat \ {0} : l = MonthsOfYear
      BY SizeFact
  <2> PICK y : y = YearOf(m)
      OBVIOUS
  <2>1. /\ Top(r) = Years - 1 - y /\ y \in 0 .. Years - 1 /\ Years \in Nat
        /\ y * l <= m /\ m < (y + 1) * l
      BY <1>1, <1>4, YearIs, SizeFact DEF Top
  <2>2. y + n \in 0 .. Years - 1 /\ y \in Nat
      BY <1>1, <2>1
  <2>3. /\ (y + n) * l \in 0 .. LastMonth /\ ((y + n) + 1) * l \in 0 .. LastMonth + 1
        /\ ((y + n) + 1) * l = (y + n) * l + l
      BY <2>2, YearMonths
  <2> PICK k \in Nat : k = n * l
      BY <1>1
  <2>4. (y + n) * l = y * l + k /\ (y + 1) * l = y * l + l /\ y * l \in Nat
      BY <1>1, <2>2
  <2>5. (y + n) * l <= m + k /\ m + k < ((y + n) + 1) * l /\ m + k <= LastMonth /\ m + k \in Nat
      BY <1>1, <2>1, <2>3, <2>4
  <2>6. GoOccurrence(r, n) = AddMonthsClamped(first, k) /\ SqlOccurrence(r, n) = SqlAddMonths(first, k)
      BY <1>4 DEF GoOccurrence, SqlOccurrence, First
  <2>7. /\ AddMonthsClamped(first, k) = SqlAddMonths(first, k) /\ SqlAddMonths(first, k) \in Int
        /\ In(SqlAddMonths(first, k), m + k)
        /\ k = 0 => SqlAddMonths(first, k) = first
      BY <1>1, <2>5, ClampedAlike
  <2>8. /\ Block(r, n) = MonthStart[(y + n) * l] * DayLen
        /\ Block(r, n + 1) = MonthStart[(y + (n + 1)) * l] * DayLen
        /\ Floor(r.period) = Floor("yearly")
      BY <1>4 DEF Block, First
  <2>9. /\ Floor("yearly") \in Nat
        /\ MonthStart[(y + n) * l] * DayLen + Floor("yearly") <= MonthStart[((y + n) + 1) * l] * DayLen
      BY <2>2, YearGap
  <2> PICK a, b : a = (y + n) * l /\ b = ((y + n) + 1) * l
      OBVIOUS
  <2>10. /\ a \in 0 .. LastMonth + 1 /\ m + k \in 0 .. LastMonth + 1 /\ a <= m + k
         /\ (m + k) + 1 \in 0 .. LastMonth + 1 /\ b \in 0 .. LastMonth + 1 /\ (m + k) + 1 <= b
      BY <1>1, <2>3, <2>5
  <2>11. /\ MonthStart[a] \in Nat /\ MonthStart[b] \in Nat
         /\ MonthStart[m + k] \in Nat /\ MonthStart[(m + k) + 1] \in Nat
         /\ MonthStart[a] <= MonthStart[m + k]
         /\ MonthStart[(m + k) + 1] <= MonthStart[b]
      BY <2>10, StartsGrow
  <2>12. /\ MonthStart[a] * DayLen <= MonthStart[m + k] * DayLen
         /\ MonthStart[(m + k) + 1] * DayLen <= MonthStart[b] * DayLen
         /\ MonthStart[a] * DayLen \in Int /\ MonthStart[b] * DayLen \in Int
         /\ MonthStart[m + k] * DayLen \in Int /\ MonthStart[(m + k) + 1] * DayLen \in Int
    <3> PICK d \in Nat : d = DayLen
        BY SizeFact
    <3>1. ASSUME NEW u \in Nat, NEW v \in Nat, u <= v
          PROVE  u * d <= v * d /\ u * d \in Int /\ v * d \in Int
        BY <3>1, ProductGrows
    <3> QED BY <2>11, <3>1
  <2>13. /\ MonthStart[m + k] * DayLen <= SqlAddMonths(first, k)
         /\ SqlAddMonths(first, k) < MonthStart[(m + k) + 1] * DayLen
      BY <2>7 DEF In
  <2>14. n = 0 => k = 0
      OBVIOUS
  <2>15. (y + n) + 1 = y + (n + 1)
      BY <1>1, <2>2
  <2> QED BY <2>6, <2>7, <2>8, <2>9, <2>12, <2>13, <2>14, <2>15
<1> QED BY <1>2, <1>3, <1>4 DEF Schedule

\* A window of the calendar, not in its last two years.
Window(zone, s) ==
    /\ s \in Int /\ Local(zone, s) \in Calendar
    /\ YearOf(MonthOf(Local(zone, s))) + 2 < Years

\* The weeks between, rounded down by PostgreSQL and towards zero by Go.
LEMMA WeeksFact ==
    ASSUME NEW delta \in Int, NEW w \in Nat \ {0},
           NEW g \in {Quot(delta, w), delta \div w}
    PROVE  /\ g \in Int
           /\ g >= 1 => g * w <= delta
           /\ delta < (IF g + 1 >= 0 THEN g + 1 ELSE 0) * w
           /\ g * w <= (IF delta >= 0 THEN delta ELSE 0)
<1>1. CASE g = delta \div w
  <2>1. g \in Int /\ g * w <= delta /\ delta < (g + 1) * w
      BY <1>1, DivFact
  <2>2. CASE g + 1 >= 0
      BY <2>1, <2>2
  <2>3. CASE g + 1 < 0
    <3>1. (0 - (g + 1)) * w \in Nat /\ (0 - (g + 1)) * w = 0 - (g + 1) * w /\ (g + 1) * w \in Int
        BY <2>1, <2>3, ProductGrows
    <3>2. 0 * w = 0
        OBVIOUS
    <3> QED BY <2>1, <2>3, <3>1, <3>2
  <2>4. g * w <= (IF delta >= 0 THEN delta ELSE 0)
    <3>1. g * w \in Int
        BY <2>1
    <3> QED BY <2>1, <3>1
  <2> QED BY <2>1, <2>2, <2>3, <2>4
<1>2. CASE g # delta \div w
  <2>1. delta < 0 /\ g = -((-delta) \div w)
      BY <1>2 DEF Quot
  <2>2. PICK q \in Int : q = (-delta) \div w /\ q * w <= -delta /\ -delta < (q + 1) * w
    <3>1. -delta \in Int
        OBVIOUS
    <3> QED BY <3>1, DivFact
  <2>3. q >= 0
    <3>1. 0 * w < (q + 1) * w /\ q + 1 \in Int
        BY <2>1, <2>2
    <3>2. 0 < q + 1
        BY <3>1, Cancels
    <3> QED BY <3>2
  <2>4. g = -q /\ g \in Int /\ g <= 0
      BY <2>1, <2>2, <2>3
  <2>5. g * w <= 0
    <3>1. q * w \in Nat /\ g * w = -(q * w)
        BY <2>3, <2>4, ProductGrows
    <3> QED BY <3>1
  <2>6. delta < (IF g + 1 >= 0 THEN g + 1 ELSE 0) * w
    <3>1. (IF g + 1 >= 0 THEN g + 1 ELSE 0) \in Nat
        BY <2>4
    <3>2. (IF g + 1 >= 0 THEN g + 1 ELSE 0) * w \in Nat
        BY <3>1, ProductGrows
    <3> QED BY <2>1, <3>2
  <2> QED BY <2>1, <2>4, <2>5, <2>6
<1> QED BY <1>1, <1>2

\* The guess is the block that the window begins in, and the calendar has room for
\* two more.
LEMMA GuessIs ==
    ASSUME NEW r, Schedule(r), NEW s, Window(r.zone, s),
           NEW weeks \in {Quot(Local(r.zone, s) - First(r), Week), (Local(r.zone, s) - First(r)) \div Week},
           NEW g, g = Guess(r, s, weeks)
    PROVE  /\ g \in Int /\ g + 2 <= Top(r)
           /\ g >= 1 => Block(r, g) <= Local(r.zone, s)
           /\ Local(r.zone, s) < Block(r, IF g + 1 >= 0 THEN g + 1 ELSE 0)
<1> PICK w, v, first, m : w = Local(r.zone, s) /\ v = MonthOf(w) /\ first = First(r) /\ m = MonthOf(first)
    OBVIOUS
<1> DEFINE k == IF g + 1 >= 0 THEN g + 1 ELSE 0
<1>1. /\ first \in Int /\ first \in Calendar /\ m \in 0 .. LastMonth /\ m \in Nat /\ In(first, m)
      /\ w \in Int /\ w \in Calendar /\ v \in 0 .. LastMonth /\ v \in Nat /\ In(w, v)
      /\ LastMonth \in Nat /\ Top(r) \in Nat
    BY FirstFact, SizeFact, TopFact, MonthOfIn DEF Window, In
<1> PICK l \in Nat \ {0} : l = MonthsOfYear
    BY SizeFact
<1> PICK y \in Nat, z \in Nat : y = YearOf(m) /\ z = YearOf(v)
    BY <1>1, DaysFact
<1>2. /\ y \in 0 .. Years - 1 /\ y * l <= m /\ m < (y + 1) * l
      /\ z \in 0 .. Years - 1 /\ z * l <= v /\ v < (z + 1) * l
      /\ z + 2 < Years /\ Years \in Nat
    BY <1>1, YearIs, SizeFact DEF Window
<1>3. /\ MonthStart[v] * DayLen <= w /\ w < MonthStart[v + 1] * DayLen
      /\ v \in 0 .. LastMonth + 1 /\ v + 1 \in 0 .. LastMonth + 1
    BY <1>1 DEF In
\* Whichever month a later one begins, the hours are in order.
<1>4. ASSUME NEW a \in 0 .. LastMonth + 1, NEW b \in 0 .. LastMonth + 1, a <= b
      PROVE  /\ MonthStart[a] * DayLen <= MonthStart[b] * DayLen
             /\ MonthStart[a] * DayLen \in Int /\ MonthStart[b] * DayLen \in Int
  <2>1. MonthStart[a] \in Nat /\ MonthStart[b] \in Nat /\ MonthStart[a] <= MonthStart[b]
      BY <1>4, StartsGrow
  <2> QED BY <2>1, SizeFact, ProductGrows
<1>5. CASE r.period = "weekly"
  <2> PICK u \in Nat \ {0} : u = Week
      BY WeekFact
  <2> PICK delta \in Int : delta = w - first
      BY <1>1
  <2>1. g = weeks /\ g \in {Quot(delta, u), delta \div u}
      BY <1>5 DEF Guess
  <2>2. /\ g \in Int
        /\ g >= 1 => g * u <= delta
        /\ delta < k * u
        /\ g * u <= (IF delta >= 0 THEN delta ELSE 0)
      BY <2>1, WeeksFact
  <2>3. Top(r) = LastDay \div WeekDays + 2
      BY <1>5 DEF Top
  <2>4. /\ LastDay \in Nat /\ 0 <= first /\ w < (LastDay + 1) * DayLen
        /\ (LastDay + 1) * DayLen \in Nat
    <3>1. LastDay \in Nat /\ (LastDay + 1) * DayLen \in Nat
        BY LastDayFact, SizeFact
    <3> QED BY <1>1, <3>1 DEF Calendar
  <2>5. g <= LastDay \div WeekDays
    <3> PICK d \in Nat \ {0}, e \in Nat \ {0} : d = DayLen /\ e = WeekDays
        BY SizeFact
    <3>1. u = e * d
        BY DEF Week
    <3>2. (g * e) * d = g * u /\ g * e \in Int
        BY <2>2, <3>1
    <3>3. g * u < (LastDay + 1) * d
      <4>1. g * u \in Int /\ delta < (LastDay + 1) * d /\ 0 < (LastDay + 1) * d
        <5>1. 1 * d <= (LastDay + 1) * d
            BY <2>4, ProductGrows
        <5> QED BY <1>1, <2>2, <2>4, <5>1
      <4> QED BY <2>2, <2>4, <4>1
    <3>4. g * e < LastDay + 1
      <4>1. (g * e) * d < (LastDay + 1) * d /\ LastDay + 1 \in Int
          BY <3>2, <3>3, <2>4
      <4> QED BY <3>2, <4>1, Cancels
    <3>5. g * e <= LastDay
        BY <2>4, <3>2, <3>4
    <3>6. LastDay < (LastDay \div e + 1) * e /\ LastDay \div e \in Int
        BY <2>4, DivFact
    <3>7. g * e < (LastDay \div e + 1) * e
      <4>1. (LastDay \div e + 1) * e \in Int
          BY <3>6
      <4> QED BY <2>4, <3>2, <3>5, <3>6, <4>1
    <3>8. g < LastDay \div e + 1
        BY <2>2, <3>6, <3>7, Cancels
    <3> QED BY <2>2, <3>6, <3>8
  <2>6. Block(r, g) = first + g * u /\ Block(r, k) = first + k * u
    <3> HIDE DEF k
    <3> QED BY <1>5 DEF Block
  <2>7. g * u \in Int /\ k * u \in Int
      BY <2>2
  <2>8. LastDay \div WeekDays \in Nat
      BY LastDayFact
  <2> HIDE DEF k
  <2> QED BY <1>1, <2>2, <2>3, <2>5, <2>6, <2>7, <2>8 DEF k
<1>6. CASE r.period = "monthly"
  <2>1. g = v - m /\ g \in Int
      BY <1>1, <1>6 DEF Guess, First
  <2>2. Top(r) = LastMonth - m
      BY <1>6 DEF Top
  <2>3. v + 2 <= LastMonth
    <3>1. (z + 2) * l <= LastMonth
      <4>1. z + 2 \in 0 .. Years - 1
          BY <1>2
      <4>2. (z + 2) * l \in 0 .. LastMonth
          BY <4>1, YearMonths
      <4> QED BY <1>1, <4>2
    <3>2. (z + 2) * l = (z + 1) * l + l /\ (z + 1) * l \in Int
        OBVIOUS
    <3> QED BY <1>1, <1>2, <3>1, <3>2
  <2>4. Block(r, g) = MonthStart[m + g] * DayLen /\ Block(r, k) = MonthStart[m + k] * DayLen
    <3> HIDE DEF k
    <3> QED BY <1>6 DEF Block
  <2>5. m + g = v /\ v + 1 <= m + k /\ m + k \in 0 .. LastMonth + 1
      BY <1>1, <2>1, <2>3
  <2>6. MonthStart[v + 1] * DayLen <= MonthStart[m + k] * DayLen
        /\ MonthStart[v + 1] * DayLen \in Int /\ MonthStart[m + k] * DayLen \in Int
    <3> HIDE DEF k
    <3> QED BY <1>3, <1>4, <2>5
  <2>7. Block(r, g) <= w
      BY <1>3, <2>4, <2>5
  <2>8. w < Block(r, k)
    <3> HIDE DEF k
    <3> QED BY <1>1, <1>3, <2>4, <2>6
  <2> QED BY <1>1, <2>1, <2>2, <2>3, <2>7, <2>8
<1>7. CASE r.period = "yearly"
  <2>1. g = z - y /\ g \in Int
      BY <1>1, <1>7 DEF Guess, First
  <2>2. Top(r) = Years - 1 - y
      BY <1>7 DEF Top
  <2>3. Block(r, g) = MonthStart[(y + g) * l] * DayLen /\ Block(r, k) = MonthStart[(y + k) * l] * DayLen
    <3> HIDE DEF k
    <3> QED BY <1>7 DEF Block
  <2>4. y + g = z /\ y + k \in 0 .. Years - 1 /\ z + 1 <= y + k
      BY <1>2, <2>1
  <2> PICK a, b : a = z * l /\ b = (y + k) * l
      OBVIOUS
  <2>5. a \in 0 .. LastMonth + 1 /\ a <= v
    <3>1. z * l \in 0 .. LastMonth
        BY <1>2, YearMonths
    <3> QED BY <1>1, <1>2, <3>1
  <2>6. b \in 0 .. LastMonth + 1 /\ v + 1 <= b
    <3> PICK x \in 0 .. Years - 1 : x = y + k
        BY <2>4
    <3>1. b = x * l /\ x * l \in 0 .. LastMonth
        BY YearMonths
    <3>2. (z + 1) * l <= x * l /\ (z + 1) * l \in Int
      <4>1. z + 1 \in Nat /\ x \in Nat /\ z + 1 <= x
          BY <2>4
      <4> QED BY <4>1, ProductGrows
    <3> QED BY <1>1, <1>2, <3>1, <3>2
  <2>7. /\ MonthStart[a] * DayLen <= MonthStart[v] * DayLen
        /\ MonthStart[a] * DayLen \in Int /\ MonthStart[v] * DayLen \in Int
      BY <1>3, <1>4, <2>5
  <2>8. /\ MonthStart[v + 1] * DayLen <= MonthStart[b] * DayLen
        /\ MonthStart[v + 1] * DayLen \in Int /\ MonthStart[b] * DayLen \in Int
      BY <1>3, <1>4, <2>6
  <2>9. Block(r, g) <= w
      BY <1>1, <1>3, <2>3, <2>4, <2>7
  <2>10. w < Block(r, k)
    <3>1. Block(r, k) = MonthStart[b] * DayLen
        BY <2>3, Zenon
    <3> HIDE DEF k
    <3> QED BY <1>1, <1>3, <3>1, <2>8
  <2> QED BY <1>1, <1>2, <2>1, <2>2, <2>9, <2>10
<1> QED BY <1>5, <1>6, <1>7 DEF Schedule

\* Trying the neighbours of the guess finds whatever trying all occurrences finds.
LEMMA GuessFinds ==
    ASSUME NEW r, Schedule(r), NEW s, Window(r.zone, s), NEW e \in Int
    PROVE  /\ GoOverlaps(r, s, e) <=> GoRecurs(r, s, e)
           /\ SqlOverlaps(r, s, e) <=> SqlRecurs(r, s, e)
<1> PICK top \in Nat : top = Top(r) /\ Occurrences(r) = 0 .. top
    BY TopFact
<1> PICK floor \in Nat : floor = Floor(r.period)
  <2>1. 0 \in 0 .. Top(r)
      BY TopFact
  <2> QED BY <2>1, BlockFact
<1> PICK off \in Int : off = r.zone.offset
    BY FirstFact
<1> PICK w : w = Local(r.zone, s)
    OBVIOUS
<1> DEFINE B   == [n \in 0 .. top |-> Block(r, n)]
           loc == [n \in 0 .. top |-> SqlOccurrence(r, n)]
           go  == [n \in 0 .. top |-> GoInstant(r.zone, GoOccurrence(r, n))]
           sql == [n \in 0 .. top |-> SqlInstant(r.zone, SqlOccurrence(r, n))]
<1>1. ASSUME NEW n \in 0 .. top
      PROVE  /\ B[n] \in Int /\ loc[n] \in Int /\ B[n] <= loc[n]
             /\ go[n] \in {loc[n] - off, loc[n] - off - 1}
             /\ sql[n] \in {loc[n] - off, loc[n] - off - 1}
  <2>1. /\ GoOccurrence(r, n) = SqlOccurrence(r, n) /\ SqlOccurrence(r, n) \in Int
        /\ Block(r, n) \in Int /\ Block(r, n) <= SqlOccurrence(r, n)
      BY BlockFact
  <2>2. Zone(r.zone)
      BY FirstFact
  <2> QED BY <2>1, <2>2, InstantRange
<1>2. ASSUME NEW n \in 0 .. top - 1
      PROVE  loc[n] < B[n + 1] /\ B[n] + floor <= B[n + 1]
  <2>1. n \in 0 .. top /\ n + 1 \in 0 .. top
      OBVIOUS
  <2>2. SqlOccurrence(r, n) < Block(r, n + 1) /\ Block(r, n) + floor <= Block(r, n + 1)
      BY <2>1, BlockFact
  <2> QED BY <2>1, <2>2
<1>3. /\ r.start \in Int /\ r.end \in Int /\ r.start < r.end /\ r.end - r.start < floor
      /\ s \in Int /\ w \in {s + off, s + off + 1} /\ Zone(r.zone)
  <2>1. s \in Int /\ Zone(r.zone)
      BY DEF Window, Schedule
  <2>2. w = s + Offset(r.zone, s) /\ Offset(r.zone, s) \in {off, off + 1}
      BY <2>1, OffsetFact
  <2>3. w \in {s + off, s + off + 1}
      BY <2>1, <2>2
  <2> QED BY <2>1, <2>3 DEF Schedule
<1>4. ASSUME NEW weeks \in {Quot(w - First(r), Week), (w - First(r)) \div Week},
             NEW g, g = Guess(r, s, weeks)
      PROVE  BeginsIn(top, B, g, w)
  <2> DEFINE k == IF g + 1 >= 0 THEN g + 1 ELSE 0
  <2>1. g \in Int /\ g + 2 <= top /\ (g >= 1 => Block(r, g) <= w) /\ w < Block(r, k)
      BY <1>4, GuessIs
  <2>2. k \in 0 .. top /\ (g >= 1 => g \in 0 .. top)
      BY <2>1
  <2>3. B[k] = Block(r, k) /\ (g >= 1 => B[g] = Block(r, g))
    <3> HIDE DEF k
    <3> QED BY <2>2
  <2> HIDE DEF k, B
  <2>4. w < B[k] /\ (g >= 1 => B[g] <= w)
      BY <2>1, <2>3
  <2> QED BY <2>1, <2>4 DEF k, BeginsIn
<1>5. GoOverlaps(r, s, e) <=> GoRecurs(r, s, e)
  <2> PICK g : g = Guess(r, s, Quot(w - First(r), Week))
      OBVIOUS
  <2>1. GoOverlaps(r, s, e)
        <=> \E n \in Near(g) : MeetsAt(r, s, e, GoInstant(r.zone, GoOccurrence(r, n)))
      BY Zenon DEF GoOverlaps, First
  <2>2. GoRecurs(r, s, e)
        <=> \E n \in 0 .. top : MeetsAt(r, s, e, GoInstant(r.zone, GoOccurrence(r, n)))
      BY Zenon DEF GoRecurs
  <2>3. BeginsIn(top, B, g, w)
      BY <1>4
  <2>4. \A n \in 0 .. top : go[n] = GoInstant(r.zone, GoOccurrence(r, n))
      OBVIOUS
  <2> HIDE DEF B, loc, go, sql
  <2>5. /\ \A n \in Near(g) : n \in 0 .. top
        /\ (\E n \in Near(g) : MeetsAt(r, s, e, go[n]))
           <=> (\E n \in 0 .. top : MeetsAt(r, s, e, go[n]))
    <3>1. Blocks(top, B, loc, go, floor, off)
        BY <1>1, <1>2 DEF Blocks
    <3>2. Guessing(top, B, loc, go, floor, off, r, s, e, w, g)
        BY <1>3, <2>3, <3>1 DEF Guessing
    <3> QED BY <3>2, GuessReaches, Zenon
  <2> QED BY <2>1, <2>2, <2>4, <2>5, Zenon
<1>6. SqlOverlaps(r, s, e) <=> SqlRecurs(r, s, e)
  <2> PICK g : g = Guess(r, s, (w - First(r)) \div Week)
      OBVIOUS
  <2>1. SqlOverlaps(r, s, e)
        <=> \E n \in Near(g) : MeetsAt(r, s, e, SqlInstant(r.zone, SqlOccurrence(r, n)))
      BY Zenon DEF SqlOverlaps, First
  <2>2. SqlRecurs(r, s, e)
        <=> \E n \in 0 .. top : MeetsAt(r, s, e, SqlInstant(r.zone, SqlOccurrence(r, n)))
      BY Zenon DEF SqlRecurs
  <2>3. BeginsIn(top, B, g, w)
      BY <1>4
  <2>4. \A n \in 0 .. top : sql[n] = SqlInstant(r.zone, SqlOccurrence(r, n))
      OBVIOUS
  <2> HIDE DEF B, loc, go, sql
  <2>5. /\ \A n \in Near(g) : n \in 0 .. top
        /\ (\E n \in Near(g) : MeetsAt(r, s, e, sql[n]))
           <=> (\E n \in 0 .. top : MeetsAt(r, s, e, sql[n]))
    <3>1. Blocks(top, B, loc, sql, floor, off)
        BY <1>1, <1>2 DEF Blocks
    <3>2. Guessing(top, B, loc, sql, floor, off, r, s, e, w, g)
        BY <1>3, <2>3, <3>1 DEF Guessing
    <3> QED BY <3>2, GuessReaches, Zenon
  <2> QED BY <2>1, <2>2, <2>4, <2>5, Zenon
<1> QED BY <1>5, <1>6

\* Where it is read alike, the search and the booking see the same occurrences.
LEMMA ReadersAgree ==
    ASSUME NEW r, Schedule(r), NEW s, NEW e, ~BeginsAtJump(r) \/ r.zone.offset >= 0
    PROVE  GoRecurs(r, s, e) <=> SqlRecurs(r, s, e)
<1>1. ASSUME NEW n \in Occurrences(r)
      PROVE  GoInstant(r.zone, GoOccurrence(r, n)) = SqlInstant(r.zone, SqlOccurrence(r, n))
  <2>1. GoOccurrence(r, n) = SqlOccurrence(r, n) /\ SqlOccurrence(r, n) \in Int
      BY TopFact, BlockFact
  <2>2. Zone(r.zone)
      BY DEF Schedule
  <2>3. CASE r.zone.offset >= 0
      BY <2>1, <2>2, <2>3, ReadAlikeEast
  <2>4. CASE ~BeginsAtJump(r)
    <3>1. Cardinality(Instants(r.zone, SqlOccurrence(r, n))) = 1
        BY <2>4 DEF BeginsAtJump
    <3> QED BY <2>1, <2>2, <3>1, ReadAlikeOnce
  <2> QED BY <2>3, <2>4
<1> QED BY <1>1, Zenon DEF GoRecurs, SqlRecurs

\* What the in-memory store makes of an instant.
After(r, at) ==
    LET local == Local(r.zone, at)
    IN  GoInstant(r.zone,
           CASE r.period = "weekly"  -> local + Week
             [] r.period = "monthly" -> AddMonths(local, 1)
             [] r.period = "yearly"  -> AddMonths(local, MonthsOfYear))

\* A day that is in every month is never moved: the occurrence after is a step away.
LEMMA NextOccurrence ==
    ASSUME NEW r, Schedule(r), InEveryMonth(r), NEW n \in Nat, n + 1 \in 0 .. Top(r),
           NEW local, local = SqlOccurrence(r, n)
    PROVE  /\ r.period = "weekly"  => local + Week = SqlOccurrence(r, n + 1)
           /\ r.period = "monthly" => AddMonths(local, 1) = SqlOccurrence(r, n + 1)
           /\ r.period = "yearly"  => AddMonths(local, MonthsOfYear) = SqlOccurrence(r, n + 1)
<1> PICK first, m : first = First(r) /\ m = MonthOf(first)
    OBVIOUS
<1>1. /\ first \in Int /\ first \in Calendar /\ m \in 0 .. LastMonth /\ m \in Nat
      /\ LastMonth \in Nat /\ n + 1 \in Nat /\ Top(r) \in Nat
    BY FirstFact, SizeFact, TopFact
<1>2. \A k \in Nat : DayOf(first) < DaysIn(k)
  <2>1. DayOf(first) < Shortest
      BY DEF InEveryMonth, DayOf, First, Shortest
  <2>2. ASSUME NEW k \in Nat PROVE DayOf(first) < DaysIn(k)
    <3>1. DayOf(first) \in Int
      <4>1. DaysIn(m) \in Nat /\ DayOf(first) \in 0 .. DaysIn(m) - 1
          BY <1>1, PartsOf, DaysFact
      <4> QED BY <4>1
    <3>2. Shortest \in Nat /\ Shortest <= DaysIn(k) /\ DaysIn(k) \in Nat
        BY ShortestFact, DaysFact
    <3> QED BY <2>1, <3>1, <3>2
  <2> QED BY <2>2
<1>3. ASSUME NEW k \in Nat, NEW j \in Nat, m + k + j <= LastMonth
      PROVE  AddMonths(SqlAddMonths(first, k), j) = SqlAddMonths(first, k + j)
  <2>1. m + k <= LastMonth /\ m + k \in Nat /\ m + k + j \in Nat
      BY <1>1, <1>3
  <2>2. DayOf(first) < DaysIn(m + k) /\ DayOf(first) < DaysIn(m + k + j)
      BY <1>2, <2>1
  <2> QED BY <1>1, <1>3, <2>1, <2>2, ClampedAlike
<1>4. CASE r.period = "weekly"
  <2> PICK w \in Nat \ {0} : w = Week
      BY WeekFact
  <2>1. local = first + n * w /\ SqlOccurrence(r, n + 1) = first + (n + 1) * w
      BY <1>4 DEF SqlOccurrence, First
  <2>2. n * w \in Int /\ (n + 1) * w = n * w + w
      OBVIOUS
  <2> QED BY <1>1, <1>4, <2>1, <2>2
<1>5. CASE r.period = "monthly"
  <2>1. Top(r) = LastMonth - m
      BY <1>5 DEF Top
  <2>2. m + n + 1 <= LastMonth
      BY <1>1, <2>1
  <2>3. local = SqlAddMonths(first, n) /\ SqlOccurrence(r, n + 1) = SqlAddMonths(first, n + 1)
      BY <1>5 DEF SqlOccurrence, First
  <2> QED BY <1>3, <1>5, <2>2, <2>3
<1>6. CASE r.period = "yearly"
  <2> PICK l \in Nat \ {0} : l = MonthsOfYear
      BY SizeFact
  <2> PICK y : y = YearOf(m)
      OBVIOUS
  <2>1. /\ Top(r) = Years - 1 - y /\ y \in 0 .. Years - 1 /\ Years \in Nat /\ m < (y + 1) * l
      BY <1>1, <1>6, YearIs, SizeFact DEF Top
  <2> PICK k \in Nat : k = n * l
      OBVIOUS
  <2>2. m + k + l <= LastMonth
    <3> PICK z : z = y + (n + 1)
        OBVIOUS
    <3>1. z \in 0 .. Years - 1 /\ z \in Nat /\ y \in Nat
        BY <1>1, <2>1
    <3>2. (z + 1) * l \in 0 .. LastMonth + 1
        BY <3>1, YearMonths
    <3>3. (z + 1) * l = (y + 1) * l + k + l /\ (y + 1) * l \in Nat
        BY <3>1
    <3> QED BY <1>1, <2>1, <3>2, <3>3
  <2>3. (n + 1) * l = k + l
      OBVIOUS
  <2>4. local = SqlAddMonths(first, k) /\ SqlOccurrence(r, n + 1) = SqlAddMonths(first, k + l)
    <3>1. local = SqlAddMonths(first, n * l) /\ SqlOccurrence(r, n + 1) = SqlAddMonths(first, (n + 1) * l)
        BY <1>6 DEF SqlOccurrence, First
    <3> QED BY <2>3, <3>1, Zenon
  <2> QED BY <1>3, <1>6, <2>2, <2>4
<1> QED BY <1>4, <1>5, <1>6 DEF Schedule

\* The walk of the in-memory store is over the occurrences.
LEMMA WalkIs ==
    ASSUME NEW r, Schedule(r), InEveryMonth(r), ~BeginsAtJump(r)
    PROVE  Walked(r) = [n \in Occurrences(r) |-> SqlInstant(r.zone, SqlOccurrence(r, n))]
<1> PICK top \in Nat : top = Top(r) /\ Occurrences(r) = 0 .. top
    BY TopFact
<1> PICK at : at = [n \in 0 .. top |-> SqlInstant(r.zone, SqlOccurrence(r, n))]
    OBVIOUS
<1> DEFINE Step(f) == [n \in 0 .. top |-> IF n = 0 THEN r.start ELSE After(r, f[n - 1])]
<1>0. Zone(r.zone) /\ r.start \in Int /\ 0 \in 0 .. top
    BY DEF Schedule
<1>1. ASSUME NEW n \in 0 .. top
      PROVE  /\ SqlOccurrence(r, n) \in Int
             /\ Cardinality(Instants(r.zone, SqlOccurrence(r, n))) = 1
             /\ at[n] \in Int /\ Local(r.zone, at[n]) = SqlOccurrence(r, n)
             /\ \A t \in Instants(r.zone, SqlOccurrence(r, n)) : t = at[n]
  <2>1. SqlOccurrence(r, n) \in Int
      BY BlockFact
  <2>2. Cardinality(Instants(r.zone, SqlOccurrence(r, n))) = 1
      BY DEF BeginsAtJump
  <2>3. /\ at[n] \in Instants(r.zone, SqlOccurrence(r, n))
        /\ \A t \in Instants(r.zone, SqlOccurrence(r, n)) : t = at[n]
      BY <1>0, <2>1, <2>2, OnlyInstant
  <2>4. at[n] \in Int /\ Local(r.zone, at[n]) = SqlOccurrence(r, n)
      BY <1>0, <2>1, <2>2, OnlyInstant
  <2> QED BY <2>1, <2>2, <2>3, <2>4
<1>2. r.start = at[0]
  <2>1. SqlOccurrence(r, 0) = Local(r.zone, r.start)
      BY <1>0, BlockFact DEF First
  <2>2. r.start \in Instants(r.zone, Local(r.zone, r.start))
    <3>1. Local(r.zone, r.start) = r.start + Offset(r.zone, r.start)
          /\ Offset(r.zone, r.start) \in {r.zone.offset, r.zone.offset + 1} /\ r.zone.offset \in Int
        BY <1>0, OffsetFact
    <3>2. r.start \in {Local(r.zone, r.start) - r.zone.offset, Local(r.zone, r.start) - r.zone.offset - 1}
        BY <1>0, <3>1
    <3> QED BY <3>2 DEF Instants
  <2> QED BY <1>0, <1>1, <2>1, <2>2
<1>3. ASSUME NEW n \in 0 .. top - 1 PROVE After(r, at[n]) = at[n + 1]
  <2>1. n \in 0 .. top /\ n \in Nat /\ n + 1 \in 0 .. top
      OBVIOUS
  <2> PICK local : local = SqlOccurrence(r, n)
      OBVIOUS
  <2>2. Local(r.zone, at[n]) = local
      BY <1>1, <2>1
  <2>3. /\ r.period = "weekly"  => local + Week = SqlOccurrence(r, n + 1)
        /\ r.period = "monthly" => AddMonths(local, 1) = SqlOccurrence(r, n + 1)
        /\ r.period = "yearly"  => AddMonths(local, MonthsOfYear) = SqlOccurrence(r, n + 1)
      BY <2>1, NextOccurrence
  <2>4. After(r, at[n]) = GoInstant(r.zone, SqlOccurrence(r, n + 1))
    <3>1. r.period \in {"weekly", "monthly", "yearly"}
        BY DEF Schedule
    <3> QED BY <2>2, <2>3, <3>1 DEF After
  <2>5. GoInstant(r.zone, SqlOccurrence(r, n + 1)) = SqlInstant(r.zone, SqlOccurrence(r, n + 1))
      BY <1>0, <1>1, <2>1, ReadAlikeOnce
  <2> QED BY <2>1, <2>4, <2>5
<1>4. at = Step(at)
  <2>1. ASSUME NEW n \in 0 .. top PROVE at[n] = Step(at)[n]
    <3>1. CASE n = 0
        BY <1>2, <3>1
    <3>2. CASE n # 0
      <4>1. n - 1 \in 0 .. top - 1 /\ (n - 1) + 1 = n
          BY <3>2
      <4>2. After(r, at[n - 1]) = at[n]
          BY <1>3, <4>1
      <4> QED BY <3>2, <4>2
    <3> QED BY <3>1, <3>2
  <2> QED BY <2>1
<1>5. ASSUME NEW f, f = Step(f) PROVE f = at
  <2> DEFINE S == {n \in 0 .. top : f[n] = at[n]}
  <2>1. 0 \in S
      BY <1>2, <1>5
  <2>2. ASSUME NEW n \in 0 .. top - 1, n \in S PROVE n + 1 \in S
    <3>1. n + 1 \in 0 .. top /\ n + 1 # 0 /\ (n + 1) - 1 = n
        OBVIOUS
    <3>2. f[n + 1] = After(r, f[n])
        BY <1>5, <3>1
    <3>3. f[n] = at[n]
        BY <2>2
    <3>4. f[n + 1] = at[n + 1]
        BY <1>3, <3>2, <3>3
    <3> QED BY <3>1, <3>4
  <2>3. \A n \in 0 .. top : f[n] = at[n]
    <3>1. \A n \in 0 .. top : n \in S
      <4> HIDE DEF S
      <4> QED BY <2>1, <2>2, CountUp
    <3> QED BY <3>1
  <2> QED BY <1>5, <2>3
<1>6. Walked(r) = CHOOSE f : f = Step(f)
    BY Zenon DEF Walked, After
<1>7. Walked(r) = at
  <2> HIDE DEF Step
  <2> QED BY <1>4, <1>5, <1>6, Zenon
<1> QED BY <1>7

\* Occurrences come one after another, so the walk that stops at the first to begin
\* when the window is over misses none.
LEMMA WalkAgrees ==
    ASSUME NEW r, Schedule(r), InEveryMonth(r), ~BeginsAtJump(r), NEW s \in Int, NEW e \in Int
    PROVE  MemOverlaps(r, s, e) <=> SqlRecurs(r, s, e)
<1> PICK top \in Nat : top = Top(r) /\ Occurrences(r) = 0 .. top
    BY TopFact
<1> PICK at : at = [n \in 0 .. top |-> SqlInstant(r.zone, SqlOccurrence(r, n))]
    OBVIOUS
<1> DEFINE off == r.zone.offset
<1>1. Walked(r) = at /\ DOMAIN at = 0 .. top
    BY WalkIs
<1>2. ASSUME NEW n \in 0 .. top
      PROVE  /\ SqlOccurrence(r, n) \in Int /\ Block(r, n) \in Int /\ Block(r, n) <= SqlOccurrence(r, n)
             /\ at[n] \in {SqlOccurrence(r, n) - off, SqlOccurrence(r, n) - off - 1}
             /\ at[n] \in Int /\ off \in Int
  <2>1. /\ SqlOccurrence(r, n) \in Int /\ Block(r, n) \in Int /\ Block(r, n) <= SqlOccurrence(r, n)
        /\ Zone(r.zone)
      BY BlockFact DEF Schedule
  <2> QED BY <2>1, InstantRange
<1>3. ASSUME NEW n \in 0 .. top - 1 PROVE at[n] <= at[n + 1]
  <2>1. n \in 0 .. top /\ n + 1 \in 0 .. top
      OBVIOUS
  <2>2. SqlOccurrence(r, n) < Block(r, n + 1)
      BY <2>1, BlockFact
  <2>3. /\ SqlOccurrence(r, n) \in Int /\ at[n] \in Int /\ off \in Int
        /\ at[n] \in {SqlOccurrence(r, n) - off, SqlOccurrence(r, n) - off - 1}
      BY <1>2, <2>1
  <2>4. /\ SqlOccurrence(r, n + 1) \in Int /\ at[n + 1] \in Int
        /\ Block(r, n + 1) \in Int /\ Block(r, n + 1) <= SqlOccurrence(r, n + 1)
        /\ at[n + 1] \in {SqlOccurrence(r, n + 1) - off, SqlOccurrence(r, n + 1) - off - 1}
      BY <1>2, <2>1
  <2> HIDE DEF off
  <2> QED BY <2>2, <2>3, <2>4
<1>4. ASSUME NEW n \in 0 .. top, NEW i \in 0 .. n PROVE at[i] <= at[n]
  <2> DEFINE S == {j \in 0 .. top : i <= j => at[i] <= at[j]}
  <2>1. 0 \in S
    <3>1. i \in 0 .. top /\ (i <= 0 => i = 0)
        OBVIOUS
    <3> QED BY <1>2, <3>1
  <2>2. ASSUME NEW j \in 0 .. top - 1, j \in S PROVE j + 1 \in S
    <3>1. j \in 0 .. top /\ j + 1 \in 0 .. top /\ i \in 0 .. top
        OBVIOUS
    <3>2. at[i] \in Int /\ at[j] \in Int /\ at[j + 1] \in Int /\ at[j] <= at[j + 1]
        BY <1>2, <1>3, <3>1
    <3>3. CASE i <= j
        BY <2>2, <3>1, <3>2, <3>3
    <3>4. CASE j + 1 <= i
      <4>1. i <= j + 1 => i = j + 1
          BY <3>4
      <4> QED BY <3>1, <3>2, <4>1
    <3> QED BY <3>1, <3>3, <3>4
  <2>3. n \in S
    <3> HIDE DEF S
    <3> QED BY <2>1, <2>2, CountUp
  <2> QED BY <2>3
<1>5. MemOverlaps(r, s, e)
      <=> \E n \in 0 .. top : (\A i \in 0 .. n : at[i] < e) /\ s < at[n] + (r.end - r.start)
    BY <1>1, Zenon DEF MemOverlaps
<1>6. SqlRecurs(r, s, e) <=> \E n \in 0 .. top : at[n] < e /\ s < at[n] + (r.end - r.start)
  <2>1. \A n \in 0 .. top : at[n] = SqlInstant(r.zone, SqlOccurrence(r, n))
      OBVIOUS
  <2> QED BY <2>1, Zenon DEF SqlRecurs, MeetsAt
<1>7. ASSUME NEW n \in 0 .. top PROVE (\A i \in 0 .. n : at[i] < e) <=> at[n] < e
  <2>1. n \in 0 .. n
      OBVIOUS
  <2>2. ASSUME at[n] < e, NEW i \in 0 .. n PROVE at[i] < e
    <3>1. i \in 0 .. top
        OBVIOUS
    <3>2. at[i] \in Int /\ at[n] \in Int /\ at[i] <= at[n]
        BY <1>2, <1>4, <3>1
    <3> QED BY <2>2, <3>2
  <2> QED BY <2>1, <2>2
<1> QED BY <1>5, <1>6, <1>7, Zenon

-----------------------------------------------------------------------------
(* Odd sets *)

Odd(S) == Cardinality(S) % 2 = 1

LEMMA OddUnion ==
    ASSUME NEW A, NEW B, IsFiniteSet(A), IsFiniteSet(B), A \cap B = {}
    PROVE  IsFiniteSet(A \cup B) /\ (Odd(A \cup B) <=> (Odd(A) /\ ~Odd(B)) \/ (~Odd(A) /\ Odd(B)))
<1>1. /\ IsFiniteSet(A \cup B) /\ Cardinality(A) \in Nat /\ Cardinality(B) \in Nat
      /\ Cardinality(A \cup B) = Cardinality(A) + Cardinality(B) - Cardinality(A \cap B)
    BY FS_Union, FS_CardinalityType
<1>2. Cardinality(A \cap B) = 0
    BY FS_EmptySet
<1> QED BY <1>1, <1>2 DEF Odd

\* What is in one of two sets and not in both.
LEMMA OddDifference ==
    ASSUME NEW A, NEW B, NEW D, IsFiniteSet(A), IsFiniteSet(B), D = (A \ B) \cup (B \ A)
    PROVE  IsFiniteSet(D) /\ (Odd(D) <=> (Odd(A) /\ ~Odd(B)) \/ (~Odd(A) /\ Odd(B)))
<1>1. IsFiniteSet(A \ B) /\ IsFiniteSet(B \ A) /\ IsFiniteSet(A \cap B)
  <2>1. A \ B \in SUBSET A /\ B \ A \in SUBSET B /\ A \cap B \in SUBSET A
      OBVIOUS
  <2> QED BY <2>1, FS_Subset
<1>2. /\ (A \ B) \cap (A \cap B) = {} /\ A = (A \ B) \cup (A \cap B)
      /\ (B \ A) \cap (A \cap B) = {} /\ B = (B \ A) \cup (A \cap B)
      /\ (A \ B) \cap (B \ A) = {}
    OBVIOUS
<1>3. /\ Odd(A) <=> (Odd(A \ B) /\ ~Odd(A \cap B)) \/ (~Odd(A \ B) /\ Odd(A \cap B))
      /\ Odd(B) <=> (Odd(B \ A) /\ ~Odd(A \cap B)) \/ (~Odd(B \ A) /\ Odd(A \cap B))
    BY <1>1, <1>2, OddUnion
<1>4. IsFiniteSet(D) /\ (Odd(D) <=> (Odd(A \ B) /\ ~Odd(B \ A)) \/ (~Odd(A \ B) /\ Odd(B \ A)))
    BY <1>1, <1>2, OddUnion
<1> QED BY <1>3, <1>4

\* Renamed one to one, a set stays odd or even.
LEMMA OddImage ==
    ASSUME NEW S, IsFiniteSet(S), NEW T, NEW f \in [S -> T],
           \A x, y \in S : f[x] = f[y] => x = y, \A t \in T : \E x \in S : f[x] = t
    PROVE  IsFiniteSet(T) /\ (Odd(T) <=> Odd(S))
<1>1. f \in Bijection(S, T)
    BY DEF Bijection, Injection, Surjection, IsInjective
<1>2. ExistsBijection(S, T)
    BY <1>1 DEF ExistsBijection
<1> QED BY <1>2, FS_Bijection DEF Odd

-----------------------------------------------------------------------------
(* Rings *)

\* A ring as loadRings reads it: it closes, and no edge comes twice.
Ring(r) ==
    /\ r \in Seq(Int \X Int) /\ r # <<>> /\ r[Len(r)] = r[1]
    /\ \A i, j \in 1 .. Len(r) - 1 :
          <<r[i], r[i + 1]>> = <<r[j], r[j + 1]>> => i = j

\* The edges of rings one of whose ends is in H and the other is not.
Changes(rings, H) ==
    {p \in EdgesOf(rings) :
        (<<p[1][1], p[1][2]>> \in H /\ <<p[1][3], p[1][4]>> \notin H)
        \/ (<<p[1][1], p[1][2]>> \notin H /\ <<p[1][3], p[1][4]>> \in H)}

LEMMA PartGrows ==
    ASSUME NEW S, NEW I, NEW J, NEW x, J = I \cup {x}, x \notin I
    PROVE  /\ x \in S => S \cap J = (S \cap I) \cup {x} /\ (S \cap I) \cap {x} = {}
           /\ x \notin S => S \cap J = S \cap I
  OBVIOUS

\* On the way along a ring, H is left as often as it is entered.
LEMMA WalkChanges ==
    ASSUME NEW r, Ring(r), NEW H, NEW turns,
           turns = {i \in 1 .. Len(r) - 1 : (r[i] \in H /\ r[i + 1] \notin H)
                                            \/ (r[i] \notin H /\ r[i + 1] \in H)}
    PROVE  IsFiniteSet(turns) /\ ~Odd(turns)
<1> DEFINE top == Len(r) - 1
           C(k) == turns \cap (1 .. k)
           S == {k \in 0 .. top : /\ IsFiniteSet(C(k))
                                  /\ Odd(C(k)) <=> (r[1] \in H /\ r[k + 1] \notin H)
                                                   \/ (r[1] \notin H /\ r[k + 1] \in H)}
<1>1. top \in Nat
    BY DEF Ring
<1>2. 0 \in S
  <2>1. C(0) = {}
      BY <1>1
  <2>2. IsFiniteSet({}) /\ ~Odd({})
      BY FS_EmptySet DEF Odd
  <2> QED BY <1>1, <2>1, <2>2
<1>3. ASSUME NEW k \in 0 .. top - 1, k \in S
      PROVE  k + 1 \in S
  <2>1. k \in 0 .. top /\ k + 1 \in 0 .. top /\ k + 1 \in 1 .. top /\ k + 1 \notin 1 .. k
        /\ 1 .. k + 1 = (1 .. k) \cup {k + 1}
      BY <1>1
  <2>2. k + 1 \in turns <=> (r[k + 1] \in H /\ r[(k + 1) + 1] \notin H)
                            \/ (r[k + 1] \notin H /\ r[(k + 1) + 1] \in H)
      BY <2>1
  <2>3. /\ IsFiniteSet(C(k))
        /\ Odd(C(k)) <=> (r[1] \in H /\ r[k + 1] \notin H) \/ (r[1] \notin H /\ r[k + 1] \in H)
      BY <1>3
  <2>4. CASE k + 1 \in turns
    <3>1. C(k + 1) = C(k) \cup {k + 1} /\ C(k) \cap {k + 1} = {}
        BY <2>1, <2>4, PartGrows
    <3>2. IsFiniteSet({k + 1}) /\ Odd({k + 1})
      <4>1. IsFiniteSet({k + 1}) /\ Cardinality({k + 1}) = 1
          BY FS_Singleton, Zenon
      <4> QED BY <4>1 DEF Odd
    <3>3. IsFiniteSet(C(k + 1)) /\ (Odd(C(k + 1)) <=> ~Odd(C(k)))
      <4> HIDE DEF C
      <4> QED BY <2>3, <3>1, <3>2, OddUnion
    <3> HIDE DEF C
    <3> QED BY <2>1, <2>2, <2>3, <2>4, <3>3
  <2>5. CASE k + 1 \notin turns
    <3>1. C(k + 1) = C(k)
        BY <2>1, <2>5, PartGrows
    <3> HIDE DEF C
    <3> QED BY <2>1, <2>2, <2>3, <2>5, <3>1
  <2> QED BY <2>4, <2>5
<1>4. top \in S
  <2> HIDE DEF S, top
  <2>1. \A k \in 0 .. top : k \in S
      BY <1>1, <1>2, <1>3, CountUp
  <2> QED BY <1>1, <2>1
<1>5. r[top + 1] = r[1] /\ C(top) = turns
    BY <1>1 DEF Ring
<1> HIDE DEF C
<1> QED BY <1>4, <1>5

LEMMA PairFact ==
    ASSUME NEW p \in Int \X Int
    PROVE  /\ p = <<p[1], p[2]>> /\ p[1] \in Int /\ p[2] \in Int
           /\ \A q \in Int \X Int : p[1] = q[1] /\ p[2] = q[2] => p = q
  OBVIOUS

\* So an even number of a ring's edges lead into H or out of it.
LEMMA RingChanges ==
    ASSUME NEW r, Ring(r), NEW H
    PROVE  /\ IsFiniteSet(EdgesOf({r}))
           /\ IsFiniteSet(Changes({r}, H)) /\ ~Odd(Changes({r}, H))
<1> DEFINE top == Len(r) - 1
           edge(i) == <<r[i][1], r[i][2], r[i + 1][1], r[i + 1][2]>>
           turns == {i \in 1 .. top : (r[i] \in H /\ r[i + 1] \notin H)
                                      \/ (r[i] \notin H /\ r[i + 1] \in H)}
           f == [i \in 1 .. top |-> <<edge(i), r>>]
<1>1. top \in Nat /\ \A i \in 1 .. top : /\ i \in 1 .. Len(r) /\ i + 1 \in 1 .. Len(r)
                                         /\ r[i] \in Int \X Int /\ r[i + 1] \in Int \X Int
    BY DEF Ring
<1>2. \A i \in 1 .. top : r[i] = <<r[i][1], r[i][2]>> /\ r[i + 1] = <<r[i + 1][1], r[i + 1][2]>>
    BY <1>1, PairFact
<1>3. EdgesOf({r}) = {f[i] : i \in 1 .. top}
    BY DEF EdgesOf, RingEdges
<1>4. \A i, j \in 1 .. top : f[i] = f[j] => i = j
  <2> SUFFICES ASSUME NEW i \in 1 .. top, NEW j \in 1 .. top, f[i] = f[j] PROVE i = j
      OBVIOUS
  <2>1. edge(i) = edge(j)
      OBVIOUS
  <2>2. /\ r[i][1] = r[j][1] /\ r[i][2] = r[j][2]
        /\ r[i + 1][1] = r[j + 1][1] /\ r[i + 1][2] = r[j + 1][2]
      BY <2>1
  <2>3. r[i] = r[j] /\ r[i + 1] = r[j + 1]
      BY <1>1, <2>2, PairFact, Zenon
  <2>4. <<r[i], r[i + 1]>> = <<r[j], r[j + 1]>>
      BY <2>3, Zenon
  <2> HIDE DEF f, edge
  <2> QED BY <2>4, Zenon DEF Ring
<1>5. IsFiniteSet(EdgesOf({r}))
  <2>1. IsFiniteSet(1 .. top)
      BY <1>1, FS_Interval
  <2>2. f \in [1 .. top -> {f[i] : i \in 1 .. top}]
      OBVIOUS
  <2>3. f \in [1 .. top -> EdgesOf({r})] /\ \A p \in EdgesOf({r}) : \E i \in 1 .. top : f[i] = p
    <3> HIDE DEF f, top
    <3> QED BY <1>3, <2>2
  <2> HIDE DEF f, top
  <2> QED BY <1>4, <2>1, <2>3, OddImage
<1>6. \A i \in 1 .. top : f[i] \in Changes({r}, H) <=> i \in turns
    BY <1>2, <1>3 DEF Changes
<1>7. IsFiniteSet(turns) /\ ~Odd(turns)
    BY WalkChanges
<1> DEFINE g == [i \in turns |-> f[i]]
<1>8. /\ g \in [turns -> Changes({r}, H)]
      /\ \A i, j \in turns : g[i] = g[j] => i = j
      /\ \A p \in Changes({r}, H) : \E i \in turns : g[i] = p
  <2>1. turns \subseteq 1 .. top
      OBVIOUS
  <2>2. \A p \in Changes({r}, H) : \E i \in 1 .. top : f[i] = p
    <3> HIDE DEF f
    <3> QED BY <1>3 DEF Changes
  <2> HIDE DEF f, turns
  <2> QED BY <1>4, <1>6, <2>1, <2>2
<1> HIDE DEF g, turns
<1> QED BY <1>5, <1>7, <1>8, OddImage

\* And of any finite set of rings.
LEMMA ChangesEven ==
    ASSUME NEW rings, IsFiniteSet(rings), \A r \in rings : Ring(r), NEW H
    PROVE  /\ IsFiniteSet(EdgesOf(rings))
           /\ IsFiniteSet(Changes(rings, H)) /\ ~Odd(Changes(rings, H))
<1> DEFINE Fine(Q) == /\ IsFiniteSet(EdgesOf(Q))
                      /\ IsFiniteSet(Changes(Q, H)) /\ ~Odd(Changes(Q, H))
           S == {n \in Nat : \A Q \in SUBSET rings : Cardinality(Q) = n => Fine(Q)}
           top == Cardinality(rings)
<1>1. top \in Nat /\ \A Q \in SUBSET rings : IsFiniteSet(Q) /\ Cardinality(Q) \in Nat
    BY FS_Subset, FS_CardinalityType
<1>2. 0 \in S
  <2>1. Fine({})
    <3>1. EdgesOf({}) = {} /\ Changes({}, H) = {}
        BY DEF EdgesOf, Changes
    <3> QED BY <3>1, FS_EmptySet DEF Odd
  <2>2. \A Q \in SUBSET rings : Cardinality(Q) = 0 => Q = {}
      BY <1>1, FS_EmptySet
  <2> HIDE DEF Fine
  <2> QED BY <2>1, <2>2
<1>3. ASSUME NEW n \in 0 .. top - 1, n \in S
      PROVE  n + 1 \in S
  <2> SUFFICES ASSUME NEW Q \in SUBSET rings, Cardinality(Q) = n + 1
               PROVE  Fine(Q)
    <3> HIDE DEF Fine
    <3> QED OBVIOUS
  <2>1. PICK r \in Q : TRUE
      BY <1>1, FS_EmptySet
  <2> DEFINE R == Q \ {r}
  <2>2. R \in SUBSET rings /\ Cardinality(R) = n
      BY <1>1, <2>1, FS_RemoveElement
  <2>3. Fine(R)
    <3> HIDE DEF Fine, R
    <3> QED BY <1>3, <2>2
  <2>4. Fine({r})
    <3>1. Ring(r)
        BY <2>1
    <3> QED BY <3>1, RingChanges
  <2>5. EdgesOf(Q) = EdgesOf(R) \cup EdgesOf({r})
      BY <2>1 DEF EdgesOf
  <2>6. /\ Changes(Q, H) = Changes(R, H) \cup Changes({r}, H)
        /\ Changes(R, H) \cap Changes({r}, H) = {}
    <3>1. EdgesOf(R) \cap EdgesOf({r}) = {}
        BY DEF EdgesOf
    <3> HIDE DEF R
    <3> QED BY <2>5, <3>1 DEF Changes
  <2>7. IsFiniteSet(EdgesOf(Q))
    <3> HIDE DEF R
    <3> QED BY <2>3, <2>4, <2>5, FS_Union
  <2>8. IsFiniteSet(Changes(Q, H)) /\ ~Odd(Changes(Q, H))
    <3> HIDE DEF R
    <3>1. /\ IsFiniteSet(Changes(R, H)) /\ ~Odd(Changes(R, H))
          /\ IsFiniteSet(Changes({r}, H)) /\ ~Odd(Changes({r}, H))
        BY <2>3, <2>4
    <3>2. /\ IsFiniteSet(Changes(R, H) \cup Changes({r}, H))
          /\ ~Odd(Changes(R, H) \cup Changes({r}, H))
        BY ONLY <2>6, <3>1, OddUnion, Zenon
    <3> QED BY ONLY <2>6, <3>2, Zenon
  <2> QED BY <2>7, <2>8
<1>4. top \in S
  <2> HIDE DEF S, top
  <2>1. \A n \in 0 .. top : n \in S
      BY <1>1, <1>2, <1>3, CountUp
  <2> QED BY <1>1, <2>1
<1> HIDE DEF Fine
<1> QED BY <1>4 DEF Fine

-----------------------------------------------------------------------------
(* The plane *)

LEMMA MinIs ==
    ASSUME NEW a \in Int, NEW b \in Int
    PROVE  Min({a, b}) = IF a <= b THEN a ELSE b
<1>1. PICK y : y = IF a <= b THEN a ELSE b
    OBVIOUS
<1>2. y \in {a, b} /\ \A x \in {a, b} : y <= x
    BY <1>1
<1>3. Min({a, b}) = CHOOSE x \in {a, b} : \A z \in {a, b} : x <= z
    BY DEF Min
<1>4. Min({a, b}) \in {a, b} /\ \A z \in {a, b} : Min({a, b}) <= z
    BY <1>2, <1>3, Zenon
<1> QED BY <1>1, <1>2, <1>4

LEMMA SignFact ==
    ASSUME NEW x \in Int, NEW y \in Int
    PROVE  /\ x * y \in Int /\ x * y = y * x
           /\ (x >= 0 /\ y >= 0) \/ (x <= 0 /\ y <= 0) => x * y >= 0
           /\ (x >= 0 /\ y <= 0) \/ (x <= 0 /\ y >= 0) => x * y <= 0
           /\ (x > 0 /\ y > 0) \/ (x < 0 /\ y < 0) => x * y > 0
           /\ (x > 0 /\ y < 0) \/ (x < 0 /\ y > 0) => x * y < 0
  OBVIOUS

\* A mean, the weights being p and q, s and t.
Mean(p, q, u, v, s, t, a, b) ==
    /\ p \in Nat /\ q \in Nat /\ s \in Nat /\ t \in Nat
    /\ u \in Int /\ v \in Int /\ a \in Int /\ b \in Int
    /\ p + q = s + t /\ p + q > 0
    /\ p * u + q * v = s * a + t * b

\* What has the same mean is not apart.
LEMMA MeansMeet ==
    ASSUME NEW p, NEW q, NEW u, NEW v, NEW s, NEW t, NEW a, NEW b, Mean(p, q, u, v, s, t, a, b)
    PROVE  Min({u, v}) <= Max({a, b}) /\ Min({a, b}) <= Max({u, v})
<1> USE DEF Mean
<1> SUFFICES \A x, y, z, w, h, i, j, k :
                 /\ x \in Nat /\ y \in Nat /\ z \in Nat /\ w \in Nat
                 /\ h \in Int /\ i \in Int /\ j \in Int /\ k \in Int
                 /\ x + y = z + w /\ x + y > 0 /\ x * h + y * i = z * j + w * k
                 => Min({h, i}) <= Max({j, k})
  <2>1. s * a + t * b = p * u + q * v
      OBVIOUS
  <2> QED BY <2>1
<1> TAKE x, y, z, w, h, i, j, k
<1> HAVE /\ x \in Nat /\ y \in Nat /\ z \in Nat /\ w \in Nat
         /\ h \in Int /\ i \in Int /\ j \in Int /\ k \in Int
         /\ x + y = z + w /\ x + y > 0 /\ x * h + y * i = z * j + w * k
<1> PICK m, n : m = Min({h, i}) /\ n = Max({j, k})
    OBVIOUS
<1>1. m \in Int /\ m <= h /\ m <= i
    BY MinIs
<1>2. n \in Int /\ j <= n /\ k <= n
    BY MaxIs
<1> SUFFICES ASSUME n < m PROVE FALSE
    BY <1>1, <1>2
<1>3. x * h = x * m + x * (h - m) /\ x * (h - m) \in Nat /\ x * m \in Int
    BY <1>1, SignFact
<1>4. y * i = y * m + y * (i - m) /\ y * (i - m) \in Nat /\ y * m \in Int
    BY <1>1, SignFact
<1>5. z * j = z * n - z * (n - j) /\ z * (n - j) \in Nat /\ z * n \in Int
    BY <1>2, SignFact
<1>6. w * k = w * n - w * (n - k) /\ w * (n - k) \in Nat /\ w * n \in Int
    BY <1>2, SignFact
<1>7. x * m + y * m = (x + y) * m /\ z * n + w * n = (z + w) * n
    BY <1>1, <1>2
<1>8. (x + y) * m = (z + w) * n + (x + y) * (m - n) /\ (x + y) * (m - n) > 0
    BY <1>1, <1>2
<1>9. (z + w) * n \in Int /\ (x + y) * (m - n) \in Int
    BY <1>1, <1>2
<1> QED BY <1>3, <1>4, <1>5, <1>6, <1>7, <1>8, <1>9

\* One of two, and not both.
One(A, B) == (A /\ ~B) \/ (~A /\ B)

\* The ray from a point meets an edge from dv to dw above it, the point being on the
\* side e of it.
Meets(dv, dw, e) == One(0 < dv, 0 < dw) /\ (dv > dw => e < 0) /\ (dv <= dw => e > 0)

\* An edge between v and w, and two points a and b, b being n above a: v and w are dv
\* and dw above a, on the sides cv and cw of the line through a and b, of which sv and
\* sw tell no more than whether it is one or the other; a and b are on the sides ea and
\* eb of the edge, and not on it.
Sides(n, dv, dw, cv, cw, ea, eb, sv, sw) ==
    /\ n \in Nat \ {0} /\ dv \in Int /\ dw \in Int /\ cv \in Int /\ cw \in Int
    /\ ea \in Int /\ eb \in Int /\ sv \in BOOLEAN /\ sw \in BOOLEAN
    /\ cv - cw = eb - ea /\ n * ea = dv * cw - dw * cv
    /\ (sv => cv >= 0) /\ (~sv => cv <= 0) /\ (sw => cw >= 0) /\ (~sw => cw <= 0)
    /\ One(0 < dv, 0 < dw) => ea # 0
    /\ One(n < dv, n < dw) => eb # 0
    /\ One(sv, sw) => ea # 0 /\ eb # 0

\* The segment between a and b and the rays from a and from b together meet the edge an
\* odd number of times if one of v and w is in the strip between the two rays, and beyond
\* the segment, and the other is not.
LEMMA StripChanges ==
    ASSUME NEW n, NEW dv, NEW dw, NEW cv, NEW cw, NEW ea, NEW eb, NEW sv, NEW sw,
           Sides(n, dv, dw, cv, cw, ea, eb, sv, sw)
    PROVE  One(One(One(ea > 0, eb > 0) /\ One(sv, sw), Meets(dv, dw, ea)), Meets(dv - n, dw - n, eb))
           <=> One(0 < dv /\ dv <= n /\ ~sv, 0 < dw /\ dw <= n /\ ~sw)
<1> USE DEF Sides, One, Meets
<1>0. PICK p, q, s, t, x, y : /\ p = dv * cw /\ q = dw * cv
                              /\ s = (dv - n) * cw /\ t = (dw - n) * cv
                              /\ x = n * ea /\ y = n * eb
    OBVIOUS
<1>1. p \in Int /\ q \in Int /\ s \in Int /\ t \in Int /\ x \in Int /\ y \in Int
    BY <1>0, SignFact
<1>2. x = p - q /\ y = s - t
  <2>1. s = p - n * cw /\ t = q - n * cv /\ y = x + (n * cv - n * cw)
    <3>1. eb = ea + cv - cw
        OBVIOUS
    <3> QED BY <1>0, <3>1
  <2> QED BY <1>0, <1>1, <2>1, SignFact
<1>3. /\ (x > 0 <=> ea > 0) /\ (x < 0 <=> ea < 0)
      /\ (y > 0 <=> eb > 0) /\ (y < 0 <=> eb < 0)
    BY <1>0, SignFact
<1>4. /\ dv > 0 /\ cw >= 0 => p >= 0
      /\ dv > 0 /\ cw <= 0 => p <= 0
      /\ dv <= 0 /\ cw >= 0 => p <= 0
      /\ dv <= 0 /\ cw <= 0 => p >= 0
    BY <1>0, SignFact
<1>5. /\ dw > 0 /\ cv >= 0 => q >= 0
      /\ dw > 0 /\ cv <= 0 => q <= 0
      /\ dw <= 0 /\ cv >= 0 => q <= 0
      /\ dw <= 0 /\ cv <= 0 => q >= 0
    BY <1>0, SignFact
<1>6. /\ dv > n /\ cw >= 0 => s >= 0
      /\ dv > n /\ cw <= 0 => s <= 0
      /\ dv <= n /\ cw >= 0 => s <= 0
      /\ dv <= n /\ cw <= 0 => s >= 0
    BY <1>0, SignFact
<1>7. /\ dw > n /\ cv >= 0 => t >= 0
      /\ dw > n /\ cv <= 0 => t <= 0
      /\ dw <= n /\ cv >= 0 => t <= 0
      /\ dw <= n /\ cv <= 0 => t >= 0
    BY <1>0, SignFact
<1>8. /\ One(0 < dv, 0 < dw) => x # 0
      /\ One(n < dv, n < dw) => y # 0
      /\ One(sv, sw) => x # 0 /\ y # 0
    BY <1>1, <1>3
<1>9. /\ n \in Nat \ {0} /\ dv \in Int /\ dw \in Int /\ cv \in Int /\ cw \in Int
      /\ sv \in BOOLEAN /\ sw \in BOOLEAN /\ ea \in Int /\ eb \in Int
      /\ (sv => cv >= 0) /\ (~sv => cv <= 0) /\ (sw => cw >= 0) /\ (~sw => cw <= 0)
    OBVIOUS
<1>10. CASE sv /\ sw
    BY ONLY <1>1, <1>2, <1>3, <1>4, <1>5, <1>6, <1>7, <1>8, <1>9, <1>10 DEF One, Meets
<1>11. CASE ~sv /\ ~sw
    BY ONLY <1>1, <1>2, <1>3, <1>4, <1>5, <1>6, <1>7, <1>8, <1>9, <1>11 DEF One, Meets
<1>12. CASE sv /\ ~sw
    BY ONLY <1>1, <1>2, <1>3, <1>4, <1>5, <1>6, <1>7, <1>8, <1>9, <1>12 DEF One, Meets
<1>13. CASE ~sv /\ sw
    BY ONLY <1>1, <1>2, <1>3, <1>4, <1>5, <1>6, <1>7, <1>8, <1>9, <1>13 DEF One, Meets
<1> QED BY ONLY <1>9, <1>10, <1>11, <1>12, <1>13

\* The same for two points on one level, b being m to the right of a, and v and w being
\* xv and xw to the right of a.
Levels(m, dv, dw, xv, xw, ea, eb) ==
    /\ m \in Int /\ dv \in Int /\ dw \in Int /\ xv \in Int /\ xw \in Int
    /\ ea = dw * xv - dv * xw /\ eb = dw * (xv - m) - dv * (xw - m)
    /\ One(0 < dv, 0 < dw) => ea # 0 /\ eb # 0
    /\ One(m * dv > 0, m * dw > 0) => ea # 0 /\ eb # 0
    /\ dv = 0 /\ dw = 0 => /\ (xv > 0 /\ xw > 0) \/ (xv < 0 /\ xw < 0)
                           /\ (xv > m /\ xw > m) \/ (xv < m /\ xw < m)

LEMMA LevelChanges ==
    ASSUME NEW m, NEW dv, NEW dw, NEW xv, NEW xw, NEW ea, NEW eb,
           Levels(m, dv, dw, xv, xw, ea, eb)
    PROVE  One(One(One(ea > 0, eb > 0) /\ One(m * dv > 0, m * dw > 0), Meets(dv, dw, ea)), Meets(dv, dw, eb))
           <=> One(m < xv /\ xv < 0 /\ dv = 0, m < xw /\ xw < 0 /\ dw = 0)
<1> USE DEF Levels, One, Meets
<1>1. ea \in Int /\ eb \in Int
    BY SignFact
<1>2. CASE m = 0
  <2>1. ea = eb /\ m * dv = 0 /\ m * dw = 0
      BY <1>2
  <2> QED BY <1>1, <1>2, <2>1
<1>3. CASE m > 0
  <2>1. (m * dv > 0 <=> dv > 0) /\ (m * dw > 0 <=> dw > 0)
      BY <1>3, SignFact
  <2> QED BY <1>1, <1>3, <2>1
<1>4. CASE m < 0
  <2>1. (m * dv > 0 <=> dv < 0) /\ (m * dw > 0 <=> dw < 0)
      BY <1>4, SignFact
  <2>2. CASE dv # 0 /\ dw # 0
      BY <1>1, <1>4, <2>1, <2>2
  <2>3. CASE dv = 0 /\ dw = 0
      BY <1>1, <1>4, <2>1, <2>3
  <2>4. CASE dv = 0 /\ dw # 0
    <3>1. ea = dw * xv /\ eb = dw * (xv - m)
        BY <2>4, SignFact
    <3>2. CASE dw > 0
      <4>1. /\ (ea > 0 <=> xv > 0) /\ (ea # 0 <=> xv # 0)
            /\ (eb > 0 <=> xv - m > 0) /\ (eb # 0 <=> xv - m # 0)
          BY <3>1, <3>2, SignFact
      <4> QED BY <1>1, <1>4, <2>1, <2>4, <3>2, <4>1
    <3>3. CASE dw < 0
      <4>1. /\ (ea > 0 <=> xv < 0) /\ (ea # 0 <=> xv # 0)
            /\ (eb > 0 <=> xv - m < 0) /\ (eb # 0 <=> xv - m # 0)
          BY <3>1, <3>3, SignFact
      <4> QED BY <1>1, <1>4, <2>1, <2>4, <3>3, <4>1
    <3> QED BY <2>4, <3>2, <3>3
  <2>5. CASE dv # 0 /\ dw = 0
    <3>1. ea = dv * (-xw) /\ eb = dv * (m - xw)
        BY <2>5, SignFact
    <3>2. CASE dv > 0
      <4>1. /\ (ea > 0 <=> xw < 0) /\ (ea # 0 <=> xw # 0)
            /\ (eb > 0 <=> xw < m) /\ (eb # 0 <=> xw # m)
          BY <3>1, <3>2, SignFact
      <4> QED BY <1>1, <1>4, <2>1, <2>5, <3>2, <4>1
    <3>3. CASE dv < 0
      <4>1. /\ (ea > 0 <=> xw > 0) /\ (ea # 0 <=> xw # 0)
            /\ (eb > 0 <=> xw > m) /\ (eb # 0 <=> xw # m)
          BY <3>1, <3>3, SignFact
      <4> QED BY <1>1, <1>4, <2>1, <2>5, <3>3, <4>1
    <3> QED BY <2>5, <3>2, <3>3
  <2> QED BY <2>2, <2>3, <2>4, <2>5
<1> QED BY <1>2, <1>3, <1>4

\* Two points and an edge, and which side of the other's line each end is on.
Points(ax, ay, bx, by, vx, vy, wx, wy) ==
    /\ ax \in Int /\ ay \in Int /\ bx \in Int /\ by \in Int
    /\ vx \in Int /\ vy \in Int /\ wx \in Int /\ wy \in Int

Crossed(ax, ay, bx, by, vx, vy, wx, wy, ea, eb, cv, cw) ==
    /\ Points(ax, ay, bx, by, vx, vy, wx, wy)
    /\ ea = Cross(vx, vy, wx, wy, ax, ay) /\ eb = Cross(vx, vy, wx, wy, bx, by)
    /\ cv = Cross(ax, ay, bx, by, vx, vy) /\ cw = Cross(ax, ay, bx, by, wx, wy)

LEMMA CrossFact ==
    ASSUME NEW ax, NEW ay, NEW bx, NEW by, NEW vx, NEW vy, NEW wx, NEW wy,
           NEW ea, NEW eb, NEW cv, NEW cw,
           Crossed(ax, ay, bx, by, vx, vy, wx, wy, ea, eb, cv, cw)
    PROVE  /\ ea \in Int /\ eb \in Int /\ cv \in Int /\ cw \in Int
           /\ cv - cw = eb - ea
           /\ (by - ay) * ea = (vy - ay) * cw - (wy - ay) * cv
           /\ cv * wx - cw * vx = eb * ax - ea * bx
           /\ cv * wy - cw * vy = eb * ay - ea * by
           /\ ea = (wy - ay) * (vx - ax) - (vy - ay) * (wx - ax)
           /\ Cross(bx, by, ax, ay, vx, vy) = -cv
           /\ by = ay => cv = (bx - ax) * (vy - ay)
<1> USE DEF Points, Crossed, Cross
<1>1. ea \in Int /\ eb \in Int /\ cv \in Int /\ cw \in Int
    OBVIOUS
<1>2. cv - cw = eb - ea
    OBVIOUS
<1>3. (by - ay) * ea = (vy - ay) * cw - (wy - ay) * cv
    OBVIOUS
<1>4. cv * wx - cw * vx = eb * ax - ea * bx
    OBVIOUS
<1>5. cv * wy - cw * vy = eb * ay - ea * by
    OBVIOUS
<1>6. ea = (wy - ay) * (vx - ax) - (vy - ay) * (wx - ax)
    OBVIOUS
<1>7. Cross(bx, by, ax, ay, vx, vy) = -cv
    OBVIOUS
<1>8. by = ay => cv = (bx - ax) * (vy - ay)
    OBVIOUS
<1> QED BY <1>1, <1>2, <1>3, <1>4, <1>5, <1>6, <1>7, <1>8

LEMMA Between ==
    ASSUME NEW p \in Nat, NEW q \in Nat, NEW u \in Int, NEW v \in Int, NEW x \in Int,
           p + q > 0, p * u + q * v = (p + q) * x
    PROVE  Min({u, v}) <= x /\ x <= Max({u, v})
<1>1. Mean(p, q, u, v, p + q, 0, x, x)
  <2>1. 0 * x = 0 /\ (p + q) * x \in Int
      BY SignFact
  <2> QED BY <2>1 DEF Mean
<1>2. Min({u, v}) <= Max({x, x}) /\ Min({x, x}) <= Max({u, v})
    BY <1>1, MeansMeet
<1> QED BY <1>2, MinIs, MaxIs

\* The point is not on the edge.
Off(x, y, vx, vy, wx, wy) ==
    ~(/\ Cross(vx, vy, wx, wy, x, y) = 0
      /\ Min({vx, wx}) <= x /\ x <= Max({vx, wx})
      /\ Min({vy, wy}) <= y /\ y <= Max({vy, wy}))

\* One is not less than zero, the other not more, and not both are zero.
Astride(c, d) == c # d /\ ((c >= 0 /\ d <= 0) \/ (c <= 0 /\ d >= 0))

LEMMA OffFact ==
    ASSUME NEW ax, NEW ay, NEW bx, NEW by, NEW vx, NEW vy, NEW wx, NEW wy,
           NEW ea, NEW eb, NEW cv, NEW cw,
           Crossed(ax, ay, bx, by, vx, vy, wx, wy, ea, eb, cv, cw), Off(ax, ay, vx, vy, wx, wy)
    PROVE  /\ One(0 < vy - ay, 0 < wy - ay) => ea # 0
           /\ Astride(cv, cw) => ea # 0
           /\ vy = ay /\ wy = ay => (vx > ax /\ wx > ax) \/ (vx < ax /\ wx < ax)
<1>1. /\ ea \in Int /\ eb \in Int /\ cv \in Int /\ cw \in Int /\ cv - cw = eb - ea
      /\ cv * wx - cw * vx = eb * ax - ea * bx
      /\ cv * wy - cw * vy = eb * ay - ea * by
      /\ ea = (wy - ay) * (vx - ax) - (vy - ay) * (wx - ax)
    BY CrossFact
<1>0. /\ Points(ax, ay, bx, by, vx, vy, wx, wy) /\ ea = Cross(vx, vy, wx, wy, ax, ay)
    BY DEF Crossed
<1> USE <1>0 DEF Points
<1>2. \A p, q \in Nat : ~(/\ ea = 0 /\ p + q > 0
                          /\ p * wx + q * vx = (p + q) * ax
                          /\ p * wy + q * vy = (p + q) * ay)
  <2> SUFFICES ASSUME NEW p \in Nat, NEW q \in Nat, ea = 0, p + q > 0,
                      p * wx + q * vx = (p + q) * ax, p * wy + q * vy = (p + q) * ay
               PROVE  FALSE
      OBVIOUS
  <2>1. /\ Min({wx, vx}) <= ax /\ ax <= Max({wx, vx})
        /\ Min({wy, vy}) <= ay /\ ay <= Max({wy, vy})
      BY Between
  <2>2. {wx, vx} = {vx, wx} /\ {wy, vy} = {vy, wy}
      OBVIOUS
  <2> QED BY <2>1, <2>2 DEF Off
<1>3. ASSUME One(0 < vy - ay, 0 < wy - ay), ea = 0
      PROVE  FALSE
  <2>1. CASE 0 < vy - ay
    <3> DEFINE p == vy - ay
               q == ay - wy
    <3>1. p \in Nat /\ q \in Nat /\ p + q > 0
        BY <1>3, <2>1 DEF One
    <3>2. p * wx + q * vx = (p + q) * ax
      <4>1. p * wx + q * vx = (p + q) * ax - ea /\ (p + q) * ax \in Int
          BY <1>1
      <4> HIDE DEF p, q
      <4> QED BY <1>3, <4>1
    <3>3. p * wy + q * vy = (p + q) * ay
        OBVIOUS
    <3> HIDE DEF p, q
    <3> QED BY ONLY <1>2, <1>3, <3>1, <3>2, <3>3, Zenon
  <2>2. CASE ~(0 < vy - ay)
    <3> DEFINE p == ay - vy
               q == wy - ay
    <3>1. p \in Nat /\ q \in Nat /\ p + q > 0
        BY <1>3, <2>2 DEF One
    <3>2. p * wx + q * vx = (p + q) * ax
      <4>1. p * wx + q * vx = (p + q) * ax + ea /\ (p + q) * ax \in Int
          BY <1>1
      <4> HIDE DEF p, q
      <4> QED BY <1>3, <4>1
    <3>3. p * wy + q * vy = (p + q) * ay
        OBVIOUS
    <3> HIDE DEF p, q
    <3> QED BY ONLY <1>2, <1>3, <3>1, <3>2, <3>3, Zenon
  <2> QED BY <2>1, <2>2
<1>4. ASSUME Astride(cv, cw), ea = 0
      PROVE  FALSE
  <2>1. /\ cv * wx - cw * vx = (cv - cw) * ax
        /\ cv * wy - cw * vy = (cv - cw) * ay
    <3>1. eb = cv - cw /\ ea * bx = 0 /\ ea * by = 0 /\ eb * ax \in Int /\ eb * ay \in Int
        BY <1>1, <1>4
    <3>2. eb * ax - ea * bx = eb * ax /\ eb * ay - ea * by = eb * ay
        BY ONLY <3>1
    <3>3. cv * wx - cw * vx = eb * ax /\ cv * wy - cw * vy = eb * ay
        BY ONLY <1>1, <3>2, Zenon
    <3> QED BY ONLY <3>1, <3>3, Zenon
  <2>2. CASE cv >= 0 /\ cw <= 0
    <3>1. cv \in Nat /\ -cw \in Nat /\ cv + (-cw) > 0
        BY <1>1, <1>4, <2>2 DEF Astride
    <3>2. /\ cv * wx + (-cw) * vx = (cv + (-cw)) * ax
          /\ cv * wy + (-cw) * vy = (cv + (-cw)) * ay
        BY <1>1, <2>1
    <3> QED BY <1>2, <1>4, <3>1, <3>2
  <2>3. CASE ~(cv >= 0 /\ cw <= 0)
    <3>1. -cv \in Nat /\ cw \in Nat /\ (-cv) + cw > 0
        BY <1>1, <1>4, <2>3 DEF Astride
    <3>2. /\ (-cv) * wx + cw * vx = ((-cv) + cw) * ax
          /\ (-cv) * wy + cw * vy = ((-cv) + cw) * ay
        BY <1>1, <2>1
    <3> QED BY <1>2, <1>4, <3>1, <3>2
  <2> QED BY <2>2, <2>3
<1>5. ASSUME vy = ay, wy = ay
      PROVE  (vx > ax /\ wx > ax) \/ (vx < ax /\ wx < ax)
  <2>1. ea = 0
      BY <1>1, <1>5
  <2>2. Min({vy, wy}) <= ay /\ ay <= Max({vy, wy})
      BY <1>5, MinIs, MaxIs
  <2>3. ~(Min({vx, wx}) <= ax /\ ax <= Max({vx, wx}))
      BY <2>1, <2>2 DEF Off
  <2> QED BY <2>3, MinIs, MaxIs
<1> QED BY <1>3, <1>4, <1>5

LEMMA RayFact ==
    ASSUME NEW x \in Int, NEW y \in Int, NEW vx \in Int, NEW vy \in Int, NEW wx \in Int, NEW wy \in Int,
           Off(x, y, vx, vy, wx, wy)
    PROVE  RayMeets(x, y, <<vx, vy, wx, wy>>)
           <=> Meets(vy - y, wy - y, Cross(vx, vy, wx, wy, x, y))
<1> PICK l, r, c : /\ l = (x - wx) * (vy - wy) /\ r = (vx - wx) * (y - wy)
                   /\ c = Cross(vx, vy, wx, wy, x, y)
    OBVIOUS
<1>1. l \in Int /\ r \in Int /\ c \in Int /\ c = l - r
    BY DEF Cross
<1>2. RayMeets(x, y, <<vx, vy, wx, wy>>)
      <=> (wy > y) # (vy > y) /\ (IF vy - wy > 0 THEN l < r ELSE l > r)
    BY DEF RayMeets
<1>3. Meets(vy - y, wy - y, c)
      <=> One(0 < vy - y, 0 < wy - y) /\ (vy - y > wy - y => c < 0) /\ (vy - y <= wy - y => c > 0)
    BY DEF Meets
<1>4. (wy > y) # (vy > y) <=> One(0 < vy - y, 0 < wy - y)
    BY DEF One
<1>5. (IF vy - wy > 0 THEN l < r ELSE l > r)
      <=> (vy - y > wy - y => c < 0) /\ (vy - y <= wy - y => c > 0)
    BY <1>1
<1> QED BY <1>2, <1>3, <1>4, <1>5

\* What lies between the rays from a and from b, and beyond the segment from a to b.
Strip(ax, ay, bx, by) ==
    {p \in Int \X Int :
        \/ ay < p[2] /\ p[2] <= by /\ ~(Cross(ax, ay, bx, by, p[1], p[2]) > 0)
        \/ by < p[2] /\ p[2] <= ay /\ Cross(ax, ay, bx, by, p[1], p[2]) > 0
        \/ ay = by /\ p[2] = ay /\ bx < p[1] /\ p[1] < ax}

\* In which way an edge is met: by the segment, by the ray from a, by the ray from b.
LEMMA EdgeFlips ==
    ASSUME NEW ax, NEW ay, NEW bx, NEW by, NEW vx, NEW vy, NEW wx, NEW wy,
           Points(ax, ay, bx, by, vx, vy, wx, wy),
           Off(ax, ay, vx, vy, wx, wy), Off(bx, by, vx, vy, wx, wy)
    PROVE  One(One(SegmentsCross(ax, ay, bx, by, <<vx, vy, wx, wy>>),
                   RayMeets(ax, ay, <<vx, vy, wx, wy>>)),
               RayMeets(bx, by, <<vx, vy, wx, wy>>))
           <=> One(<<vx, vy>> \in Strip(ax, ay, bx, by), <<wx, wy>> \in Strip(ax, ay, bx, by))
<1> PICK ea, eb, cv, cw :
        /\ ea = Cross(vx, vy, wx, wy, ax, ay) /\ eb = Cross(vx, vy, wx, wy, bx, by)
        /\ cv = Cross(ax, ay, bx, by, vx, vy) /\ cw = Cross(ax, ay, bx, by, wx, wy)
    OBVIOUS
<1>1. Crossed(ax, ay, bx, by, vx, vy, wx, wy, ea, eb, cv, cw)
    BY DEF Crossed
<1>2. /\ ea \in Int /\ eb \in Int /\ cv \in Int /\ cw \in Int
      /\ cv - cw = eb - ea
      /\ (by - ay) * ea = (vy - ay) * cw - (wy - ay) * cv
      /\ ea = (wy - ay) * (vx - ax) - (vy - ay) * (wx - ax)
      /\ by = ay => cv = (bx - ax) * (vy - ay)
    BY <1>1, CrossFact
<1>3. Crossed(bx, by, ax, ay, vx, vy, wx, wy, eb, ea, -cv, -cw)
  <2>1. Cross(bx, by, ax, ay, vx, vy) = -cv
      BY <1>1, CrossFact
  <2>2. Cross(bx, by, ax, ay, wx, wy) = -cw
      BY DEF Points, Cross
  <2> QED BY <2>1, <2>2 DEF Crossed, Points
<1>4. /\ (ay - by) * eb = (vy - by) * (-cw) - (wy - by) * (-cv)
      /\ eb = (wy - by) * (vx - bx) - (vy - by) * (wx - bx)
    BY <1>3, CrossFact
<1>5. /\ One(0 < vy - ay, 0 < wy - ay) => ea # 0
      /\ One(0 < vy - by, 0 < wy - by) => eb # 0
      /\ One(cv > 0, cw > 0) => ea # 0 /\ eb # 0
      /\ vy = ay /\ wy = ay => (vx > ax /\ wx > ax) \/ (vx < ax /\ wx < ax)
      /\ vy = by /\ wy = by => (vx > bx /\ wx > bx) \/ (vx < bx /\ wx < bx)
  <2>1. /\ One(0 < vy - ay, 0 < wy - ay) => ea # 0
        /\ Astride(cv, cw) => ea # 0
        /\ vy = ay /\ wy = ay => (vx > ax /\ wx > ax) \/ (vx < ax /\ wx < ax)
      BY <1>1, OffFact
  <2>2. /\ One(0 < vy - by, 0 < wy - by) => eb # 0
        /\ Astride(-cv, -cw) => eb # 0
        /\ vy = by /\ wy = by => (vx > bx /\ wx > bx) \/ (vx < bx /\ wx < bx)
      BY <1>3, OffFact
  <2>3. One(cv > 0, cw > 0) => Astride(cv, cw) /\ Astride(-cv, -cw)
      BY <1>2 DEF One, Astride
  <2> QED BY <2>1, <2>2, <2>3
<1>6. /\ SegmentsCross(ax, ay, bx, by, <<vx, vy, wx, wy>>)
         <=> One(ea > 0, eb > 0) /\ One(cv > 0, cw > 0)
      /\ RayMeets(ax, ay, <<vx, vy, wx, wy>>) <=> Meets(vy - ay, wy - ay, ea)
      /\ RayMeets(bx, by, <<vx, vy, wx, wy>>) <=> Meets(vy - by, wy - by, eb)
  <2>1. /\ RayMeets(ax, ay, <<vx, vy, wx, wy>>) <=> Meets(vy - ay, wy - ay, ea)
        /\ RayMeets(bx, by, <<vx, vy, wx, wy>>) <=> Meets(vy - by, wy - by, eb)
      BY RayFact DEF Points
  <2>2. SegmentsCross(ax, ay, bx, by, <<vx, vy, wx, wy>>) <=> (ea > 0) # (eb > 0) /\ (cv > 0) # (cw > 0)
      BY DEF SegmentsCross
  <2>3. /\ (ea > 0) # (eb > 0) <=> One(ea > 0, eb > 0)
        /\ (cv > 0) # (cw > 0) <=> One(cv > 0, cw > 0)
      BY DEF One
  <2> QED BY <2>1, <2>2, <2>3
<1>7. /\ <<vx, vy>> \in Strip(ax, ay, bx, by)
         <=> \/ ay < vy /\ vy <= by /\ ~(cv > 0)
             \/ by < vy /\ vy <= ay /\ cv > 0
             \/ ay = by /\ vy = ay /\ bx < vx /\ vx < ax
      /\ <<wx, wy>> \in Strip(ax, ay, bx, by)
         <=> \/ ay < wy /\ wy <= by /\ ~(cw > 0)
             \/ by < wy /\ wy <= ay /\ cw > 0
             \/ ay = by /\ wy = ay /\ bx < wx /\ wx < ax
    BY DEF Strip, Points
<1> PICK sv \in BOOLEAN, sw \in BOOLEAN : (sv <=> cv > 0) /\ (sw <=> cw > 0)
    OBVIOUS
<1>8. CASE ay < by
  <2>1. Sides(by - ay, vy - ay, wy - ay, cv, cw, ea, eb, sv, sw)
      BY <1>2, <1>5, <1>8 DEF Sides, One, Points
  <2>2. One(One(One(ea > 0, eb > 0) /\ One(sv, sw), Meets(vy - ay, wy - ay, ea)),
            Meets((vy - ay) - (by - ay), (wy - ay) - (by - ay), eb))
        <=> One(0 < vy - ay /\ vy - ay <= by - ay /\ ~sv, 0 < wy - ay /\ wy - ay <= by - ay /\ ~sw)
      BY <2>1, StripChanges
  <2>3. (vy - ay) - (by - ay) = vy - by /\ (wy - ay) - (by - ay) = wy - by
      BY DEF Points
  <2>4. One(One(One(ea > 0, eb > 0) /\ One(sv, sw), Meets(vy - ay, wy - ay, ea)),
            Meets(vy - by, wy - by, eb))
        <=> One(0 < vy - ay /\ vy - ay <= by - ay /\ ~sv, 0 < wy - ay /\ wy - ay <= by - ay /\ ~sw)
      BY <2>2, <2>3
  <2>5. /\ <<vx, vy>> \in Strip(ax, ay, bx, by) <=> 0 < vy - ay /\ vy - ay <= by - ay /\ ~sv
        /\ <<wx, wy>> \in Strip(ax, ay, bx, by) <=> 0 < wy - ay /\ wy - ay <= by - ay /\ ~sw
      BY <1>7, <1>8 DEF Points
  <2> QED BY <1>6, <2>4, <2>5 DEF One
<1>9. CASE by < ay
  <2>1. Sides(ay - by, vy - by, wy - by, -cv, -cw, eb, ea, ~sv, ~sw)
      BY <1>2, <1>4, <1>5, <1>9 DEF Sides, One, Points
  <2>2. One(One(One(eb > 0, ea > 0) /\ One(~sv, ~sw), Meets(vy - by, wy - by, eb)),
            Meets((vy - by) - (ay - by), (wy - by) - (ay - by), ea))
        <=> One(0 < vy - by /\ vy - by <= ay - by /\ ~(~sv), 0 < wy - by /\ wy - by <= ay - by /\ ~(~sw))
    <3>1. PICK tv, tw : tv = ~sv /\ tw = ~sw
        OBVIOUS
    <3>2. Sides(ay - by, vy - by, wy - by, -cv, -cw, eb, ea, tv, tw)
        BY <2>1, <3>1
    <3>3. One(One(One(eb > 0, ea > 0) /\ One(tv, tw), Meets(vy - by, wy - by, eb)),
              Meets((vy - by) - (ay - by), (wy - by) - (ay - by), ea))
          <=> One(0 < vy - by /\ vy - by <= ay - by /\ ~tv, 0 < wy - by /\ wy - by <= ay - by /\ ~tw)
        BY <3>2, StripChanges
    <3> QED BY <3>1, <3>3
  <2>3. (vy - by) - (ay - by) = vy - ay /\ (wy - by) - (ay - by) = wy - ay
      BY DEF Points
  <2>4. One(One(One(eb > 0, ea > 0) /\ One(~sv, ~sw), Meets(vy - by, wy - by, eb)),
            Meets(vy - ay, wy - ay, ea))
        <=> One(0 < vy - by /\ vy - by <= ay - by /\ ~(~sv), 0 < wy - by /\ wy - by <= ay - by /\ ~(~sw))
      BY <2>2, <2>3
  <2>5. /\ <<vx, vy>> \in Strip(ax, ay, bx, by) <=> 0 < vy - by /\ vy - by <= ay - by /\ sv
        /\ <<wx, wy>> \in Strip(ax, ay, bx, by) <=> 0 < wy - by /\ wy - by <= ay - by /\ sw
      BY <1>7, <1>9 DEF Points
  <2> QED BY <1>6, <2>4, <2>5 DEF One
<1>10. CASE ay = by
  <2>1. cw = (bx - ax) * (wy - ay) /\ cv = (bx - ax) * (vy - ay)
      BY <1>10 DEF Cross, Points
  <2>2. Levels(bx - ax, vy - ay, wy - ay, vx - ax, wx - ax, ea, eb)
    <3>1. eb = (wy - ay) * ((vx - ax) - (bx - ax)) - (vy - ay) * ((wx - ax) - (bx - ax))
        BY <1>4, <1>10 DEF Points
    <3> QED BY <1>2, <1>5, <1>10, <2>1, <3>1 DEF Levels, Points
  <2>3. One(One(One(ea > 0, eb > 0) /\ One(cv > 0, cw > 0), Meets(vy - ay, wy - ay, ea)),
            Meets(vy - ay, wy - ay, eb))
        <=> One(bx - ax < vx - ax /\ vx - ax < 0 /\ vy - ay = 0,
                bx - ax < wx - ax /\ wx - ax < 0 /\ wy - ay = 0)
      BY <2>1, <2>2, LevelChanges
  <2>4. /\ <<vx, vy>> \in Strip(ax, ay, bx, by) <=> bx - ax < vx - ax /\ vx - ax < 0 /\ vy - ay = 0
        /\ <<wx, wy>> \in Strip(ax, ay, bx, by) <=> bx - ax < wx - ax /\ wx - ax < 0 /\ wy - ay = 0
      BY <1>7, <1>10 DEF Points
  <2> QED BY <1>6, <1>10, <2>3, <2>4 DEF One
<1> QED BY <1>8, <1>9, <1>10 DEF Points

LEMMA DivGrows ==
    ASSUME NEW x \in Int, NEW y \in Int, x <= y
    PROVE  x \div MaskCell \in Int /\ y \div MaskCell \in Int /\ x \div MaskCell <= y \div MaskCell
<1>1. MaskCell \in Nat \ {0}
    BY MaskAssumption
<1> PICK k \in Nat \ {0} : k = MaskCell
    BY <1>1
<1> PICK p, q : p = x \div k /\ q = y \div k
    OBVIOUS
<1>2. p \in Int /\ q \in Int /\ p * k <= x /\ y < (q + 1) * k
    BY DivFact
<1>3. p * k < (q + 1) * k
  <2>1. p * k \in Int /\ (q + 1) * k \in Int
      BY <1>2
  <2> QED BY <1>2, <2>1
<1>4. p < q + 1
    BY <1>2, <1>3, Cancels
<1> QED BY <1>2, <1>4

\* Ranges that meet have a cell in common.
LEMMA RangesMeet ==
    ASSUME NEW a \in Int, NEW b \in Int, NEW v \in Int, NEW w \in Int,
           Min({v, w}) <= Max({a, b}), Min({a, b}) <= Max({v, w})
    PROVE  (Min({a, b}) \div MaskCell .. Max({a, b}) \div MaskCell)
           \cap (Min({v, w}) \div MaskCell .. Max({v, w}) \div MaskCell) # {}
<1> PICK la, ha, lv, hv : /\ la = Min({a, b}) /\ ha = Max({a, b})
                          /\ lv = Min({v, w}) /\ hv = Max({v, w})
    OBVIOUS
<1>1. /\ la \in Int /\ ha \in Int /\ lv \in Int /\ hv \in Int
      /\ la <= ha /\ lv <= hv /\ lv <= ha /\ la <= hv
    BY MinIs, MaxIs
<1>2. \A x, y \in Int : x <= y => x \div MaskCell \in Int /\ y \div MaskCell \in Int
                                  /\ x \div MaskCell <= y \div MaskCell
    BY DivGrows
<1> PICK A, B, C, D : /\ A = la \div MaskCell /\ B = ha \div MaskCell
                      /\ C = lv \div MaskCell /\ D = hv \div MaskCell
    OBVIOUS
<1>3. A \in Int /\ B \in Int /\ C \in Int /\ D \in Int /\ A <= B /\ C <= D /\ C <= B /\ A <= D
    BY <1>1, <1>2
<1>4. A \in (A .. B) \cap (C .. D) \/ C \in (A .. B) \cap (C .. D)
    BY <1>3
<1> QED BY <1>4

\* An edge that the segment crosses is in one of the segment's cells.
LEMMA CellsMeet ==
    ASSUME NEW ax, NEW ay, NEW bx, NEW by, NEW vx, NEW vy, NEW wx, NEW wy,
           Points(ax, ay, bx, by, vx, vy, wx, wy),
           SegmentsCross(ax, ay, bx, by, <<vx, vy, wx, wy>>)
    PROVE  Cells(ax, ay, bx, by) \cap Cells(vx, vy, wx, wy) # {}
<1> PICK ea, eb, cv, cw :
        /\ ea = Cross(vx, vy, wx, wy, ax, ay) /\ eb = Cross(vx, vy, wx, wy, bx, by)
        /\ cv = Cross(ax, ay, bx, by, vx, vy) /\ cw = Cross(ax, ay, bx, by, wx, wy)
    OBVIOUS
<1>1. Crossed(ax, ay, bx, by, vx, vy, wx, wy, ea, eb, cv, cw)
    BY DEF Crossed
<1>2. /\ ea \in Int /\ eb \in Int /\ cv \in Int /\ cw \in Int
      /\ cv - cw = eb - ea
      /\ cv * wx - cw * vx = eb * ax - ea * bx
      /\ cv * wy - cw * vy = eb * ay - ea * by
    BY <1>1, CrossFact
<1>3. (ea > 0) # (eb > 0) /\ (cv > 0) # (cw > 0)
    BY DEF SegmentsCross
<1>4. \E p, q, s, t : Mean(p, q, wx, vx, s, t, ax, bx) /\ Mean(p, q, wy, vy, s, t, ay, by)
  <2>1. CASE cv > 0
    <3>1. cv \in Nat /\ -cw \in Nat /\ eb \in Nat /\ -ea \in Nat /\ cv + (-cw) = eb + (-ea) /\ cv + (-cw) > 0
        BY <1>2, <1>3, <2>1
    <3>2. /\ cv * wx + (-cw) * vx = eb * ax + (-ea) * bx
          /\ cv * wy + (-cw) * vy = eb * ay + (-ea) * by
      <4>1. /\ (-cw) * vx = -(cw * vx) /\ (-ea) * bx = -(ea * bx)
            /\ (-cw) * vy = -(cw * vy) /\ (-ea) * by = -(ea * by)
            /\ cv * wx \in Int /\ cv * wy \in Int /\ eb * ax \in Int /\ eb * ay \in Int
            /\ cw * vx \in Int /\ cw * vy \in Int /\ ea * bx \in Int /\ ea * by \in Int
          BY <1>2 DEF Points
      <4> QED BY ONLY <1>2, <4>1
    <3>3. Mean(cv, -cw, wx, vx, eb, -ea, ax, bx) /\ Mean(cv, -cw, wy, vy, eb, -ea, ay, by)
        BY <3>1, <3>2 DEF Mean, Points
    <3> QED BY <3>3
  <2>2. CASE ~(cv > 0)
    <3>1. -cv \in Nat /\ cw \in Nat /\ -eb \in Nat /\ ea \in Nat /\ (-cv) + cw = (-eb) + ea /\ (-cv) + cw > 0
        BY <1>2, <1>3, <2>2
    <3>2. /\ (-cv) * wx + cw * vx = (-eb) * ax + ea * bx
          /\ (-cv) * wy + cw * vy = (-eb) * ay + ea * by
      <4>1. /\ (-cv) * wx + cw * vx = -(cv * wx - cw * vx) /\ (-eb) * ax + ea * bx = -(eb * ax - ea * bx)
            /\ (-cv) * wy + cw * vy = -(cv * wy - cw * vy) /\ (-eb) * ay + ea * by = -(eb * ay - ea * by)
          BY <1>2 DEF Points
      <4> QED BY ONLY <1>2, <4>1, Zenon
    <3>3. Mean(-cv, cw, wx, vx, -eb, ea, ax, bx) /\ Mean(-cv, cw, wy, vy, -eb, ea, ay, by)
        BY <3>1, <3>2 DEF Mean, Points
    <3> QED BY <3>3
  <2> QED BY <2>1, <2>2
<1>5. /\ Min({vx, wx}) <= Max({ax, bx}) /\ Min({ax, bx}) <= Max({vx, wx})
      /\ Min({vy, wy}) <= Max({ay, by}) /\ Min({ay, by}) <= Max({vy, wy})
  <2>1. {wx, vx} = {vx, wx} /\ {wy, vy} = {vy, wy}
      OBVIOUS
  <2> QED BY <1>4, <2>1, MeansMeet
<1>6. \A a, b, v, w \in Int :
        Min({v, w}) <= Max({a, b}) /\ Min({a, b}) <= Max({v, w})
        => (Min({a, b}) \div MaskCell .. Max({a, b}) \div MaskCell)
           \cap (Min({v, w}) \div MaskCell .. Max({v, w}) \div MaskCell) # {}
    BY RangesMeet
<1>7. /\ (Min({ax, bx}) \div MaskCell .. Max({ax, bx}) \div MaskCell)
         \cap (Min({vx, wx}) \div MaskCell .. Max({vx, wx}) \div MaskCell) # {}
      /\ (Min({ay, by}) \div MaskCell .. Max({ay, by}) \div MaskCell)
         \cap (Min({vy, wy}) \div MaskCell .. Max({vy, wy}) \div MaskCell) # {}
    BY <1>5, <1>6 DEF Points
<1>8. PICK x, y :
        /\ x \in Min({ax, bx}) \div MaskCell .. Max({ax, bx}) \div MaskCell
        /\ x \in Min({vx, wx}) \div MaskCell .. Max({vx, wx}) \div MaskCell
        /\ y \in Min({ay, by}) \div MaskCell .. Max({ay, by}) \div MaskCell
        /\ y \in Min({vy, wy}) \div MaskCell .. Max({vy, wy}) \div MaskCell
    BY <1>7
<1>9. <<x, y>> \in Cells(ax, ay, bx, by) \cap Cells(vx, vy, wx, wy)
    BY <1>8 DEF Cells
<1> QED BY <1>9

-----------------------------------------------------------------------------
(* Water *)

\* A coastline: its rings are rings, and no edge belongs to two.
Coast(mask) ==
    /\ IsFiniteSet(mask.land) /\ IsFiniteSet(mask.lakes) /\ mask.land \cap mask.lakes = {}
    /\ \A r \in mask.land \cup mask.lakes : Ring(r)
    /\ \A p, q \in Edges(mask) : p[1] = q[1] => p = q

\* A point that is on no shore, and in no lake out of the land.
Clear(mask, x, y) ==
    /\ x \in Int /\ y \in Int /\ ~OnShore(mask, x, y)
    /\ InsideAny(mask.lakes, x, y) => InsideAny(mask.land, x, y)

LEMMA EdgeIs ==
    ASSUME NEW mask, Coast(mask), NEW p \in Edges(mask)
    PROVE  /\ p[1] = <<p[1][1], p[1][2], p[1][3], p[1][4]>>
           /\ p[1][1] \in Int /\ p[1][2] \in Int /\ p[1][3] \in Int /\ p[1][4] \in Int
<1>1. PICK r \in mask.land \cup mask.lakes : p \in RingEdges(r) \X {r}
    BY DEF Edges, EdgesOf
<1>2. PICK i \in 1 .. Len(r) - 1 : p[1] = <<r[i][1], r[i][2], r[i + 1][1], r[i + 1][2]>>
    BY <1>1 DEF RingEdges
<1>3. Ring(r)
    BY DEF Coast
<1>4. r[i] \in Int \X Int /\ r[i + 1] \in Int \X Int
  <2>1. i \in 1 .. Len(r) /\ i + 1 \in 1 .. Len(r)
      BY <1>3 DEF Ring
  <2> QED BY <1>3, <2>1 DEF Ring
<1>5. r[i][1] \in Int /\ r[i][2] \in Int /\ r[i + 1][1] \in Int /\ r[i + 1][2] \in Int
    BY <1>4, PairFact
<1> QED BY <1>2, <1>5

LEMMA EdgesFinite ==
    ASSUME NEW mask, Coast(mask)
    PROVE  IsFiniteSet(Edges(mask))
<1>1. IsFiniteSet(mask.land \cup mask.lakes)
    BY FS_Union DEF Coast
<1> QED BY <1>1, ChangesEven DEF Coast, Edges

\* The ray from a point meets the edges of land and lakes an odd number of times
\* together if the point is dry.
LEMMA DryIsOdd ==
    ASSUME NEW mask, Coast(mask), NEW x, NEW y, Clear(mask, x, y), NEW met,
           met = {p \in Edges(mask) : RayMeets(x, y, p[1])}
    PROVE  IsFiniteSet(met) /\ (Odd(met) <=> ~InWater(mask, x, y))
<1> DEFINE land == {p \in EdgesOf(mask.land) : RayMeets(x, y, p[1])}
           lakes == {p \in EdgesOf(mask.lakes) : RayMeets(x, y, p[1])}
<1>1. met = land \cup lakes
    BY DEF Edges, EdgesOf
<1>2. land \cap lakes = {}
  <2>1. \A p \in EdgesOf(mask.land) : p \notin EdgesOf(mask.lakes)
      BY DEF Coast, EdgesOf
  <2> QED BY <2>1
<1>3. IsFiniteSet(land) /\ IsFiniteSet(lakes)
  <2>1. land \in SUBSET Edges(mask) /\ lakes \in SUBSET Edges(mask)
      BY DEF Edges, EdgesOf
  <2> HIDE DEF land, lakes
  <2> QED BY <2>1, EdgesFinite, FS_Subset
<1>4. (InsideAny(mask.land, x, y) <=> Odd(land)) /\ (InsideAny(mask.lakes, x, y) <=> Odd(lakes))
    BY DEF InsideAny, Odd
<1>5. IsFiniteSet(met) /\ (Odd(met) <=> One(Odd(land), Odd(lakes)))
  <2> HIDE DEF land, lakes
  <2> QED BY <1>1, <1>2, <1>3, OddUnion DEF One
<1> HIDE DEF land, lakes
<1> QED BY <1>4, <1>5 DEF Clear, InWater, One

\* The edges counted by inWaterFrom are those the segment crosses.
LEMMA CrossingsAre ==
    ASSUME NEW mask, Coast(mask), NEW ax \in Int, NEW ay \in Int, NEW bx \in Int, NEW by \in Int,
           NEW crossed, crossed = {p \in Edges(mask) : SegmentsCross(ax, ay, bx, by, p[1])}
    PROVE  IsFiniteSet(crossed) /\ (Odd(crossed) <=> Crossings(mask, ax, ay, bx, by) % 2 = 1)
<1> DEFINE found == {e \in {p[1] : p \in Edges(mask)} :
                       /\ Cells(ax, ay, bx, by) \cap Cells(e[1], e[2], e[3], e[4]) # {}
                       /\ SegmentsCross(ax, ay, bx, by, e)}
<1>1. crossed \in SUBSET Edges(mask)
    OBVIOUS
<1>2. IsFiniteSet(crossed)
    BY <1>1, EdgesFinite, FS_Subset
<1>3. \A p \in crossed : p[1] \in found
  <2> SUFFICES ASSUME NEW p \in crossed PROVE p[1] \in found
      OBVIOUS
  <2>1. p \in Edges(mask) /\ SegmentsCross(ax, ay, bx, by, p[1])
      OBVIOUS
  <2> PICK vx, vy, wx, wy : vx = p[1][1] /\ vy = p[1][2] /\ wx = p[1][3] /\ wy = p[1][4]
      OBVIOUS
  <2>2. p[1] = <<vx, vy, wx, wy>> /\ Points(ax, ay, bx, by, vx, vy, wx, wy)
      BY <2>1, EdgeIs DEF Points
  <2>3. Cells(ax, ay, bx, by) \cap Cells(vx, vy, wx, wy) # {}
      BY <2>1, <2>2, CellsMeet
  <2> QED BY <2>1, <2>3
<1>4. \A e \in found : \E p \in crossed : p[1] = e
    OBVIOUS
<1>5. \A p, q \in crossed : p[1] = q[1] => p = q
    BY <1>1 DEF Coast
<1> DEFINE f == [p \in crossed |-> p[1]]
<1>6. Odd(found) <=> Odd(crossed)
  <2>1. f \in [crossed -> found]
      BY <1>3
  <2>2. /\ \A p, q \in crossed : f[p] = f[q] => p = q
        /\ \A e \in found : \E p \in crossed : f[p] = e
      BY <1>4, <1>5
  <2> HIDE DEF f, found
  <2> QED BY <1>2, <2>1, <2>2, OddImage
<1>7. Crossings(mask, ax, ay, bx, by) % 2 = 1 <=> Odd(found)
    BY DEF Crossings, Odd
<1> QED BY <1>2, <1>6, <1>7

\* Turning the centre's answer over at every crossing gives the answer of a ray cast.
LEMMA FlipsAnswer ==
    ASSUME NEW mask, Coast(mask), NEW ax, NEW ay, NEW bx, NEW by,
           Clear(mask, ax, ay), Clear(mask, bx, by)
    PROVE  InWaterFrom(mask, ax, ay, InWater(mask, ax, ay), bx, by) <=> InWater(mask, bx, by)
<1> DEFINE H == Strip(ax, ay, bx, by)
           crossed == {p \in Edges(mask) : SegmentsCross(ax, ay, bx, by, p[1])}
           fromA == {p \in Edges(mask) : RayMeets(ax, ay, p[1])}
           fromB == {p \in Edges(mask) : RayMeets(bx, by, p[1])}
           changed == Changes(mask.land \cup mask.lakes, H)
           one == (crossed \ fromA) \cup (fromA \ crossed)
           both == (one \ fromB) \cup (fromB \ one)
<1>1. ax \in Int /\ ay \in Int /\ bx \in Int /\ by \in Int
    BY DEF Clear
<1>2. ASSUME NEW p \in Edges(mask)
      PROVE  p \in both <=> p \in changed
  <2> PICK vx, vy, wx, wy : vx = p[1][1] /\ vy = p[1][2] /\ wx = p[1][3] /\ wy = p[1][4]
      OBVIOUS
  <2>1. p[1] = <<vx, vy, wx, wy>> /\ Points(ax, ay, bx, by, vx, vy, wx, wy)
      BY <1>1, EdgeIs DEF Points
  <2>2. Off(ax, ay, vx, vy, wx, wy) /\ Off(bx, by, vx, vy, wx, wy)
      BY DEF Clear, OnShore, Off
  <2>3. One(One(SegmentsCross(ax, ay, bx, by, p[1]), RayMeets(ax, ay, p[1])), RayMeets(bx, by, p[1]))
        <=> One(<<vx, vy>> \in H, <<wx, wy>> \in H)
      BY <2>1, <2>2, EdgeFlips
  <2>4. p \in changed <=> One(<<vx, vy>> \in H, <<wx, wy>> \in H)
    <3> HIDE DEF H
    <3> QED BY DEF Changes, Edges, One
  <2>5. p \in both <=> One(One(SegmentsCross(ax, ay, bx, by, p[1]), RayMeets(ax, ay, p[1])),
                           RayMeets(bx, by, p[1]))
      BY DEF One
  <2> QED BY <2>3, <2>4, <2>5
<1>3. both = changed
  <2>1. both \subseteq Edges(mask) /\ changed \subseteq Edges(mask)
      BY DEF Changes, Edges
  <2> HIDE DEF both, changed
  <2> QED BY <1>2, <2>1
<1>4. IsFiniteSet(mask.land \cup mask.lakes) /\ \A r \in mask.land \cup mask.lakes : Ring(r)
    BY FS_Union DEF Coast
<1>5. ~Odd(changed)
  <2> HIDE DEF H
  <2> QED BY <1>4, ChangesEven
<1>6. /\ IsFiniteSet(crossed) /\ (Odd(crossed) <=> Crossings(mask, ax, ay, bx, by) % 2 = 1)
      /\ IsFiniteSet(fromA) /\ (Odd(fromA) <=> ~InWater(mask, ax, ay))
      /\ IsFiniteSet(fromB) /\ (Odd(fromB) <=> ~InWater(mask, bx, by))
    BY <1>1, CrossingsAre, DryIsOdd
<1>7. Odd(both) <=> One(One(Odd(crossed), Odd(fromA)), Odd(fromB))
  <2> HIDE DEF crossed, fromA, fromB
  <2>1. IsFiniteSet(one) /\ (Odd(one) <=> One(Odd(crossed), Odd(fromA)))
      BY <1>6, OddDifference DEF One
  <2> HIDE DEF one
  <2>2. Odd(both) <=> One(Odd(one), Odd(fromB))
      BY <1>6, <2>1, OddDifference DEF One
  <2> QED BY <2>1, <2>2 DEF One
<1> HIDE DEF crossed, fromA, fromB, both, changed
<1> QED BY <1>3, <1>5, <1>6, <1>7 DEF InWaterFrom, One

\* The centre and the points that are tried for a car.
Tried(mask, center, points) ==
    /\ Coast(mask) /\ center # NoPoint /\ Clear(mask, center[1], center[2])
    /\ \A i \in 1 .. MaxAttempts : points[i] # NoPoint /\ Clear(mask, points[i][1], points[i][2])

\* samplePoint leaves no car in water, and gives a car up only if all it has tried is.
LEMMA SampleIsDry ==
    ASSUME NEW mask, NEW center, NEW points, Tried(mask, center, points),
           NEW placed, placed = SamplePoint(mask, center, points)
    PROVE  IF placed = NoPoint
           THEN /\ InWater(mask, center[1], center[2])
                /\ \A i \in 1 .. MaxAttempts : InWater(mask, points[i][1], points[i][2])
           ELSE ~InWater(mask, placed[1], placed[2])
<1> DEFINE wet == InWater(mask, center[1], center[2])
           dry == {i \in 1 .. MaxAttempts :
                     ~InWaterFrom(mask, center[1], center[2], wet, points[i][1], points[i][2])}
<1>1. placed = IF dry # {} THEN points[Min(dry)] ELSE IF wet THEN NoPoint ELSE center
    BY DEF SamplePoint
<1>2. \A i \in 1 .. MaxAttempts : i \in dry <=> ~InWater(mask, points[i][1], points[i][2])
    BY FlipsAnswer DEF Tried
<1>3. CASE dry # {}
  <2>1. dry \in SUBSET Nat
      BY MaskAssumption
  <2>2. Min(dry) \in dry
    <3> HIDE DEF dry
    <3> QED BY <1>3, <2>1, MinFact
  <2>3. Min(dry) \in 1 .. MaxAttempts
      BY <2>2
  <2> HIDE DEF dry
  <2> QED BY <1>1, <1>2, <1>3, <2>2, <2>3 DEF Tried
<1>4. CASE dry = {}
  <2> HIDE DEF dry
  <2> QED BY <1>1, <1>2, <1>4 DEF Tried
<1> QED BY <1>3, <1>4

-----------------------------------------------------------------------------
(* The theorems *)

\* The input examined is one of those there are.
InputInv ==
    /\ input.kind = "search" => input.cars \in Fleets
    /\ input.kind = "schedule" => input.schedule \in Schedules
    /\ input.kind = "trip" => input.rate \in Rates /\ input.minutes \in Minutes
    /\ input.kind = "city" => /\ input.mask \in Masks /\ input.center \in Places
                              /\ ~OnShore(input.mask, input.center[1], input.center[2])

LEMMA InputInvHolds == Spec => []InputInv
<1>1. Init => InputInv
    BY DEF Init, InputInv, NoInput
<1>2. InputInv /\ [Next]_<<subject, input>> => InputInv'
  <2> SUFFICES ASSUME InputInv, [Next]_<<subject, input>> PROVE InputInv'
      OBVIOUS
  <2>1. CASE ExamineSearch
      BY <2>1 DEF ExamineSearch, InputInv
  <2>2. CASE ExamineSchedule
      BY <2>2 DEF ExamineSchedule, InputInv
  <2>3. CASE ExamineTrip
      BY <2>3 DEF ExamineTrip, InputInv
  <2>4. CASE ExamineCity
      BY <2>4 DEF ExamineCity, InputInv
  <2>5. CASE Done
      BY <2>5 DEF Done, InputInv, NoInput
  <2>6. CASE UNCHANGED <<subject, input>>
      BY <2>6 DEF InputInv
  <2> QED BY <2>1, <2>2, <2>3, <2>4, <2>5, <2>6 DEF Next
<1> QED BY <1>1, <1>2, PTL DEF Spec

LEMMA InputFact ==
    /\ \A cars \in Fleets : Fleet(cars)
    /\ \A q \in Queries : Query(q)
    /\ Rates \subseteq Nat /\ Minutes \subseteq Nat
  BY InputAssumption DEF Fleet, Query

LEMMA ScheduleFact ==
    ASSUME NEW r \in Schedules, NEW v \in WindowsOf
    PROVE  Schedule(r) /\ Window(r.zone, v[1]) /\ v[1] \in Int /\ v[2] \in Int
<1>1. PICK s \in WindowStarts, length \in WindowLengths : v = <<s, s + length>>
    BY DEF WindowsOf
<1>2. s \in Int /\ length \in Nat
    BY ScheduleAssumption
<1>3. Schedule(r)
    BY ScheduleAssumption DEF Schedule, Zone
<1>4. Window(r.zone, s)
    BY <1>2, ScheduleAssumption DEF Window
<1> QED BY <1>1, <1>2, <1>3, <1>4

\* Each of them says yes or no.
LEMMA OverlapsAre ==
    ASSUME NEW r, NEW s, NEW e
    PROVE  /\ GoOverlaps(r, s, e) \in BOOLEAN /\ SqlOverlaps(r, s, e) \in BOOLEAN
           /\ MemOverlaps(r, s, e) \in BOOLEAN
           /\ GoRecurs(r, s, e) \in BOOLEAN /\ SqlRecurs(r, s, e) \in BOOLEAN
  BY DEF GoOverlaps, SqlOverlaps, MemOverlaps, GoRecurs, SqlRecurs

LEMMA CoastFact ==
    ASSUME NEW mask \in Masks
    PROVE  /\ Coast(mask)
           /\ \A p \in Places : ~OnShore(mask, p[1], p[2])
                               => p # NoPoint /\ Clear(mask, p[1], p[2])
<1>1. Coast(mask)
    BY CoastAssumption DEF Coast, Ring
<1>2. ASSUME NEW p \in Places, ~OnShore(mask, p[1], p[2])
      PROVE  p # NoPoint /\ Clear(mask, p[1], p[2])
  <2>1. p \in Int \X Int
      BY CoastAssumption
  <2>2. p = <<p[1], p[2]>> /\ p[1] \in Int /\ p[2] \in Int
      BY <2>1, PairFact
  <2>3. p # NoPoint
      BY <2>1 DEF NoPoint
  <2>4. InsideAny(mask.lakes, p[1], p[2]) => InsideAny(mask.land, p[1], p[2])
      BY <1>2, CoastAssumption
  <2> QED BY <1>2, <2>2, <2>3, <2>4 DEF Clear
<1> QED BY <1>1, <1>2

\* Every page is the page of a scan of the whole fleet, however equally near cells
\* are ordered and wherever the walk stops (fleet.go:147).
THEOREM PageIsExactAlways == Spec => []PageIsExact
<1>1. InputInv => PageIsExact
    BY InputFact, WalkIsScan DEF InputInv, PageIsExact
<1> QED BY <1>1, InputInvHolds, PTL

\* The total of an answer is how many cars match, or as many as the pager reaches,
\* whether it was counted or told by a short page (handlers.go:282).
THEOREM TotalsAgreeAlways == Spec => []TotalsAgree
<1>1. InputInv => TotalsAgree
    BY InputFact, TotalIs DEF InputInv, TotalsAgree
<1> QED BY <1>1, InputInvHolds, PTL

\* What the SQL price search returns are the first cars of the page there should
\* be, in their order (store.go:539).
THEOREM PricePageIsPrefixAlways == Spec => []PricePageIsPrefix
<1>1. InputInv => PricePageIsPrefix
    BY InputFact, CandidatesAreFirst DEF InputInv, PricePageIsPrefix
<1> QED BY <1>1, InputInvHolds, PTL

\* Whatever the calendar and the zones, trying the occurrence guessed and its
\* neighbours finds one that meets the window whenever there is one (schema.sql:12).
THEOREM GuessSufficesAlways == Spec => []GuessSuffices
<1>1. InputInv => GuessSuffices
  <2> SUFFICES ASSUME InputInv, input.kind = "schedule",
                      NEW r, r = input.schedule, NEW v \in WindowsOf
               PROVE  /\ GoOverlaps(r, v[1], v[2]) = GoRecurs(r, v[1], v[2])
                      /\ SqlOverlaps(r, v[1], v[2]) = SqlRecurs(r, v[1], v[2])
      BY Zenon DEF GuessSuffices
  <2>1. r \in Schedules
      BY DEF InputInv
  <2>2. Schedule(r) /\ Window(r.zone, v[1]) /\ v[2] \in Int
      BY <2>1, ScheduleFact
  <2>3. /\ GoOverlaps(r, v[1], v[2]) <=> GoRecurs(r, v[1], v[2])
        /\ SqlOverlaps(r, v[1], v[2]) <=> SqlRecurs(r, v[1], v[2])
      BY <2>2, GuessFinds
  <2> QED BY <2>3, OverlapsAre
<1> QED BY <1>1, InputInvHolds, PTL

\* The search, the booking and the in-memory store agree on every schedule, save for
\* what ImplementationsAgree excepts (recurrence.go:18).
THEOREM ImplementationsAgreeAlways == Spec => []ImplementationsAgree
<1>1. InputInv => ImplementationsAgree
  <2> SUFFICES ASSUME InputInv, input.kind = "schedule",
                      NEW r, r = input.schedule, NEW v \in WindowsOf
               PROVE  /\ ~BeginsAtJump(r) \/ r.zone.offset >= 0
                         => GoOverlaps(r, v[1], v[2]) = SqlOverlaps(r, v[1], v[2])
                      /\ ~BeginsAtJump(r) /\ InEveryMonth(r)
                         => MemOverlaps(r, v[1], v[2]) = SqlOverlaps(r, v[1], v[2])
      BY Zenon DEF ImplementationsAgree
  <2>1. r \in Schedules
      BY DEF InputInv
  <2>2. Schedule(r) /\ Window(r.zone, v[1]) /\ v[1] \in Int /\ v[2] \in Int
      BY <2>1, ScheduleFact
  <2>3. /\ GoOverlaps(r, v[1], v[2]) <=> GoRecurs(r, v[1], v[2])
        /\ SqlOverlaps(r, v[1], v[2]) <=> SqlRecurs(r, v[1], v[2])
      BY <2>2, GuessFinds
  <2>4. ASSUME ~BeginsAtJump(r) \/ r.zone.offset >= 0
        PROVE  GoOverlaps(r, v[1], v[2]) <=> SqlOverlaps(r, v[1], v[2])
    <3>1. GoRecurs(r, v[1], v[2]) <=> SqlRecurs(r, v[1], v[2])
        BY <2>2, <2>4, ReadersAgree
    <3> QED BY <2>3, <3>1
  <2>5. ASSUME ~BeginsAtJump(r), InEveryMonth(r)
        PROVE  MemOverlaps(r, v[1], v[2]) <=> SqlOverlaps(r, v[1], v[2])
    <3>1. MemOverlaps(r, v[1], v[2]) <=> SqlRecurs(r, v[1], v[2])
        BY <2>2, <2>5, WalkAgrees
    <3> QED BY <2>3, <3>1
  <2> QED BY <2>4, <2>5, OverlapsAre
<1> QED BY <1>1, InputInvHolds, PTL

\* A quote stands while the rate does, what is booked costs no more than was agreed,
\* and a refusal names the price only if the price is to blame (schema.sql:218).
THEOREM QuoteHonouredAlways == Spec => []QuoteHonoured
<1>1. InputInv => QuoteHonoured
  <2> SUFFICES ASSUME InputInv, input.kind = "trip",
                      NEW rate \in Rates, NEW scheduled \in BOOLEAN
               PROVE  LET agreed == Quote(input.rate, input.minutes)
                          answer == OrderAnswer(rate, input.minutes, agreed, scheduled)
                      IN
                      /\ rate <= input.rate
                         => answer = IF scheduled THEN "owner_schedule_conflict" ELSE "booked"
                      /\ answer = "booked" => Charge(rate, input.minutes) <= agreed
                      /\ answer = "price_changed" /\ Exact(rate, input.minutes) % 60 # 30
                         => Charge(rate, input.minutes) > agreed
                      /\ answer = "owner_schedule_conflict" => scheduled
      BY Zenon DEF QuoteHonoured
  <2>1. rate \in Nat /\ input.rate \in Nat /\ input.minutes \in Nat
      BY InputFact DEF InputInv
  <2> PICK agreed : agreed = Quote(input.rate, input.minutes)
      OBVIOUS
  <2> PICK answer : answer = OrderAnswer(rate, input.minutes, agreed, scheduled)
      OBVIOUS
  <2>2. /\ rate <= input.rate
           => answer = IF scheduled THEN "owner_schedule_conflict" ELSE "booked"
        /\ answer = "booked" => Charge(rate, input.minutes) <= agreed
        /\ answer = "price_changed" /\ Exact(rate, input.minutes) % 60 # 30
           => Charge(rate, input.minutes) > agreed
        /\ answer = "owner_schedule_conflict" => scheduled
      BY <2>1, QuoteStands
  <2> QED BY <2>2, Zenon
<1> QED BY <1>1, InputInvHolds, PTL

\* However the coast runs and wherever the points fall, no car is placed in water, and
\* one is given up only if the centre and all points tried are (seed/main.go:156).
THEOREM CarsAreDryAlways == Spec => []CarsAreDry
<1>1. InputInv => CarsAreDry
  <2> SUFFICES ASSUME InputInv, input.kind = "city",
                      NEW points \in [1 .. MaxAttempts ->
                                         {p \in Places : ~OnShore(input.mask, p[1], p[2])}],
                      NEW placed, placed = SamplePoint(input.mask, input.center, points)
               PROVE  IF placed = NoPoint
                      THEN /\ InWater(input.mask, input.center[1], input.center[2])
                           /\ \A i \in 1 .. MaxAttempts :
                                 InWater(input.mask, points[i][1], points[i][2])
                      ELSE ~InWater(input.mask, placed[1], placed[2])
      BY Zenon DEF CarsAreDry
  <2>1. input.mask \in Masks /\ input.center \in Places
        /\ ~OnShore(input.mask, input.center[1], input.center[2])
      BY DEF InputInv
  <2>2. Coast(input.mask) /\ input.center # NoPoint
        /\ Clear(input.mask, input.center[1], input.center[2])
      BY <2>1, CoastFact
  <2>3. \A i \in 1 .. MaxAttempts : points[i] \in Places
                                  /\ ~OnShore(input.mask, points[i][1], points[i][2])
      OBVIOUS
  <2>4. \A i \in 1 .. MaxAttempts : points[i] # NoPoint
                                  /\ Clear(input.mask, points[i][1], points[i][2])
      BY <2>1, <2>3, CoastFact
  <2>5. Tried(input.mask, input.center, points)
      BY <2>2, <2>4 DEF Tried
  <2> PICK mask, center : mask = input.mask /\ center = input.center
      OBVIOUS
  <2>6. Tried(mask, center, points) /\ placed = SamplePoint(mask, center, points)
      BY <2>5
  <2>7. IF placed = NoPoint
        THEN /\ InWater(mask, center[1], center[2])
             /\ \A i \in 1 .. MaxAttempts : InWater(mask, points[i][1], points[i][2])
        ELSE ~InWater(mask, placed[1], placed[2])
      BY ONLY <2>6, SampleIsDry
  <2> QED BY <2>7
<1> QED BY <1>1, InputInvHolds, PTL
=============================================================================
