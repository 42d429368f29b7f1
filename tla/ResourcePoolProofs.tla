-------------------------- MODULE ResourcePoolProofs --------------------------
(***************************************************************************)
(* Proofs about ResourcePool, for any set of files, anonymous callers,     *)
(* amounts and capacity: conservation of the pool, exactness of the        *)
(* deadlock verdict, no lost wake-up and no silent wedge.                  *)
(***************************************************************************)
EXTENDS ResourcePool, FiniteSetTheorems, TLAPS

(***************************************************************************)
(* Facts about sums of resource amounts, as counted by Units.              *)
(***************************************************************************)
\* A column of n units has cardinality n.
LEMMA ColumnCardinality ==
    ASSUME NEW k, NEW n \in Nat
    PROVE  /\ IsFiniteSet({k} \X (1..n))
           /\ Cardinality({k} \X (1..n)) = n
<1>1. IsFiniteSet({k}) /\ Cardinality({k}) = 1
  BY FS_Singleton
<1>2. IsFiniteSet(1..n) /\ Cardinality(1..n) = n
  BY FS_Interval
<1>3. /\ IsFiniteSet({k} \X (1..n))
      /\ Cardinality({k} \X (1..n)) = Cardinality({k}) * Cardinality(1..n)
  BY <1>1, <1>2, FS_Product, Zenon
<1>. QED
  BY <1>1, <1>2, <1>3

\* A sum over a finite set of callers is a natural number.
LEMMA UnitsType ==
    ASSUME NEW S, IsFiniteSet(S), NEW f, NEW x, NEW n \in Nat
    PROVE  /\ IsFiniteSet(UnitSet(S, f, x, n))
           /\ Units(S, f, x, n) \in Nat
<1>0. IsFiniteSet(1..n)
  BY FS_Interval
<1>1. IsFiniteSet(S \X (1..n))
  BY <1>0, FS_Product, Zenon
<1>2. UnitSet(S, f, x, n) \in SUBSET (S \X (1..n))
  BY DEF UnitSet
<1>. QED
  BY <1>1, <1>2, FS_Subset, FS_CardinalityType DEF Units

\* The sum splits into the summand of one caller and the sum of the others.
LEMMA UnitsSplit ==
    ASSUME NEW S, IsFiniteSet(S), NEW f, NEW x, NEW n \in Nat,
           NEW k \in S, f[k][x] \in 0..n
    PROVE  Units(S, f, x, n) = Units(S \ {k}, f, x, n) + f[k][x]
<1> DEFINE Rest == UnitSet(S \ {k}, f, x, n)
           Col == {k} \X (1..f[k][x])
<1>1. UnitSet(S, f, x, n) = Rest \cup Col
  BY DEF UnitSet
<1>2. Rest \cap Col = {}
  BY DEF UnitSet
<1>3. IsFiniteSet(S \ {k})
  BY FS_Difference
<1>4. IsFiniteSet(Rest) /\ Cardinality(Rest) \in Nat
  BY <1>3, UnitsType DEF Units
<1>5. IsFiniteSet(Col) /\ Cardinality(Col) = f[k][x]
  <2>1. f[k][x] \in Nat
    OBVIOUS
  <2>. QED
    BY <2>1, ColumnCardinality, Zenon
<1>6. Cardinality(Rest \cup Col) = Cardinality(Rest) + Cardinality(Col) - Cardinality({})
  <2>1. Cardinality(Rest \cup Col)
            = Cardinality(Rest) + Cardinality(Col) - Cardinality(Rest \cap Col)
    BY Zenon, <1>4, <1>5, FS_Union
  <2>. QED BY Zenon, <1>2, <2>1
<1>7. Cardinality({}) = 0
  BY FS_EmptySet
<1>. QED
  BY <1>1, <1>4, <1>5, <1>6, <1>7 DEF Units

\* A sum only depends on the summands.
LEMMA UnitsSame ==
    ASSUME NEW S, NEW f, NEW g, NEW x, NEW n \in Nat,
           \A j \in S : g[j][x] = f[j][x]
    PROVE  Units(S, g, x, n) = Units(S, f, x, n)
<1>1. UnitSet(S, g, x, n) = UnitSet(S, f, x, n)
  BY DEF UnitSet
<1>. QED
  BY <1>1 DEF Units

\* Changing one caller's amount changes the sum by the difference.
LEMMA UnitsUpdate ==
    ASSUME NEW S, IsFiniteSet(S), NEW f, NEW g, NEW x, NEW n \in Nat,
           NEW k \in S, f[k][x] \in 0..n, g[k][x] \in 0..n,
           \A j \in S \ {k} : g[j][x] = f[j][x]
    PROVE  Units(S, g, x, n) = Units(S, f, x, n) - f[k][x] + g[k][x]
<1>1. Units(S, f, x, n) = Units(S \ {k}, f, x, n) + f[k][x]
  BY UnitsSplit
<1>2. Units(S, g, x, n) = Units(S \ {k}, g, x, n) + g[k][x]
  BY UnitsSplit
<1>3. Units(S \ {k}, g, x, n) = Units(S \ {k}, f, x, n)
  BY UnitsSame
<1>4. Units(S \ {k}, f, x, n) \in Nat
  BY FS_Difference, UnitsType
<1>. QED
  BY <1>1, <1>2, <1>3, <1>4

\* No caller holds more than the sum.
LEMMA UnitsElement ==
    ASSUME NEW S, IsFiniteSet(S), NEW f, NEW x, NEW n \in Nat,
           NEW k \in S, f[k][x] \in 0..n
    PROVE  f[k][x] <= Units(S, f, x, n)
<1>1. Units(S, f, x, n) = Units(S \ {k}, f, x, n) + f[k][x]
  BY UnitsSplit
<1>2. Units(S \ {k}, f, x, n) \in Nat
  BY FS_Difference, UnitsType
<1>. QED
  BY <1>1, <1>2

\* If nobody holds anything the sum is zero.
LEMMA UnitsZero ==
    ASSUME NEW S, NEW f, NEW x, NEW n \in Nat, \A j \in S : f[j][x] = 0
    PROVE  Units(S, f, x, n) = 0
<1>1. UnitSet(S, f, x, n) = {}
  BY DEF UnitSet
<1>. QED
  BY <1>1, FS_EmptySet DEF Units

\* The sum over two disjoint sets of callers is the sum of the sums.
LEMMA UnitsDisjoint ==
    ASSUME NEW S, IsFiniteSet(S), NEW T, IsFiniteSet(T), S \cap T = {},
           NEW f, NEW x, NEW n \in Nat
    PROVE  Units(S \cup T, f, x, n) = Units(S, f, x, n) + Units(T, f, x, n)
<1> DEFINE A == UnitSet(S, f, x, n)
           B == UnitSet(T, f, x, n)
<1>1. UnitSet(S \cup T, f, x, n) = A \cup B
  BY DEF UnitSet
<1>2. A \cap B = {}
  BY DEF UnitSet
<1>3. IsFiniteSet(A) /\ Cardinality(A) \in Nat
  BY UnitsType DEF Units
<1>5. IsFiniteSet(B) /\ Cardinality(B) \in Nat
  BY UnitsType DEF Units
<1>4. Cardinality(A \cup B) = Cardinality(A) + Cardinality(B) - Cardinality({})
  BY <1>2, <1>3, <1>5, FS_Union
<1>6. Cardinality({}) = 0
  BY FS_EmptySet
<1>7. Cardinality(A \cup B) = Cardinality(A) + Cardinality(B)
  BY <1>3, <1>4, <1>5, <1>6
<1>8. Units(S \cup T, f, x, n) = Cardinality(A \cup B)
  BY <1>1, Zenon DEF Units
<1>. QED
  BY <1>7, <1>8, Zenon DEF Units

-----------------------------------------------------------------------------
(***************************************************************************)
(* The inductive invariant.  Sums adds to Conservation the split of the    *)
(* pool into what is free, what the owners are booked with and what is     *)
(* held anonymously: that is what the verdict compares.                    *)
(***************************************************************************)
Sums ==
    \A x \in Axes :
        /\ available[x] + Reserved(Threads, x) = Total[x]
        /\ \A f \in Files : held[f][x] = Reserved({f}, x)
        /\ available[x] + SumHeld(x) + Reserved(Strays, x) = Total[x]

Bounded ==
    /\ FitsIn(available, Total)
    /\ \A f \in Files : FitsIn(held[f], Total)
    /\ \A c \in Threads \X Slots : FitsIn(resv[c], Total)

\* An owner is counted as waiting exactly while its thread has a ticket, and a
\* ticket never asks for nothing
Counts ==
    /\ \A f \in Files : ownerWaiting[f] = IF f \in waiting THEN 1 ELSE 0
    /\ \A t \in waiting : ~IsZero(request[t])

IInv == TypeOK /\ Sums /\ Bounded /\ Counts /\ NoLostWakeup /\ NoSilentWedge


-----------------------------------------------------------------------------
\* The sets summed over are finite.
LEMMA FiniteIndices ==
    /\ IsFiniteSet(Files)
    /\ IsFiniteSet(Threads \X Slots)
    /\ IsFiniteSet(Strays \X Slots)
    /\ \A t : IsFiniteSet({t} \X Slots)
<1>1. IsFiniteSet(Files) /\ IsFiniteSet(Strays) /\ IsFiniteSet(Slots)
  BY PoolAssumption
<1>2. IsFiniteSet(Threads)
  BY <1>1, FS_Union DEF Threads
<1>3. \A t : IsFiniteSet({t})
  BY FS_Singleton
<1>. QED
  BY <1>1, <1>2, <1>3, FS_Product, Zenon

\* What writing one reservation slot does, slot by slot
Writes(k, a) ==
    /\ resv'[k] = a
    /\ \A j \in (Threads \X Slots) \ {k} : resv'[j] = resv[j]

\* Writing one reservation slot moves exactly the difference in every sum that
\* counts the slot, and leaves the other sums alone.
LEMMA SlotUpdate ==
    ASSUME NEW k \in Threads \X Slots, NEW a \in Amount, NEW x \in Axes,
           NEW I \in SUBSET (Threads \X Slots), IsFiniteSet(I),
           TypeOK, Bounded, FitsIn(a, Total), Writes(k, a)
    PROVE  /\ k \in I => Units(I, resv', x, Total[x])
                           = Units(I, resv, x, Total[x]) - resv[k][x] + a[x]
           /\ k \notin I => Units(I, resv', x, Total[x]) = Units(I, resv, x, Total[x])
<1>1. Total[x] \in Nat
  BY PoolAssumption DEF Amount
<1>2. resv[k][x] \in 0..Total[x] /\ resv'[k][x] \in 0..Total[x] /\ resv'[k] = a
  BY <1>1 DEF TypeOK, Bounded, FitsIn, Amount, Writes
<1>3. \A j \in I \ {k} : resv'[j][x] = resv[j][x]
  BY DEF Writes
<1>4. ASSUME k \in I
      PROVE  Units(I, resv', x, Total[x]) = Units(I, resv, x, Total[x]) - resv[k][x] + a[x]
  <2>1. Units(I, resv', x, Total[x])
          = Units(I, resv, x, Total[x]) - resv[k][x] + resv'[k][x]
    BY <1>1, <1>2, <1>3, <1>4, UnitsUpdate
  <2>. QED
    BY <1>2, <2>1, Zenon
<1>5. ASSUME k \notin I
      PROVE  Units(I, resv', x, Total[x]) = Units(I, resv, x, Total[x])
  <2>1. \A j \in I : resv'[j][x] = resv[j][x]
    BY <1>3, <1>5
  <2>. QED
    BY <1>1, <2>1, UnitsSame
<1>. QED
  BY <1>4, <1>5

\* Rewriting one reservation changes what a group of callers has reserved by the
\* difference, if the caller belongs to the group, and not at all otherwise.
LEMMA ReservedUpdate ==
    ASSUME NEW t \in Threads, NEW s \in Slots, NEW a \in Amount, NEW x \in Axes,
           TypeOK, Bounded, FitsIn(a, Total),
           Writes(<<t, s>>, a)
    PROVE  /\ Reserved(Threads, x)' = Reserved(Threads, x) - resv[<<t, s>>][x] + a[x]
           /\ Reserved({t}, x)' = Reserved({t}, x) - resv[<<t, s>>][x] + a[x]
           /\ t \in Strays =>
                Reserved(Strays, x)' = Reserved(Strays, x) - resv[<<t, s>>][x] + a[x]
           /\ t \in Files => Reserved(Strays, x)' = Reserved(Strays, x)
           /\ \A f \in Files \ {t} : Reserved({f}, x)' = Reserved({f}, x)
<1> DEFINE k == <<t, s>>
           Sum(I) == Units(I, resv, x, Total[x])
           Sum1(I) == Units(I, resv', x, Total[x])
<1>1. k \in Threads \X Slots
  OBVIOUS
<1>2. \A I \in SUBSET (Threads \X Slots) :
         IsFiniteSet(I) => /\ k \in I => Sum1(I) = Sum(I) - resv[k][x] + a[x]
                           /\ k \notin I => Sum1(I) = Sum(I)
  BY <1>1, SlotUpdate
<1>3. \A S \in SUBSET Threads :
         IsFiniteSet(S \X Slots) =>
           /\ t \in S => Reserved(S, x)' = Reserved(S, x) - resv[k][x] + a[x]
           /\ t \notin S => Reserved(S, x)' = Reserved(S, x)
  <2> SUFFICES ASSUME NEW S \in SUBSET Threads, IsFiniteSet(S \X Slots)
               PROVE  /\ t \in S => Reserved(S, x)' = Reserved(S, x) - resv[k][x] + a[x]
                      /\ t \notin S => Reserved(S, x)' = Reserved(S, x)
    OBVIOUS
  <2>1. S \X Slots \in SUBSET (Threads \X Slots)
    OBVIOUS
  <2>2. (t \in S) <=> (k \in S \X Slots)
    OBVIOUS
  <2>3. Reserved(S, x) = Sum(S \X Slots) /\ Reserved(S, x)' = Sum1(S \X Slots)
    BY DEF Reserved
  <2> HIDE DEF Sum, Sum1, k
  <2>. QED
    BY <1>2, <2>1, <2>2, <2>3, Zenon
<1>4. Threads \in SUBSET Threads /\ {t} \in SUBSET Threads /\ Strays \in SUBSET Threads
      /\ \A f \in Files : {f} \in SUBSET Threads
  BY DEF Threads
<1>5. t \in Files => t \notin Strays
  BY PoolAssumption
<1>6. /\ IsFiniteSet(Threads \X Slots) /\ IsFiniteSet({t} \X Slots)
      /\ IsFiniteSet(Strays \X Slots) /\ \A f \in Files : IsFiniteSet({f} \X Slots)
  BY FiniteIndices
<1>7. \A f \in Files \ {t} : Reserved({f}, x)' = Reserved({f}, x)
  BY <1>3, <1>4, <1>6
<1>8. t \in Threads /\ t \in {t}
  OBVIOUS
<1>. QED
  BY <1>3, <1>4, <1>5, <1>6, <1>7, <1>8, Zenon

\* The books move with the slot: the pool's budget and the owner's holding.
Books(t, old, new) ==
    /\ available' \in Amount /\ held' \in [Files -> Amount]
    /\ \A x \in Axes : available'[x] = available[x] + old[x] - new[x]
    /\ \A f \in Files : FitsIn(held'[f], Total)
    /\ \A f \in Files \ {t} : held'[f] = held[f]
    /\ t \in Files => \A x \in Axes : held'[t][x] = held[t][x] - old[x] + new[x]

\* Writing a slot and moving the books with it keeps every sum.
LEMMA SumsMove ==
    ASSUME NEW t \in Threads, NEW s \in Slots, NEW a \in Amount,
           TypeOK, Sums, Bounded, FitsIn(a, Total),
           Writes(<<t, s>>, a), Books(t, resv[<<t, s>>], a)
    PROVE  Sums' /\ Bounded'
<1> DEFINE o == resv[<<t, s>>]
<1>0. o \in Amount /\ <<t, s>> \in Threads \X Slots
  BY DEF TypeOK
<1>1. ASSUME NEW x \in Axes
      PROVE  /\ available'[x] + Reserved(Threads, x)' = Total[x]
             /\ \A f \in Files : held'[f][x] = Reserved({f}, x)'
             /\ available'[x] + SumHeld(x)' + Reserved(Strays, x)' = Total[x]
             /\ available'[x] <= Total[x]
  <2>1. Total[x] \in Nat /\ a[x] \in Nat /\ o[x] \in Nat /\ available[x] \in Nat
        /\ available'[x] \in Nat /\ available'[x] = available[x] + o[x] - a[x]
        /\ \A f \in Files : held[f][x] \in Nat /\ held'[f][x] \in Nat
    <3>1. available \in Amount /\ available' \in Amount /\ Total \in Amount
      BY PoolAssumption DEF TypeOK, Books
    <3>2. held \in [Files -> Amount] /\ held' \in [Files -> Amount]
      BY DEF TypeOK, Books
    <3>3. available'[x] = available[x] + o[x] - a[x]
      BY <1>1 DEF Books
    <3>4. \A b \in Amount : b[x] \in Nat
      BY <1>1 DEF Amount
    <3>5. o \in Amount /\ a \in Amount
      BY <1>0
    <3> HIDE DEF o
    <3> QED
      BY <3>1, <3>2, <3>3, <3>4, <3>5
  <2>2. /\ Reserved(Threads, x) \in Nat /\ Reserved(Threads, x)' \in Nat
        /\ Reserved(Strays, x) \in Nat
    BY <2>1, FiniteIndices, UnitsType DEF Reserved
  <2>3. \A f \in Files : Reserved({f}, x) \in Nat
    BY <2>1, FiniteIndices, UnitsType DEF Reserved
  <2>4. SumHeld(x) \in Nat
    BY <2>1, FiniteIndices, UnitsType DEF SumHeld
  <2>5. /\ Reserved(Threads, x)' = Reserved(Threads, x) - o[x] + a[x]
        /\ Reserved({t}, x)' = Reserved({t}, x) - o[x] + a[x]
        /\ t \in Strays => Reserved(Strays, x)' = Reserved(Strays, x) - o[x] + a[x]
        /\ t \in Files => Reserved(Strays, x)' = Reserved(Strays, x)
        /\ \A f \in Files \ {t} : Reserved({f}, x)' = Reserved({f}, x)
    BY ReservedUpdate
  <2>6. /\ available[x] + Reserved(Threads, x) = Total[x]
        /\ \A f \in Files : held[f][x] = Reserved({f}, x)
        /\ available[x] + SumHeld(x) + Reserved(Strays, x) = Total[x]
    BY DEF Sums
  <2>7. available'[x] + Reserved(Threads, x)' = Total[x]
    BY <2>1, <2>2, <2>5, <2>6
  <2>8. ASSUME NEW f \in Files
        PROVE  held'[f][x] = Reserved({f}, x)'
    <3>1. CASE f = t
      BY <2>1, <2>3, <2>5, <2>6, <3>1 DEF Books
    <3>2. CASE f # t
      BY <2>5, <2>6, <3>2 DEF Books
    <3>. QED
      BY <3>1, <3>2
  <2>9. available'[x] + SumHeld(x)' + Reserved(Strays, x)' = Total[x]
    <3>1. CASE t \in Files
      <4>1. SumHeld(x)' = SumHeld(x) - held[t][x] + held'[t][x]
        <5>1. held[t][x] \in 0..Total[x] /\ held'[t][x] \in 0..Total[x]
          BY <2>1, <3>1 DEF Bounded, Books, FitsIn
        <5>2. \A f \in Files \ {t} : held'[f][x] = held[f][x]
          BY DEF Books
        <5>. QED
          BY <2>1, <3>1, <5>1, <5>2, FiniteIndices, UnitsUpdate DEF SumHeld
      <4>2. held'[t][x] = held[t][x] - o[x] + a[x]
        BY <3>1 DEF Books
      <4>. QED
        BY <2>1, <2>2, <2>4, <2>5, <2>6, <3>1, <4>1, <4>2
    <3>2. CASE t \in Strays
      <4>1. SumHeld(x)' = SumHeld(x)
        <5>1. \A f \in Files : held'[f][x] = held[f][x]
          BY <3>2, PoolAssumption DEF Books
        <5>. QED
          BY <2>1, <5>1, UnitsSame DEF SumHeld
      <4>. QED
        BY <2>1, <2>2, <2>4, <2>5, <2>6, <3>2, <4>1
    <3>. QED
      BY <3>1, <3>2 DEF Threads
  <2>10. available'[x] <= Total[x]
    BY <2>1, <2>2, <2>7
  <2>. QED
    BY <2>7, <2>8, <2>9, <2>10, Zenon
<1>2. Sums'
  BY <1>1 DEF Sums
<1>3. FitsIn(available', Total) /\ \A f \in Files : FitsIn(held'[f], Total)
  BY <1>1 DEF FitsIn, Books
<1>4. \A c \in Threads \X Slots : FitsIn(resv'[c], Total)
  BY <1>0 DEF Writes, Bounded
<1>. QED
  BY <1>2, <1>3, <1>4 DEF Bounded

\* A step that leaves the budget, the holdings and the reservations alone
\* leaves the sums alone.
LEMMA SumsFrame ==
    ASSUME Sums /\ Bounded, UNCHANGED <<available, held, resv>>
    PROVE  Sums' /\ Bounded'
<1>1. available' = available /\ held' = held /\ resv' = resv
  OBVIOUS
<1>. QED
  BY <1>1 DEF Sums, Bounded, Reserved, SumHeld

\* Handing out a reservation keeps every sum: nothing saturates, because what
\* an owner holds and what is available never exceed the total together.
LEMMA ChargeStep ==
    ASSUME NEW t \in Threads, NEW s \in Slots, NEW a \in Amount,
           TypeOK, Sums, Bounded, IsZero(resv[<<t, s>>]), FitsIn(a, available),
           Charge(t, s, a)
    PROVE  /\ Sums' /\ Bounded'
           /\ available' \in Amount /\ held' \in [Files -> Amount]
           /\ resv' \in [Threads \X Slots -> Amount]
           /\ FitsIn(available', available)
           /\ \A f \in Files \ {t} : held'[f] = held[f]
           /\ t \in Files /\ ~IsZero(a) => ~IsZero(held'[t])
           /\ t \in Strays /\ ~IsZero(a) =>
                \E x \in Axes : SumHeld(x)' # SaturatingSub(Total, available')[x]
           /\ IsZero(a) => available' = available /\ held' = held
<1>1. \A x \in Axes :
        /\ Total[x] \in Nat /\ Limit[x] \in Nat /\ Total[x] <= Limit[x]
        /\ a[x] \in Nat /\ available[x] \in Nat /\ a[x] <= available[x]
        /\ available[x] <= Total[x] /\ resv[<<t, s>>][x] = 0
  BY PoolAssumption, LimitAssumption DEF Amount, FitsIn, TypeOK, Bounded, IsZero, Zero
<1>2. ASSUME t \in Files, NEW x \in Axes
      PROVE  held[t][x] \in Nat /\ held[t][x] + a[x] <= Total[x]
  <2>1. held[t][x] \in 0..Total[x]
    BY <1>1, <1>2 DEF TypeOK, Bounded, FitsIn, Amount
  <2>2. held[t][x] <= SumHeld(x)
    BY <1>1, <1>2, <2>1, FiniteIndices, UnitsElement DEF SumHeld
  <2>3. SumHeld(x) \in Nat
    BY <1>1, <1>2, FiniteIndices, UnitsType DEF SumHeld
  <2>4. Reserved(Strays, x) \in Nat
    BY <1>1, <1>2, FiniteIndices, UnitsType DEF Reserved
  <2>5. available[x] + SumHeld(x) + Reserved(Strays, x) = Total[x]
    BY <1>2 DEF Sums
  <2>. QED
    BY <1>1, <1>2, <2>1, <2>2, <2>3, <2>4, <2>5
<1>3. /\ available' \in Amount
      /\ \A x \in Axes : available'[x] = available[x] - a[x]
  BY <1>1 DEF Charge, SaturatingSub, Amount
<1>4. held' \in [Files -> Amount] /\ \A f \in Files \ {t} : held'[f] = held[f]
  BY <1>1, LimitAssumption DEF Charge, SaturatingAdd, Amount, TypeOK
<1>5. ASSUME t \in Files, NEW x \in Axes
      PROVE  held'[t][x] = held[t][x] + a[x]
  BY <1>1, <1>2, <1>5 DEF Charge, SaturatingAdd
<1>6. FitsIn(a, Total)
  BY <1>1 DEF FitsIn
<1>7. Writes(<<t, s>>, a) /\ resv' \in [Threads \X Slots -> Amount]
  BY DEF Charge, Writes, TypeOK
<1>8. Books(t, resv[<<t, s>>], a)
  <2>1. \A x \in Axes : available'[x] = available[x] + resv[<<t, s>>][x] - a[x]
    BY <1>1, <1>3
  <2>2. ASSUME NEW f \in Files
        PROVE  FitsIn(held'[f], Total)
    BY <1>2, <1>4, <1>5 DEF FitsIn, Bounded
  <2>3. t \in Files => \A x \in Axes : held'[t][x] = held[t][x] - resv[<<t, s>>][x] + a[x]
    BY <1>1, <1>2, <1>5
  <2>. QED
    BY <1>3, <1>4, <2>1, <2>2, <2>3 DEF Books
<1>9. Sums' /\ Bounded'
  BY <1>6, <1>7, <1>8, SumsMove
<1>10. FitsIn(available', available)
  BY <1>1, <1>3 DEF FitsIn
<1>11. t \in Files /\ ~IsZero(a) => ~IsZero(held'[t])
  BY <1>1, <1>2, <1>5 DEF IsZero, Zero, Amount
<1>12. ASSUME t \in Strays, ~IsZero(a)
       PROVE  \E x \in Axes : SumHeld(x)' # SaturatingSub(Total, available')[x]
  <2>1. PICK x \in Axes : a[x] # 0
    BY <1>12 DEF IsZero, Zero, Amount
  <2>2. a[x] \in Nat /\ Total[x] \in Nat /\ available'[x] \in Nat
    BY <1>1, <1>3 DEF Amount
  <2>3. a[x] <= Reserved(Strays, x)'
    <3>1. <<t, s>> \in Strays \X Slots
      BY <1>12
    <3>2. resv'[<<t, s>>] = a
      BY <1>7 DEF Writes
    <3>3. resv'[<<t, s>>][x] \in 0..Total[x]
      BY <1>6, <2>2, <3>2 DEF FitsIn
    <3>4. resv'[<<t, s>>][x] <= Units(Strays \X Slots, resv', x, Total[x])
      BY <2>2, <3>1, <3>3, FiniteIndices, UnitsElement
    <3>. QED
      BY <3>2, <3>4 DEF Reserved
  <2>4. Reserved(Strays, x)' \in Nat
    BY <2>2, FiniteIndices, UnitsType DEF Reserved
  <2>5. SumHeld(x)' \in Nat
    BY <2>2, FiniteIndices, UnitsType DEF SumHeld
  <2>6. available'[x] + SumHeld(x)' + Reserved(Strays, x)' = Total[x]
    BY <1>9 DEF Sums
  <2>7. Reserved(Strays, x)' > 0
    BY <2>1, <2>2, <2>3, <2>4
  <2>8. available'[x] <= Total[x]
    BY <2>2, <2>4, <2>5, <2>6
  <2>9. SumHeld(x)' # Total[x] - available'[x]
    BY <2>2, <2>4, <2>5, <2>6, <2>7
  <2>. QED
    BY <2>8, <2>9 DEF SaturatingSub
<1>13. IsZero(a) => available' = available /\ held' = held
  <2>1. ASSUME IsZero(a)
        PROVE  available' = available
    BY <1>3, <2>1 DEF TypeOK, Amount, IsZero, Zero
  <2>2. ASSUME IsZero(a), t \in Files
        PROVE  held'[t] = held[t]
    <3>1. \A x \in Axes : held'[t][x] = held[t][x]
      BY <1>2, <1>5, <2>2 DEF IsZero, Zero
    <3>2. held'[t] \in Amount /\ held[t] \in Amount
      BY <1>4, <2>2 DEF TypeOK
    <3>. QED
      BY <3>1, <3>2 DEF Amount
  <2>3. ASSUME IsZero(a)
        PROVE  \A f \in Files : held'[f] = held[f]
    BY <1>4, <2>2, <2>3
  <2>. QED
    BY <1>4, <2>1, <2>3 DEF TypeOK
<1>. QED
  BY <1>3, <1>4, <1>7, <1>9, <1>10, <1>11, <1>12, <1>13

\* Dropping a reservation keeps every sum: the cap at the total never bites.
LEMMA ReleaseStep ==
    ASSUME NEW t \in Threads, NEW s \in Slots, TypeOK, Sums, Bounded, Release(t, s)
    PROVE  /\ Sums' /\ Bounded'
           /\ available' \in Amount /\ held' \in [Files -> Amount]
           /\ resv' \in [Threads \X Slots -> Amount]
<1> DEFINE o == resv[<<t, s>>]
<1>0. <<t, s>> \in Threads \X Slots /\ Zero \in Amount
  BY DEF Amount, Zero
<1>1. \A x \in Axes :
        /\ Total[x] \in Nat /\ Limit[x] \in Nat /\ Total[x] <= Limit[x]
        /\ o[x] \in Nat /\ available[x] \in Nat /\ Zero[x] = 0
  BY <1>0, PoolAssumption, LimitAssumption DEF Amount, FitsIn, TypeOK, Zero
<1>2. \A x \in Axes : available[x] + o[x] <= Total[x]
  <2> SUFFICES ASSUME NEW x \in Axes PROVE available[x] + o[x] <= Total[x]
    OBVIOUS
  <2>1. o[x] \in 0..Total[x]
    BY <1>0, <1>1 DEF Bounded, FitsIn
  <2>2. o[x] <= Reserved(Threads, x)
    BY <1>0, <1>1, <2>1, FiniteIndices, UnitsElement DEF Reserved
  <2>3. Reserved(Threads, x) \in Nat
    BY <1>1, FiniteIndices, UnitsType DEF Reserved
  <2>4. available[x] + Reserved(Threads, x) = Total[x]
    BY DEF Sums
  <2>. QED
    BY <1>1, <2>2, <2>3, <2>4
<1>3. ASSUME t \in Files, NEW x \in Axes
      PROVE  held[t][x] \in Nat /\ o[x] <= held[t][x] /\ held[t][x] <= Total[x]
  <2>1. o[x] \in 0..Total[x]
    BY <1>0, <1>1, <1>3 DEF Bounded, FitsIn
  <2>2. <<t, s>> \in {t} \X Slots
    OBVIOUS
  <2>3. o[x] <= Reserved({t}, x)
    BY <1>1, <1>3, <2>1, <2>2, FiniteIndices, UnitsElement DEF Reserved
  <2>4. held[t][x] = Reserved({t}, x)
    BY <1>3 DEF Sums
  <2>5. held[t][x] \in Nat /\ held[t][x] <= Total[x]
    BY <1>3 DEF TypeOK, Amount, Bounded, FitsIn
  <2>. QED
    BY <2>3, <2>4, <2>5
<1>4. /\ available' \in Amount
      /\ \A x \in Axes : available'[x] = available[x] + o[x]
  <2>1. \A x \in Axes : SaturatingAdd(available, o)[x] = available[x] + o[x]
    BY <1>1, <1>2 DEF SaturatingAdd
  <2>2. FitsIn(SaturatingAdd(available, o), Total)
    BY <1>2, <2>1 DEF FitsIn
  <2>3. available' = SaturatingAdd(available, o)
    BY <2>2 DEF Release
  <2>4. SaturatingAdd(available, o) \in Amount
    BY <1>1 DEF SaturatingAdd, Amount
  <2>. QED
    BY <2>1, <2>3, <2>4
<1>5. held' \in [Files -> Amount] /\ \A f \in Files \ {t} : held'[f] = held[f]
  BY <1>1 DEF Release, SaturatingSub, Amount, TypeOK
<1>6. ASSUME t \in Files, NEW x \in Axes
      PROVE  held'[t][x] = held[t][x] - o[x]
  BY <1>1, <1>3, <1>6 DEF Release, SaturatingSub
<1>7. FitsIn(Zero, Total)
  BY <1>1 DEF FitsIn
<1>8. Writes(<<t, s>>, Zero) /\ resv' \in [Threads \X Slots -> Amount]
  BY <1>0 DEF Release, Writes, TypeOK
<1>9. Books(t, o, Zero)
  <2>1. \A x \in Axes : available'[x] = available[x] + o[x] - Zero[x]
    BY <1>1, <1>4
  <2>2. ASSUME NEW f \in Files
        PROVE  FitsIn(held'[f], Total)
    BY <1>1, <1>3, <1>5, <1>6 DEF FitsIn, Bounded
  <2>3. t \in Files => \A x \in Axes : held'[t][x] = held[t][x] - o[x] + Zero[x]
    BY <1>1, <1>3, <1>6
  <2>. QED
    BY <1>4, <1>5, <2>1, <2>2, <2>3 DEF Books
<1>10. Sums' /\ Bounded'
  BY <1>0, <1>7, <1>8, <1>9, SumsMove
<1>. QED
  BY <1>4, <1>5, <1>8, <1>10

-----------------------------------------------------------------------------
\* A request that does not fit now did not fit before anything was taken.
LEMMA FitsMonotone ==
    ASSUME NEW a \in Amount, NEW b \in Amount, NEW c \in Amount,
           FitsIn(c, b), ~FitsIn(a, b)
    PROVE  ~FitsIn(a, c)
  BY DEF FitsIn, Amount

\* Taking and withdrawing a ticket keeps the owner's count in step.
LEMMA CountsMove ==
    ASSUME NEW t \in Threads, TypeOK, Counts
    PROVE  /\ t \notin waiting => \A f \in Files :
                CountIn(t)[f] = IF f \in waiting \cup {t} THEN 1 ELSE 0
           /\ t \in waiting => \A f \in Files :
                CountOut(t)[f] = IF f \in waiting \ {t} THEN 1 ELSE 0
  BY DEF Counts, CountIn, CountOut, TypeOK

\* A grant to a caller that is not inside an acquire afterwards leaves no
\* deadlock behind: a file is then a holder that runs, an anonymous caller
\* breaks the sum; and a grant of nothing changes nothing.
LEMMA GrantEndsWedge ==
    ASSUME NEW t \in Threads, NEW s \in Slots, NEW a \in Amount,
           TypeOK, Sums, Bounded, IsZero(resv[<<t, s>>]), FitsIn(a, available),
           Charge(t, s, a), Counts', t \notin waiting', ~IsZero(a)
    PROVE  ~Deadlock(waiting, request, ownerWaiting)'
<1>1. CASE t \in Files
  <2>1. ~IsZero(held'[t])
    BY <1>1, ChargeStep
  <2>2. ownerWaiting'[t] = 0
    BY <1>1 DEF Counts
  <2>. QED
    BY <1>1, <2>1, <2>2 DEF Deadlock
<1>2. CASE t \in Strays
  <2>1. \E x \in Axes : SumHeld(x)' # SaturatingSub(Total, available')[x]
    BY <1>2, ChargeStep
  <2>. QED
    BY <2>1 DEF Deadlock
<1>. QED
  BY <1>1, <1>2 DEF Threads

-----------------------------------------------------------------------------
\* A new pool, whole and without owners, satisfies the invariant.
LEMMA InitIInv == Init => IInv
<1> SUFFICES ASSUME Init PROVE IInv
  OBVIOUS
<1>1. Zero \in Amount /\ \A x \in Axes : Zero[x] = 0 /\ Total[x] \in Nat
  BY PoolAssumption DEF Zero, Amount
<1>2. TypeOK
  BY <1>1, PoolAssumption DEF Init, TypeOK
<1>3. Bounded
  BY <1>1 DEF Init, Bounded, FitsIn
<1>4. \A S \in SUBSET Threads, x \in Axes : Reserved(S, x) = 0
  <2> SUFFICES ASSUME NEW S \in SUBSET Threads, NEW x \in Axes
               PROVE  Reserved(S, x) = 0
    OBVIOUS
  <2>1. \A c \in S \X Slots : resv[c][x] = 0
    BY <1>1 DEF Init
  <2>. QED
    BY <1>1, <2>1, UnitsZero DEF Reserved
<1>5. \A x \in Axes : SumHeld(x) = 0
  <2> SUFFICES ASSUME NEW x \in Axes PROVE SumHeld(x) = 0
    OBVIOUS
  <2>1. \A f \in Files : held[f][x] = 0
    BY <1>1 DEF Init
  <2>. QED
    BY <1>1, <2>1, UnitsZero DEF SumHeld
<1>6. Threads \in SUBSET Threads /\ Strays \in SUBSET Threads
      /\ \A f \in Files : {f} \in SUBSET Threads
  BY DEF Threads
<1>7. Sums
  <2>1. \A x \in Axes : Reserved(Threads, x) = 0 /\ Reserved(Strays, x) = 0
                        /\ \A f \in Files : Reserved({f}, x) = 0
    BY <1>4, <1>6
  <2>. QED
    BY <1>1, <1>5, <2>1 DEF Init, Sums
<1>8. Counts /\ NoLostWakeup /\ NoSilentWedge
  BY DEF Init, Counts, NoLostWakeup, NoSilentWedge
<1>. QED
  BY <1>2, <1>3, <1>7, <1>8 DEF IInv

-----------------------------------------------------------------------------
\* A grant without waiting (acquire at once, try_acquire) keeps the invariant.
LEMMA GrantAtOnce ==
    ASSUME NEW t \in Threads, NEW s \in Slots, NEW a \in Requests, IInv,
           Running(t), IsZero(resv[<<t, s>>]), FitsIn(a, available), Charge(t, s, a),
           UNCHANGED <<ownerWaiting, waiting, request, asleep, finished>>
    PROVE  IInv'
<1>0. a \in Amount /\ TypeOK /\ Sums /\ Bounded /\ Counts
  BY PoolAssumption DEF IInv
<1>1. /\ Sums' /\ Bounded'
      /\ available' \in Amount /\ held' \in [Files -> Amount]
      /\ resv' \in [Threads \X Slots -> Amount]
      /\ FitsIn(available', available)
      /\ IsZero(a) => available' = available /\ held' = held
  BY <1>0, ChargeStep
<1>2. TypeOK'
  BY <1>0, <1>1 DEF TypeOK
<1>3. Counts'
  BY <1>0 DEF Counts
<1>4. NoLostWakeup'
  <2>1. \A u \in asleep : request[u] \in Amount /\ ~FitsIn(request[u], available)
    BY DEF IInv, TypeOK, NoLostWakeup
  <2>2. \A u \in asleep : ~FitsIn(request[u], available')
    BY <1>0, <1>1, <2>1, FitsMonotone DEF TypeOK
  <2>. QED
    BY <2>2 DEF NoLostWakeup
<1>5. NoSilentWedge'
  <2>1. CASE IsZero(a)
    <3>1. available' = available /\ held' = held
      BY <1>1, <2>1
    <3>. QED
      BY <3>1 DEF IInv, NoSilentWedge, Deadlock, SumHeld
  <2>2. CASE ~IsZero(a)
    <3>1. t \notin waiting'
      BY DEF Running
    <3>2. ~Deadlock(waiting, request, ownerWaiting)'
      BY <1>0, <1>3, <2>2, <3>1, GrantEndsWedge
    <3>. QED
      BY <3>2 DEF NoSilentWedge
  <2>. QED
    BY <2>1, <2>2
<1>. QED
  BY <1>1, <1>2, <1>3, <1>4, <1>5 DEF IInv

\* Parking: the thread goes to sleep only on a request that does not fit and
\* with no deadlock its own ticket would complete.
LEMMA ParkStep ==
    ASSUME NEW t \in Threads, NEW a \in Requests, IInv, AcquirePark(t, a)
    PROVE  IInv'
<1>0. a \in Amount /\ TypeOK /\ Sums /\ Bounded /\ Counts /\ t \notin waiting
  BY PoolAssumption DEF IInv, AcquirePark, Running
<1>1. Sums' /\ Bounded'
  BY <1>0, SumsFrame DEF AcquirePark
<1>2. /\ waiting' = waiting \cup {t} /\ request' \in [Threads -> Amount]
      /\ request'[t] = a /\ \A u \in Threads \ {t} : request'[u] = request[u]
      /\ ownerWaiting' = CountIn(t) /\ asleep' = asleep \cup {t}
      /\ available' = available /\ held' = held /\ resv' = resv /\ finished' = finished
      /\ ~FitsIn(a, available)
  BY <1>0 DEF AcquirePark, TypeOK
<1>3. \A f \in Files : ownerWaiting'[f] = IF f \in waiting' THEN 1 ELSE 0
  BY <1>0, <1>2, CountsMove
<1>4. ownerWaiting' \in [Files -> {0, 1}]
  <2>1. DOMAIN ownerWaiting' = Files /\ ownerWaiting' = [f \in Files |-> ownerWaiting'[f]]
    BY <1>2 DEF CountIn
  <2>. QED
    BY <1>3, <2>1
<1>5. TypeOK'
  BY <1>0, <1>2, <1>4 DEF TypeOK, AcquirePark, Running
<1>6. ~IsZero(a)
  BY <1>0, <1>2 DEF FitsIn, IsZero, Zero, TypeOK, Amount
<1>7. Counts'
  BY <1>0, <1>2, <1>3, <1>6 DEF Counts, TypeOK
<1>8. NoLostWakeup'
  BY <1>0, <1>2 DEF NoLostWakeup, IInv, TypeOK
<1>9. NoSilentWedge'
  <2>1. CASE t \in Files
    <3>1. ~Deadlock(waiting', request', ownerWaiting')
      BY <2>1 DEF AcquirePark
    <3>2. ~Deadlock(waiting, request, ownerWaiting)'
      BY <1>2, <3>1 DEF Deadlock, SumHeld
    <3>. QED
      BY <3>2 DEF NoSilentWedge
  <2>2. CASE t \notin Files
    <3>1. \A f \in Files : ownerWaiting'[f] = ownerWaiting[f]
      BY <1>2, <2>2 DEF CountIn
    <3>2. \A u \in waiting : u \in waiting' /\ request'[u] = request[u]
      BY <1>0, <1>2 DEF TypeOK
    <3>3. Deadlock(waiting, request, ownerWaiting)' => Deadlock(waiting, request, ownerWaiting)
      BY <1>2, <3>1, <3>2 DEF Deadlock, SumHeld
    <3>4. waiting' \cap Files \cap asleep' = waiting \cap Files \cap asleep
      BY <1>2, <2>2
    <3>. QED
      BY <3>3, <3>4 DEF IInv, NoSilentWedge
  <2>. QED
    BY <2>1, <2>2
<1>. QED
  BY <1>1, <1>5, <1>7, <1>8, <1>9 DEF IInv

\* What withdrawing a ticket leaves: the counts stay in step, the others'
\* requests stay.
LEMMA WithdrawStep ==
    ASSUME NEW t \in waiting, TypeOK, Counts, Withdraw(t)
    PROVE  /\ Counts'
           /\ waiting' = waiting \ {t}
           /\ ownerWaiting' \in [Files -> {0, 1}]
           /\ request' \in [Threads -> Amount]
           /\ \A u \in waiting \ {t} : request'[u] = request[u]
<1>0. t \in Threads /\ Zero \in Amount
  BY DEF TypeOK, Zero, Amount
<1>1. waiting' = waiting \ {t} /\ ownerWaiting' = CountOut(t)
  BY DEF Withdraw
<1>2. request' \in [Threads -> Amount] /\ \A u \in waiting \ {t} : request'[u] = request[u]
  BY <1>0 DEF Withdraw, TypeOK
<1>3. \A f \in Files : ownerWaiting'[f] = IF f \in waiting' THEN 1 ELSE 0
  BY <1>0, <1>1, CountsMove
<1>4. ownerWaiting' \in [Files -> {0, 1}]
  <2>1. ownerWaiting' = [f \in Files |-> ownerWaiting'[f]]
    BY <1>1 DEF CountOut
  <2>. QED
    BY <1>3, <2>1
<1>5. Counts'
  BY <1>1, <1>2, <1>3 DEF Counts
<1>. QED
  BY <1>1, <1>2, <1>4, <1>5

\* A woken thread whose request fits is granted and leaves no wedge behind.
LEMMA WakeGrantStep ==
    ASSUME NEW t \in Threads, NEW s \in Slots, IInv, WakeGrant(t, s)
    PROVE  IInv'
<1> DEFINE a == request[t]
<1>0. /\ a \in Amount /\ TypeOK /\ Sums /\ Bounded /\ Counts
      /\ t \in waiting /\ t \notin asleep /\ ~IsZero(a)
      /\ IsZero(resv[<<t, s>>]) /\ FitsIn(a, available)
      /\ Withdraw(t) /\ Charge(t, s, a) /\ asleep' = asleep /\ finished' = finished
  BY DEF IInv, TypeOK, Counts, WakeGrant, Woken
<1> HIDE DEF a
<1>1. /\ Sums' /\ Bounded'
      /\ available' \in Amount /\ held' \in [Files -> Amount]
      /\ resv' \in [Threads \X Slots -> Amount]
      /\ FitsIn(available', available)
  BY <1>0, ChargeStep
<1>2. /\ Counts' /\ waiting' = waiting \ {t} /\ ownerWaiting' \in [Files -> {0, 1}]
      /\ request' \in [Threads -> Amount]
      /\ \A u \in waiting \ {t} : request'[u] = request[u]
  BY <1>0, WithdrawStep
<1>3. TypeOK'
  BY <1>0, <1>1, <1>2 DEF TypeOK
<1>4. NoLostWakeup'
  <2>1. \A u \in asleep : /\ request'[u] = request[u] /\ request[u] \in Amount
                          /\ ~FitsIn(request[u], available)
    BY <1>0, <1>2 DEF IInv, TypeOK, NoLostWakeup
  <2>2. \A u \in asleep : ~FitsIn(request[u], available')
    BY <1>0, <1>1, <2>1, FitsMonotone DEF TypeOK
  <2>. QED
    BY <1>0, <2>1, <2>2 DEF NoLostWakeup
<1>5. NoSilentWedge'
  <2>1. t \notin waiting'
    BY <1>2
  <2>2. ~Deadlock(waiting, request, ownerWaiting)'
    BY <1>0, <1>2, <2>1, GrantEndsWedge
  <2>. QED
    BY <2>2 DEF NoSilentWedge
<1>. QED
  BY <1>1, <1>2, <1>3, <1>4, <1>5 DEF IInv

\* A woken file that fails with the verdict leaves the other waiting files
\* awake, so that each of them re-takes the verdict.
LEMMA WakeDeadlockStep ==
    ASSUME NEW t \in Threads, IInv, WakeDeadlock(t)
    PROVE  IInv'
<1>0. /\ TypeOK /\ Sums /\ Bounded /\ Counts /\ t \in waiting /\ t \notin asleep
      /\ Withdraw(t) /\ Deadlock(waiting, request, ownerWaiting)
      /\ available' = available /\ held' = held /\ asleep' = asleep
      /\ resv' = resv /\ finished' = finished
  BY DEF IInv, WakeDeadlock, Woken
<1>1. Sums' /\ Bounded'
  BY <1>0, SumsFrame
<1>2. /\ Counts' /\ waiting' = waiting \ {t} /\ ownerWaiting' \in [Files -> {0, 1}]
      /\ request' \in [Threads -> Amount]
      /\ \A u \in waiting \ {t} : request'[u] = request[u]
  BY <1>0, WithdrawStep
<1>3. TypeOK'
  BY <1>0, <1>2 DEF TypeOK
<1>4. NoLostWakeup'
  BY <1>0, <1>2 DEF IInv, TypeOK, NoLostWakeup
<1>5. NoSilentWedge'
  BY <1>0, <1>2 DEF IInv, NoSilentWedge
<1>. QED
  BY <1>1, <1>2, <1>3, <1>4, <1>5 DEF IInv

\* A woken thread goes back to sleep only without a verdict.
LEMMA WakeSleepStep ==
    ASSUME NEW t \in Threads, IInv, WakeSleep(t)
    PROVE  IInv'
<1>0. /\ TypeOK /\ Sums /\ Bounded /\ Counts /\ t \in waiting
      /\ ~FitsIn(request[t], available)
      /\ t \in Files => ~Deadlock(waiting, request, ownerWaiting)
      /\ available' = available /\ held' = held /\ ownerWaiting' = ownerWaiting
      /\ waiting' = waiting /\ request' = request /\ resv' = resv /\ finished' = finished
      /\ asleep' = asleep \cup {t}
  BY DEF IInv, WakeSleep, Woken
<1>1. Sums' /\ Bounded'
  BY <1>0, SumsFrame
<1>2. TypeOK' /\ Counts'
  BY <1>0 DEF TypeOK, Counts
<1>3. NoLostWakeup'
  BY <1>0 DEF IInv, NoLostWakeup
<1>4. Deadlock(waiting, request, ownerWaiting)' <=> Deadlock(waiting, request, ownerWaiting)
  BY <1>0 DEF Deadlock, SumHeld
<1>5. NoSilentWedge'
  BY <1>0, <1>4 DEF IInv, NoSilentWedge
<1>. QED
  BY <1>1, <1>2, <1>3, <1>5 DEF IInv

\* A spurious wake-up and the end of a program leave the books alone.
LEMMA QuietStep ==
    ASSUME IInv, UNCHANGED <<available, held, ownerWaiting, waiting, request, resv>>,
           asleep' \subseteq asleep, finished' \subseteq Threads \ waiting
    PROVE  IInv'
<1>1. Sums' /\ Bounded'
  BY SumsFrame DEF IInv
<1>2. TypeOK' /\ Counts'
  BY DEF IInv, TypeOK, Counts
<1>3. NoLostWakeup'
  BY DEF IInv, NoLostWakeup
<1>4. Deadlock(waiting, request, ownerWaiting)' <=> Deadlock(waiting, request, ownerWaiting)
  BY DEF Deadlock, SumHeld
<1>5. NoSilentWedge'
  BY <1>4 DEF IInv, NoSilentWedge
<1>. QED
  BY <1>1, <1>2, <1>3, <1>5 DEF IInv

\* Every step keeps the invariant.
LEMMA NextIInv == IInv /\ [Next]_vars => IInv'
<1> SUFFICES ASSUME IInv, [Next]_vars PROVE IInv'
  OBVIOUS
<1>0. TypeOK /\ Sums /\ Bounded /\ Counts
  BY DEF IInv
<1>u. CASE UNCHANGED vars
  BY <1>0, <1>u, QuietStep DEF vars, TypeOK
<1>1. CASE \E t \in Threads, a \in Requests : AcquireExceedsTotal(t, a)
  BY <1>1, <1>u DEF AcquireExceedsTotal
<1>2. ASSUME NEW t \in Threads, NEW s \in Slots, NEW a \in Requests, AcquireAtOnce(t, s, a)
      PROVE  IInv'
  BY <1>2, GrantAtOnce DEF AcquireAtOnce
<1>3. ASSUME NEW t \in Threads, NEW a \in Requests, AcquirePark(t, a)
      PROVE  IInv'
  BY <1>3, ParkStep
<1>4. CASE \E t \in Threads, a \in Requests : AcquireDeadlock(t, a)
  BY <1>4, <1>u DEF AcquireDeadlock
<1>5. ASSUME NEW t \in Threads, NEW s \in Slots, WakeGrant(t, s)
      PROVE  IInv'
  BY <1>5, WakeGrantStep
<1>6. ASSUME NEW t \in Threads, WakeDeadlock(t)
      PROVE  IInv'
  BY <1>6, WakeDeadlockStep
<1>7. ASSUME NEW t \in Threads, WakeSleep(t)
      PROVE  IInv'
  BY <1>7, WakeSleepStep
<1>8. ASSUME NEW t \in Threads, SpuriousWakeup(t)
      PROVE  IInv'
  BY <1>0, <1>8, QuietStep DEF SpuriousWakeup, TypeOK
<1>9. ASSUME NEW t \in Threads, NEW s \in Slots, NEW a \in Requests, TryAcquire(t, s, a)
      PROVE  IInv'
  BY <1>9, GrantAtOnce DEF TryAcquire
<1>10. ASSUME NEW t \in Threads, NEW s \in Slots, Release(t, s)
       PROVE  IInv'
  <2>1. /\ Sums' /\ Bounded' /\ available' \in Amount /\ held' \in [Files -> Amount]
        /\ resv' \in [Threads \X Slots -> Amount]
    BY <1>0, <1>10, ReleaseStep
  <2>2. asleep' = {} /\ UNCHANGED <<ownerWaiting, waiting, request, finished>>
    BY <1>10 DEF Release
  <2>3. TypeOK' /\ Counts'
    BY <1>0, <2>1, <2>2 DEF TypeOK, Counts
  <2>. QED
    BY <2>1, <2>2, <2>3 DEF IInv, NoLostWakeup, NoSilentWedge
<1>11. ASSUME NEW t \in Threads, Finish(t)
       PROVE  IInv'
  BY <1>0, <1>11, QuietStep DEF Finish, Running, TypeOK
<1>12. CASE AllDone
  BY <1>12, <1>u DEF AllDone
<1>. QED
  BY <1>u, <1>1, <1>2, <1>3, <1>4, <1>5, <1>6, <1>7, <1>8, <1>9, <1>10, <1>11, <1>12 DEF Next

-----------------------------------------------------------------------------
\* A set of callers has nothing reserved exactly if all its slots are empty.
LEMMA ReservedTruth ==
    ASSUME TypeOK, Bounded, NEW S \in SUBSET Threads, IsFiniteSet(S \X Slots)
    PROVE  (\A x \in Axes : Reserved(S, x) = 0) <=> (\A c \in S \X Slots : IsZero(resv[c]))
<1>0. \A x \in Axes : Total[x] \in Nat
  BY PoolAssumption DEF Amount
<1>1. ASSUME \A x \in Axes : Reserved(S, x) = 0, NEW c \in S \X Slots
      PROVE  IsZero(resv[c])
  <2>0. resv[c] \in Amount
    BY DEF TypeOK
  <2>1. ASSUME NEW x \in Axes
        PROVE  resv[c][x] = 0
    <3>1. resv[c][x] \in 0..Total[x]
      BY <1>0, <2>0 DEF Bounded, FitsIn, Amount
    <3>2. resv[c][x] <= Reserved(S, x)
      BY <1>0, <1>1, <3>1, UnitsElement DEF Reserved
    <3>. QED
      BY <1>0, <1>1, <3>1, <3>2
  <2>. QED
    BY <2>0, <2>1 DEF IsZero, Zero, Amount
<1>2. ASSUME \A c \in S \X Slots : IsZero(resv[c]), NEW x \in Axes
      PROVE  Reserved(S, x) = 0
  <2>1. \A c \in S \X Slots : resv[c][x] = 0
    BY <1>2 DEF IsZero, Zero
  <2>. QED
    BY <1>0, <2>1, UnitsZero DEF Reserved
<1>. QED
  BY <1>1, <1>2

\* What the verdict reads is what is really reserved: the owners' sum equals
\* the outstanding total exactly if no anonymous reservation is live, and an
\* owner is a holder exactly if it has a live reservation.
LEMMA BooksTruth ==
    ASSUME TypeOK, Sums, Bounded
    PROVE  /\ (\A x \in Axes : SumHeld(x) = SaturatingSub(Total, available)[x])
                <=> (\A c \in Strays \X Slots : IsZero(resv[c]))
           /\ \A f \in Files : IsZero(held[f]) <=> \A s \in Slots : IsZero(resv[<<f, s>>])
<1>0. \A x \in Axes : /\ Total[x] \in Nat /\ available[x] \in Nat
                      /\ available[x] <= Total[x]
  BY PoolAssumption DEF Amount, TypeOK, Bounded, FitsIn
<1>1. ASSUME NEW x \in Axes
      PROVE  SumHeld(x) = SaturatingSub(Total, available)[x] <=> Reserved(Strays, x) = 0
  <2>1. SumHeld(x) \in Nat
    BY <1>0, FiniteIndices, UnitsType DEF SumHeld
  <2>2. Reserved(Strays, x) \in Nat
    BY <1>0, FiniteIndices, UnitsType DEF Reserved
  <2>3. available[x] + SumHeld(x) + Reserved(Strays, x) = Total[x]
    BY DEF Sums
  <2>4. SaturatingSub(Total, available)[x] = Total[x] - available[x]
    BY <1>0 DEF SaturatingSub
  <2>. QED
    BY <1>0, <2>1, <2>2, <2>3, <2>4
<1>2. Strays \in SUBSET Threads /\ \A f \in Files : {f} \in SUBSET Threads
  BY DEF Threads
<1>3. (\A x \in Axes : Reserved(Strays, x) = 0) <=> (\A c \in Strays \X Slots : IsZero(resv[c]))
  BY <1>2, FiniteIndices, ReservedTruth
<1>4. ASSUME NEW f \in Files
      PROVE  IsZero(held[f]) <=> \A s \in Slots : IsZero(resv[<<f, s>>])
  <2>1. (\A x \in Axes : Reserved({f}, x) = 0) <=> (\A c \in {f} \X Slots : IsZero(resv[c]))
    BY <1>2, FiniteIndices, ReservedTruth
  <2>2. IsZero(held[f]) <=> \A x \in Axes : held[f][x] = 0
    BY DEF IsZero, Zero, TypeOK, Amount
  <2>3. \A x \in Axes : held[f][x] = Reserved({f}, x)
    BY DEF Sums
  <2>4. (\A c \in {f} \X Slots : IsZero(resv[c])) <=> \A s \in Slots : IsZero(resv[<<f, s>>])
    OBVIOUS
  <2>. QED
    BY <2>1, <2>2, <2>3, <2>4
<1>. QED
  BY <1>1, <1>3, <1>4

\* The verdict, over any tickets whose owners are counted, is the ground truth.
LEMMA VerdictTruth ==
    ASSUME TypeOK, Sums, Bounded, NEW ws \in SUBSET Threads, NEW rq, NEW ow,
           rq \in [Threads -> Amount],
           \A f \in Files : ow[f] = IF f \in ws THEN 1 ELSE 0
    PROVE  Deadlock(ws, rq, ow) <=> Wedged(ws, rq)
<1>1. \A t \in ws : ~FitsIn(rq[t], available)
                      <=> \E x \in Axes : rq[t][x] > Total[x] - Reserved(Threads, x)
  <2>1. ASSUME NEW x \in Axes
        PROVE  available[x] = Total[x] - Reserved(Threads, x)
    <3>1. Total[x] \in Nat /\ available[x] \in Nat
      BY PoolAssumption DEF Amount, TypeOK
    <3>2. Reserved(Threads, x) \in Nat
      BY <3>1, FiniteIndices, UnitsType DEF Reserved
    <3>. QED
      BY <3>1, <3>2 DEF Sums
  <2>2. \A t \in ws, x \in Axes : rq[t][x] \in Nat /\ available[x] \in Nat
    BY DEF Amount, TypeOK
  <2>3. \A t \in ws, x \in Axes :
           ~(rq[t][x] <= available[x]) <=> rq[t][x] > Total[x] - Reserved(Threads, x)
    BY <2>1, <2>2
  <2>. QED
    BY <2>3 DEF FitsIn
<1>2. /\ (\A x \in Axes : SumHeld(x) = SaturatingSub(Total, available)[x])
            <=> (\A c \in Strays \X Slots : IsZero(resv[c]))
      /\ \A f \in Files : IsZero(held[f]) <=> \A s \in Slots : IsZero(resv[<<f, s>>])
  BY BooksTruth
<1>3. \A f \in Files : ow[f] # 0 <=> f \in ws
  OBVIOUS
<1> DEFINE NoStray == \A c \in Strays \X Slots : IsZero(resv[c])
           Holders == \A f \in Files : ~IsZero(held[f]) => f \in ws
           Someone == \E f \in Files : ~IsZero(held[f])
<1>4. /\ \E c \in Threads \X Slots : ~IsZero(resv[c])
      /\ \A t \in Threads, s \in Slots : ~IsZero(resv[<<t, s>>]) => t \in Files \cap ws
      <=> NoStray /\ Holders /\ Someone
  <2>1. (\A t \in Threads, s \in Slots : ~IsZero(resv[<<t, s>>]) => t \in Files \cap ws)
          => NoStray /\ Holders
    BY <1>2, PoolAssumption DEF Threads
  <2>2. NoStray /\ Holders
          => (\A t \in Threads, s \in Slots : ~IsZero(resv[<<t, s>>]) => t \in Files \cap ws)
    BY <1>2 DEF Threads
  <2>3. NoStray /\ (\E c \in Threads \X Slots : ~IsZero(resv[c])) => Someone
    BY <1>2 DEF Threads
  <2>4. Someone => \E c \in Threads \X Slots : ~IsZero(resv[c])
    BY <1>2 DEF Threads
  <2>. QED
    BY <2>1, <2>2, <2>3, <2>4
<1>5. Deadlock(ws, rq, ow)
        <=> NoStray /\ Holders /\ Someone /\ \A t \in ws : ~FitsIn(rq[t], available)
  BY <1>2, <1>3 DEF Deadlock
<1> HIDE DEF NoStray, Holders, Someone
<1>. QED
  BY <1>1, <1>4, <1>5 DEF Wedged

\* The verdict is exact in every state of the invariant.
LEMMA InvVerdict == IInv => VerdictIsExact
<1> SUFFICES ASSUME IInv PROVE VerdictIsExact
  OBVIOUS
<1>0. TypeOK /\ Sums /\ Bounded /\ Counts
  BY DEF IInv
<1>1. Deadlock(waiting, request, ownerWaiting) <=> Wedged(waiting, request)
  BY <1>0, VerdictTruth DEF TypeOK, Counts
<1>2. ASSUME NEW f \in Files \ waiting, NEW a \in Requests
      PROVE  Deadlock(waiting \cup {f}, [request EXCEPT ![f] = a], CountIn(f))
               <=> Wedged(waiting \cup {f}, [request EXCEPT ![f] = a])
  <2>1. \A g \in Files : CountIn(f)[g] = IF g \in waiting \cup {f} THEN 1 ELSE 0
    BY <1>0, CountsMove DEF Threads
  <2>2. waiting \cup {f} \in SUBSET Threads
    BY <1>0 DEF TypeOK, Threads
  <2>3. [request EXCEPT ![f] = a] \in [Threads -> Amount]
    BY <1>0, PoolAssumption DEF TypeOK, Threads
  <2>. QED
    BY <1>0, <2>1, <2>2, <2>3, VerdictTruth
<1>. QED
  BY <1>1, <1>2 DEF VerdictIsExact

-----------------------------------------------------------------------------
\* IInv is an invariant of the pool.
THEOREM Invariance == Spec => []IInv
  BY InitIInv, NextIInv, PTL DEF Spec

\* The state of the pool keeps its type (PoolState, pool.rs).
THEOREM TypeCorrect == Spec => []TypeOK
<1>1. IInv => TypeOK
  BY DEF IInv
<1>. QED
  BY <1>1, Invariance, PTL

\* Nothing is lost and nothing is handed out twice, by acquire, try_acquire,
\* a failed acquire or the drop of a reservation, on either axis.
THEOREM ConservationHolds == Spec => []Conservation
<1>1. IInv => Conservation
  BY DEF IInv, Sums, Conservation
<1>. QED
  BY <1>1, Invariance, PTL

\* No thread sleeps in cond.wait on a request that fits.
THEOREM NoLostWakeupHolds == Spec => []NoLostWakeup
<1>1. IInv => NoLostWakeup
  BY DEF IInv
<1>. QED
  BY <1>1, Invariance, PTL

\* PoolState::deadlock is true exactly if the pool is wedged.
THEOREM VerdictExact == Spec => []VerdictIsExact
  BY InvVerdict, Invariance, PTL

\* A wedged pool always has a waiting file that is awake to say so.
THEOREM NoSilentWedgeHolds == Spec => []NoSilentWedge
<1>1. IInv => NoSilentWedge
  BY DEF IInv
<1>. QED
  BY <1>1, Invariance, PTL

=============================================================================
