------------------------ MODULE LayerPlanProofs ------------------------
(***************************************************************************)
(* Facts about the layer plan that hold for every number of layers, every  *)
(* finite set of nodes and every capacity.  The induction principles of    *)
(* the library take an operator; here an induction is the choice of the    *)
(* least counterexample of an explicit set of numbers or of subsets.       *)
(***************************************************************************)
EXTENDS FairShares, FiniteSetTheorems, TLAPS

------------------------------------------------------------------------
(* Least elements.                                                         *)

\* Every set of naturals that is not empty has a least element: the initial
\* segments below one of its elements are finite sets, well-founded by strict
\* inclusion.
LEMMA LeastElement ==
  ASSUME NEW T \in SUBSET Nat, T # {}
  PROVE  \E x \in T : \A y \in T : x <= y
<1>1. PICK n \in T : TRUE
  OBVIOUS
<1> DEFINE Below(x) == {y \in T : y <= x}
           Chain    == {Below(x) : x \in Below(n)}
<1>2. \A x \in T : x \in Nat
  OBVIOUS
<1>3. /\ Chain \subseteq FiniteSubsetsOf(Below(n))
      /\ \A x \in Below(n) : Below(x) \subseteq Below(n)
  <2>1. \A x \in Below(n) : Below(x) \subseteq Below(n)
    <3> SUFFICES ASSUME NEW x \in T, x <= n, NEW y \in T, y <= x PROVE y <= n
      OBVIOUS
    <3> QED BY <1>2
  <2>2. IsFiniteSet(Below(n))
    <3>1. Below(n) \in SUBSET Nat /\ n \in Nat /\ \A s \in Below(n) : s <= n
      OBVIOUS
    <3> HIDE DEF Below
    <3> QED BY <3>1, FS_BoundedSetOfNaturals
  <2>3. FiniteSubsetsOf(Below(n)) = SUBSET Below(n)
    <3> HIDE DEF Below
    <3> QED BY <2>2, FS_FiniteSubsetsOfFinite
  <2>4. QED BY <2>1, <2>3
<1>4. PICK x \in Below(n) :
        \A U \in Chain : <<U, Below(x)>> \notin StrictSubsetOrdering(Below(n))
  <2>1. n \in Below(n)
    BY <1>1, <1>2
  <2>2. \E X \in Chain :
          \A U \in Chain : ~ (<<U, X>> \in StrictSubsetOrdering(Below(n)))
    <3>1. Chain # {}
      BY <2>1
    <3> HIDE DEF Chain, Below
    <3> QED BY <1>3, <3>1, FS_StrictSubsetOrderingWellFounded, WFMin
  <2>3. QED BY <2>2
<1>5. ASSUME NEW y \in T, y < x PROVE FALSE
  <2>1. x \in T /\ x <= n /\ x \in Nat /\ y \in Nat /\ n \in Nat
    BY <1>2
  <2>2. Below(y) \subseteq Below(x)
    <3> SUFFICES ASSUME NEW z \in T, z <= y PROVE z <= x
      OBVIOUS
    <3> QED BY <1>2, <1>5, <2>1
  <2>3. x \notin Below(y) /\ x \in Below(x) /\ y \in Below(n)
    BY <1>5, <2>1
  <2>4. Below(y) \in Chain
    BY <2>3
  <2>5. Below(x) \subseteq Below(n)
    <3> HIDE DEF Below, Chain
    <3> QED BY <1>3
  <2> HIDE DEF Below, Chain
  <2>6. <<Below(y), Below(x)>> \in StrictSubsetOrdering(Below(n))
    BY <2>2, <2>3, <2>5 DEF StrictSubsetOrdering
  <2> QED BY <2>4, <2>6, <1>4
<1>6. x \in T /\ x \in Nat
  BY <1>2
<1> QED BY <1>2, <1>5, <1>6

------------------------------------------------------------------------
(* The loop.                                                               *)

\* Accumulate computes what its loop says: it starts at x0, and each position
\* applies step to the value of the position before.
LEMMA AccumulateLoop ==
  ASSUME NEW n \in Nat, NEW D, NEW x0 \in D,
         NEW step \in [1 .. n -> [D -> D]]
  PROVE  /\ Accumulate(n, x0, step) \in [0 .. n -> D]
         /\ Accumulate(n, x0, step)[0] = x0
         /\ \A i \in 1 .. n : Accumulate(n, x0, step)[i]
                                = step[i][Accumulate(n, x0, step)[i - 1]]
<1> DEFINE IsLoop(k, f) == /\ f \in [0 .. k -> D]
                           /\ f[0] = x0
                           /\ \A i \in 1 .. k : f[i] = step[i][f[i - 1]]
           Stuck == {k \in 0 .. n : ~ \E f : IsLoop(k, f)}
           Body(f) == [i \in 0 .. n |-> IF i = 0 THEN x0 ELSE step[i][f[i - 1]]]
<1>1. Stuck = {}
  <2> SUFFICES ASSUME Stuck # {} PROVE FALSE
    OBVIOUS
  <2>1. PICK k \in Stuck : \A y \in Stuck : k <= y
    <3>1. Stuck \in SUBSET Nat
      <4> HIDE DEF IsLoop
      <4> QED OBVIOUS
    <3> HIDE DEF Stuck
    <3> QED BY <3>1, LeastElement
  <2>2. k # 0
    <3> DEFINE g == [i \in 0 .. 0 |-> x0]
    <3>1. g \in [0 .. 0 -> D] /\ g[0] = x0 /\ 1 .. 0 = {}
      <4>1. 0 \in 0 .. 0 /\ 1 .. 0 = {}
        OBVIOUS
      <4> QED BY <4>1
    <3>2. IsLoop(0, g)
      <4> HIDE DEF g
      <4> QED BY <3>1
    <3> HIDE DEF IsLoop, g
    <3> QED BY <3>2
  <2>3. PICK g : IsLoop(k - 1, g)
    <3> HIDE DEF IsLoop
    <3>1. k - 1 \in 0 .. n /\ ~ (k <= k - 1)
      BY <2>2
    <3>2. k - 1 \notin Stuck
      BY <2>1, <3>1
    <3> QED BY <3>1, <3>2
  <2> DEFINE h == [i \in 0 .. k |-> IF i = k THEN step[k][g[k - 1]] ELSE g[i]]
  <2>4. IsLoop(k, h)
    <3>1. k \in 1 .. n /\ k - 1 \in 0 .. k - 1
      BY <2>2
    <3>2. step[k][g[k - 1]] \in D
      BY <3>1, <2>3
    <3>3. h \in [0 .. k -> D] /\ h[0] = x0
      BY <3>1, <3>2, <2>3
    <3>4. ASSUME NEW i \in 1 .. k PROVE h[i] = step[i][h[i - 1]]
      <4>1. CASE i = k
        <5>1. h[k] = step[k][g[k - 1]] /\ h[k - 1] = g[k - 1]
          BY <3>1
        <5> QED BY <5>1, <4>1
      <4>2. CASE i # k
        <5>1. i \in 1 .. k - 1 /\ i \in 0 .. k /\ i - 1 \in 0 .. k /\ i - 1 # k
          BY <4>2, <3>1
        <5>2. h[i] = g[i] /\ h[i - 1] = g[i - 1]
          BY <5>1, <4>2
        <5> QED BY <5>1, <5>2, <2>3
      <4> QED BY <4>1, <4>2
    <3> QED BY <3>3, <3>4
  <2> QED BY <2>1, <2>4
<1>2. PICK f : IsLoop(n, f)
  <2>1. n \in 0 .. n
    OBVIOUS
  <2> QED BY <1>1, <2>1
<1>3. f = Body(f)
  <2>1. \A i \in 0 .. n : f[i] = Body(f)[i]
    <3> SUFFICES ASSUME NEW i \in 0 .. n PROVE f[i] = Body(f)[i]
      OBVIOUS
    <3>1. CASE i = 0
      BY <1>2, <3>1
    <3>2. CASE i # 0
      <4>1. i \in 1 .. n
        BY <3>2
      <4> QED BY <4>1, <1>2, <3>2
    <3> QED BY <3>1, <3>2
  <2> QED BY <1>2, <2>1
<1> DEFINE acc == Accumulate(n, x0, step)
<1>4. acc = Body(acc)
  <2>1. acc = CHOOSE a : a = Body(a)
    BY DEF Accumulate
  <2> HIDE DEF acc, Body
  <2> QED BY <1>3, <2>1
<1>5. {k \in 0 .. n : acc[k] # f[k]} = {}
  <2> DEFINE Apart == {k \in 0 .. n : acc[k] # f[k]}
  <2> HIDE DEF acc
  <2> SUFFICES ASSUME Apart # {} PROVE FALSE
    OBVIOUS
  <2>1. PICK k \in Apart : \A y \in Apart : k <= y
    <3>1. Apart \in SUBSET Nat
      OBVIOUS
    <3> HIDE DEF Apart
    <3> QED BY <3>1, LeastElement
  <2>2. CASE k = 0
    <3>1. acc[0] = Body(acc)[0] /\ Body(acc)[0] = x0
      BY <1>4
    <3> QED BY <3>1, <2>2, <2>1, <1>2
  <2>3. CASE k # 0
    <3>1. k \in 1 .. n /\ k - 1 \in 0 .. n /\ ~ (k <= k - 1)
      BY <2>3
    <3>2. acc[k - 1] = f[k - 1]
      BY <2>1, <3>1
    <3>3. acc[k] = Body(acc)[k] /\ Body(acc)[k] = step[k][acc[k - 1]]
      BY <1>4, <3>1
    <3>4. f[k] = step[k][f[k - 1]]
      BY <1>2, <3>1
    <3> QED BY <3>2, <3>3, <3>4, <2>1
  <2> QED BY <2>2, <2>3
<1>6. acc = f
  <2>1. acc = [i \in 0 .. n |-> acc[i]]
    BY <1>4
  <2>2. f = [i \in 0 .. n |-> f[i]]
    BY <1>2
  <2>3. \A i \in 0 .. n : acc[i] = f[i]
    BY <1>5
  <2> HIDE DEF acc
  <2> QED BY <2>1, <2>2, <2>3
<1> QED BY <1>2, <1>6

------------------------------------------------------------------------
(* The order.                                                              *)

\* Of any two nodes one precedes the other, and precedence is transitive.
LEMMA BeforeIsOrder ==
  ASSUME NEW S \in SUBSET Nat, NEW composite, \A n \in S : composite[n] \in Nat
  PROVE  /\ \A a, b \in S : a # b => Before(composite, a, b) \/ Before(composite, b, a)
         /\ \A a, b \in S : ~ (Before(composite, a, b) /\ Before(composite, b, a))
         /\ \A a, b, c \in S :
              Before(composite, a, b) /\ Before(composite, b, c) => Before(composite, a, c)
<1>1. \A n \in S : n \in Nat
  OBVIOUS
<1> QED BY <1>1 DEF Before

\* A node that comes after all of T extends a sorted list of T by one.
LEMMA AppendKeepsSorted ==
  ASSUME NEW T, NEW composite, NEW n, NEW k \in Nat, NEW o \in [1 .. k -> T],
         IsSorted(T, composite, o), \A m \in T : Before(composite, m, n)
  PROVE  \E p \in [1 .. k + 1 -> T \cup {n}] : IsSorted(T \cup {n}, composite, p)
<1> DEFINE p == [i \in 1 .. k + 1 |-> IF i = k + 1 THEN n ELSE o[i]]
<1>1. /\ p \in [1 .. k + 1 -> T \cup {n}]
      /\ p[k + 1] = n
      /\ \A i \in 1 .. k : i \in DOMAIN o /\ i \in DOMAIN p /\ p[i] = o[i] /\ o[i] \in T
  OBVIOUS
<1>2. \A m \in T \cup {n} : \E i \in DOMAIN p : p[i] = m
  <2>1. \A m \in T : \E i \in 1 .. k : o[i] = m
    BY DEF IsSorted
  <2>2. k + 1 \in DOMAIN p
    OBVIOUS
  <2> HIDE DEF p
  <2> QED BY <1>1, <2>1, <2>2
<1>3. \A i, j \in DOMAIN p : i < j => Before(composite, p[i], p[j])
  <2> SUFFICES ASSUME NEW i \in 1 .. k + 1, NEW j \in 1 .. k + 1, i < j
               PROVE  Before(composite, p[i], p[j])
    OBVIOUS
  <2>1. i \in 1 .. k
    OBVIOUS
  <2>2. CASE j = k + 1
    <3> HIDE DEF p
    <3> QED BY <1>1, <2>1, <2>2
  <2>3. CASE j # k + 1
    <3>1. j \in 1 .. k
      BY <2>3
    <3>2. Before(composite, o[i], o[j])
      BY <2>1, <3>1 DEF IsSorted
    <3> HIDE DEF p
    <3> QED BY <1>1, <2>1, <3>1, <3>2
  <2> QED BY <2>2, <2>3
<1> HIDE DEF p
<1> QED BY <1>1, <1>2, <1>3 DEF IsSorted

\* sorted_by_capacity always has an answer, and the operator that models it
\* returns one: each node of S once, in the order of Before.
LEMMA SortedByCapacityIsSorted ==
  ASSUME NEW S \in SUBSET Nat, IsFiniteSet(S),
         NEW composite, \A n \in S : composite[n] \in Nat
  PROVE  /\ SortedByCapacity(S, composite) \in [1 .. Cardinality(S) -> S]
         /\ IsSorted(S, composite, SortedByCapacity(S, composite))
<1> DEFINE Has(T) == \E o \in [1 .. Cardinality(T) -> T] : IsSorted(T, composite, o)
           Bad    == {T \in SUBSET S : ~ Has(T)}
<1>1. \A T \in SUBSET S : IsFiniteSet(T)
  BY FS_Subset
<1>2. ASSUME Bad # {} PROVE FALSE
  <2>1. PICK T \in Bad : \A U \in Bad : <<U, T>> \notin StrictSubsetOrdering(S)
    <3>1. Bad \subseteq FiniteSubsetsOf(S)
      <4> HIDE DEF Has
      <4> QED BY <1>1 DEF FiniteSubsetsOf
    <3>2. \E X \in Bad : \A U \in Bad : ~ (<<U, X>> \in StrictSubsetOrdering(S))
      <4> HIDE DEF Bad
      <4> QED BY <3>1, <1>2, FS_StrictSubsetOrderingWellFounded, WFMin
    <3> HIDE DEF Bad
    <3> QED BY <3>2
  <2> HIDE DEF Has
  <2>2. /\ T \in SUBSET S /\ ~ Has(T) /\ IsFiniteSet(T)
        /\ \A n \in T : composite[n] \in Nat /\ n \in Nat
    BY <1>1
  <2>3. \A n \in T : Has(T \ {n})
    <3> SUFFICES ASSUME NEW n \in T PROVE Has(T \ {n})
      OBVIOUS
    <3>1. <<T \ {n}, T>> \in StrictSubsetOrdering(S)
      BY <2>2 DEF StrictSubsetOrdering
    <3>2. T \ {n} \notin Bad /\ T \ {n} \in SUBSET S
      BY <3>1, <2>1, <2>2
    <3> QED BY <3>2
  <2>4. \A n \in T : /\ IsFiniteSet(T \ {n})
                     /\ Cardinality(T \ {n}) \in Nat
                     /\ Cardinality(T) = Cardinality(T \ {n}) + 1
    <3> SUFFICES ASSUME NEW n \in T
                 PROVE  /\ IsFiniteSet(T \ {n})
                        /\ Cardinality(T \ {n}) \in Nat
                        /\ Cardinality(T) = Cardinality(T \ {n}) + 1
      OBVIOUS
    <3>1. IsFiniteSet(T \ {n}) /\ Cardinality(T \ {n}) = Cardinality(T) - 1
      BY <2>2, FS_RemoveElement
    <3>2. Cardinality(T \ {n}) \in Nat /\ Cardinality(T) \in Nat
      BY <3>1, <2>2, FS_CardinalityType
    <3> QED BY <3>1, <3>2
  <2>5. T # {}
    <3> SUFFICES ASSUME T = {} PROVE FALSE
      OBVIOUS
    <3> DEFINE o == [i \in 1 .. 0 |-> i]
    <3>1. Cardinality(T) = 0
      BY FS_EmptySet
    <3>2. 1 .. 0 = {}
      OBVIOUS
    <3>3. o \in [1 .. 0 -> T] /\ IsSorted(T, composite, o)
      BY <3>2 DEF IsSorted
    <3> HIDE DEF o
    <3> QED BY <3>1, <3>3, <2>2 DEF Has
  <2>6. \E n \in T : \A m \in T \ {n} : Before(composite, m, n)
    <3>1. PICK x \in T : TRUE
      BY <2>5
    <3> DEFINE k == Cardinality(T \ {x})
    <3>2. PICK o \in [1 .. k -> T \ {x}] : IsSorted(T \ {x}, composite, o)
      BY <2>3 DEF Has
    <3>3. k \in Nat
      BY <2>4
    <3> HIDE DEF k
    <3>4. \A m \in T \ {x} : \E i \in 1 .. k : o[i] = m
      BY <3>2 DEF IsSorted
    <3>5. CASE k = 0
      <4>1. T \ {x} = {}
        BY <3>4, <3>5
      <4> QED BY <4>1, <3>1
    <3>6. CASE k # 0
      <4>1. k \in 1 .. k
        BY <3>3, <3>6
      <4>2. o[k] \in T \ {x}
        BY <4>1
      <4>3. \A m \in T \ {x} : m = o[k] \/ Before(composite, m, o[k])
        <5> SUFFICES ASSUME NEW m \in T \ {x}, m # o[k]
                     PROVE  Before(composite, m, o[k])
          OBVIOUS
        <5>1. PICK i \in 1 .. k : o[i] = m
          BY <3>4
        <5>2. i < k
          BY <5>1, <3>3
        <5> QED BY <5>1, <5>2, <4>1, <3>2 DEF IsSorted
      <4>4. T \in SUBSET Nat /\ \A n \in T : composite[n] \in Nat
        BY <2>2
      <4>5. CASE Before(composite, o[k], x)
        <5>1. \A m \in T \ {x} : Before(composite, m, x)
          BY <4>2, <4>3, <4>4, <4>5, BeforeIsOrder
        <5> QED BY <5>1
      <4>6. CASE ~ Before(composite, o[k], x)
        <5>1. Before(composite, x, o[k])
          BY <4>2, <4>4, <4>6, BeforeIsOrder
        <5>2. \A m \in T \ {o[k]} : Before(composite, m, o[k])
          BY <4>3, <5>1
        <5> QED BY <5>2, <4>2
      <4> QED BY <4>5, <4>6
    <3> QED BY <3>5, <3>6
  <2>7. PICK n \in T : \A m \in T \ {n} : Before(composite, m, n)
    BY <2>6
  <2> DEFINE U == T \ {n}
             c == Cardinality(U)
  <2>8. PICK o \in [1 .. c -> U] : IsSorted(U, composite, o)
    BY <2>3, <2>7 DEF Has
  <2>9. c \in Nat /\ Cardinality(T) = c + 1 /\ T = U \cup {n}
    BY <2>4, <2>7
  <2>10. \E p \in [1 .. c + 1 -> U \cup {n}] : IsSorted(U \cup {n}, composite, p)
    <3>1. \A m \in U : Before(composite, m, n)
      BY <2>7
    <3> HIDE DEF U, c
    <3> QED BY <3>1, <2>8, <2>9, AppendKeepsSorted
  <2>11. Has(T)
    <3> HIDE DEF U, c
    <3> QED BY <2>9, <2>10 DEF Has
  <2> QED BY <2>2, <2>11
<1>3. Has(S)
  <2>1. S \in SUBSET S
    OBVIOUS
  <2> HIDE DEF Has
  <2> QED BY <1>2, <2>1
<1> QED BY <1>3 DEF SortedByCapacity

------------------------------------------------------------------------
(* The cuts.                                                               *)

\* Whole division of natural numbers gives a natural number.
LEMMA QuotientIsNat ==
  ASSUME NEW a \in Nat, NEW b \in Nat, b > 0
  PROVE  a \div b \in Nat
OBVIOUS

\* The sum of natural composites is a natural number.
LEMMA TotalIsNat ==
  ASSUME NEW n \in Nat, NEW S, NEW order \in [1 .. n -> S],
         NEW composite, \A m \in S : composite[m] \in Nat
  PROVE  TotalComposite(order, composite) \in Nat
<1> DEFINE add == [i \in 1 .. n |-> [x \in Nat |-> x + composite[order[i]]]]
<1>1. Len(order) = n
  OBVIOUS
<1>2. add \in [1 .. n -> [Nat -> Nat]]
  <2>1. \A i \in 1 .. n : composite[order[i]] \in Nat
    OBVIOUS
  <2> QED BY <2>1
<1>3. Accumulate(n, 0, add) \in [0 .. n -> Nat]
  <2> HIDE DEF add
  <2> QED BY <1>2, AccumulateLoop
<1>4. TotalComposite(order, composite) = Accumulate(n, 0, add)[n]
  BY <1>1 DEF TotalComposite
<1> HIDE DEF add
<1> QED BY <1>3, <1>4

\* A slice ends no earlier than it starts and inside the model; the slice of
\* the last node ends the model.
LEMMA EndLayerBounds ==
  ASSUME NEW n \in Nat, NEW S, NEW order \in [1 .. n -> S],
         NEW composite, \A m \in S : composite[m] \in Nat,
         NEW total \in Nat, NEW i \in 1 .. n, NEW current \in 0 .. TotalLayers
  PROVE  /\ EndLayer(order, composite, total, i, current) \in current .. TotalLayers
         /\ i = n => EndLayer(order, composite, total, i, current) = TotalLayers
<1> DEFINE count == LayerCount(order, composite, total, i, current)
<1>1. Len(order) = n /\ composite[order[i]] \in Nat /\ TotalLayers \in Nat
  BY TotalLayersAssumption
<1>2. count \in Nat /\ (i = n => count = TotalLayers - current)
  <2>1. CASE i = n
    BY <2>1, <1>1 DEF LayerCount
  <2>2. CASE i # n /\ total = 0
    <3>1. TotalLayers \div n \in Nat
      BY <1>1, QuotientIsNat
    <3> QED BY <3>1, <2>2, <1>1 DEF LayerCount
  <2>3. CASE i # n /\ total # 0
    <3> DEFINE c == composite[order[i]]
    <3>1. 2 * c * TotalLayers + total \in Nat /\ 2 * total \in Nat /\ 2 * total > 0
      <4>1. c * TotalLayers \in Nat
        BY <1>1
      <4>2. 2 * c * TotalLayers = 2 * (c * TotalLayers)
        BY <1>1
      <4> HIDE DEF c
      <4> QED BY <4>1, <4>2, <2>3
    <3>2. Share(c, total) \in Nat
      BY <3>1, QuotientIsNat DEF Share
    <3> QED BY <3>2, <2>3, <1>1 DEF LayerCount
  <2> QED BY <2>1, <2>2, <2>3
<1> HIDE DEF count
<1>3. EndLayer(order, composite, total, i, current)
        = IF current + count <= TotalLayers THEN current + count ELSE TotalLayers
  BY DEF EndLayer, count
<1> QED BY <1>1, <1>2, <1>3

\* The cuts climb from layer 0 to the end of the model.
LEMMA CutsClimb ==
  ASSUME NEW n \in Nat, NEW S, NEW order \in [1 .. n -> S],
         NEW composite, \A m \in S : composite[m] \in Nat
  PROVE  /\ Cuts(order, composite) \in [0 .. n -> 0 .. TotalLayers]
         /\ Cuts(order, composite)[0] = 0
         /\ n # 0 => Cuts(order, composite)[n] = TotalLayers
         /\ \A i \in 1 .. n :
              Cuts(order, composite)[i - 1] <= Cuts(order, composite)[i]
<1> DEFINE total == TotalComposite(order, composite)
           D     == 0 .. TotalLayers
           step  == [i \in 1 .. n |-> [current \in D |->
                       EndLayer(order, composite, total, i, current)]]
           cut   == Accumulate(n, 0, step)
<1>1. Len(order) = n
  OBVIOUS
<1>2. total \in Nat
  BY TotalIsNat
<1> HIDE DEF total
<1>3. \A i \in 1 .. n, x \in D : /\ step[i][x] \in x .. TotalLayers
                                 /\ i = n => step[i][x] = TotalLayers
                                 /\ step[i][x] \in D
  <2> SUFFICES ASSUME NEW i \in 1 .. n, NEW x \in D
               PROVE  /\ step[i][x] \in x .. TotalLayers
                      /\ i = n => step[i][x] = TotalLayers
                      /\ step[i][x] \in D
    OBVIOUS
  <2>1. step[i][x] = EndLayer(order, composite, total, i, x)
    OBVIOUS
  <2>2. /\ EndLayer(order, composite, total, i, x) \in x .. TotalLayers
        /\ i = n => EndLayer(order, composite, total, i, x) = TotalLayers
    BY <1>2, EndLayerBounds
  <2> HIDE DEF step
  <2> QED BY <2>1, <2>2, TotalLayersAssumption
<1>4. step \in [1 .. n -> [D -> D]]
  <2>1. \A i \in 1 .. n, x \in D : EndLayer(order, composite, total, i, x) \in D
    BY <1>3
  <2> HIDE DEF D
  <2> QED BY <2>1
<1>5. 0 \in D
  BY TotalLayersAssumption
<1>6. Cuts(order, composite) = cut
  BY <1>1 DEF Cuts, total
<1>7. /\ cut \in [0 .. n -> D]
      /\ cut[0] = 0
      /\ \A i \in 1 .. n : cut[i] = step[i][cut[i - 1]]
  <2> HIDE DEF step, D
  <2> QED BY <1>4, <1>5, AccumulateLoop
<1> HIDE DEF step, cut
<1>8. \A i \in 1 .. n : /\ cut[i - 1] \in D
                        /\ cut[i] \in cut[i - 1] .. TotalLayers
                        /\ i = n => cut[i] = TotalLayers
  <2> SUFFICES ASSUME NEW i \in 1 .. n
               PROVE  /\ cut[i - 1] \in D
                      /\ cut[i] \in cut[i - 1] .. TotalLayers
                      /\ i = n => cut[i] = TotalLayers
    OBVIOUS
  <2>1. i - 1 \in 0 .. n
    OBVIOUS
  <2>2. cut[i - 1] \in D
    BY <2>1, <1>7
  <2> HIDE DEF D
  <2> QED BY <2>2, <1>7, <1>3
<1>9. n # 0 => cut[n] = TotalLayers
  <2>1. n # 0 => n \in 1 .. n
    OBVIOUS
  <2> QED BY <2>1, <1>8
<1>10. \A i \in 1 .. n : cut[i - 1] <= cut[i]
  BY <1>8, TotalLayersAssumption
<1> QED BY <1>6, <1>7, <1>9, <1>10

------------------------------------------------------------------------
(* The plan.                                                               *)

\* A later cut is never below an earlier one.
LEMMA CutsMonotonic ==
  ASSUME NEW n \in Nat, NEW cut \in [0 .. n -> Nat],
         \A i \in 1 .. n : cut[i - 1] <= cut[i],
         NEW i \in 0 .. n, NEW j \in 0 .. n, i <= j
  PROVE  cut[i] <= cut[j]
<1> DEFINE Falls == {k \in i .. n : ~ (cut[i] <= cut[k])}
<1>1. ASSUME Falls # {} PROVE FALSE
  <2>1. PICK k \in Falls : \A m \in Falls : k <= m
    <3>1. Falls \in SUBSET Nat
      OBVIOUS
    <3> HIDE DEF Falls
    <3> QED BY <3>1, <1>1, LeastElement
  <2>2. k # i /\ k \in i .. n
    OBVIOUS
  <2>3. k - 1 \in i .. n /\ ~ (k <= k - 1) /\ k \in 1 .. n /\ k - 1 \in 0 .. n
    BY <2>2
  <2>4. cut[i] <= cut[k - 1]
    BY <2>1, <2>3
  <2>5. cut[k - 1] <= cut[k] /\ cut[k] \in Nat /\ cut[k - 1] \in Nat /\ cut[i] \in Nat
    BY <2>3
  <2> QED BY <2>4, <2>5
<1>2. j \in i .. n
  OBVIOUS
<1> QED BY <1>1, <1>2

\* The node at position i of the order gets the layers between two cuts.
LEMMA PlanSlices ==
  ASSUME NEW S \in SUBSET Nat, IsFiniteSet(S),
         NEW composite, \A n \in S : composite[n] \in Nat
  PROVE  LET order == SortedByCapacity(S, composite)
             cut   == Cuts(order, composite)
         IN  /\ DOMAIN order = 1 .. Cardinality(S)
             /\ \A i \in DOMAIN order :
                  /\ order[i] \in S
                  /\ Plan(S, composite)[order[i]] = cut[i - 1] .. (cut[i] - 1)
<1> DEFINE order == SortedByCapacity(S, composite)
           cut   == Cuts(order, composite)
<1>1. /\ order \in [1 .. Cardinality(S) -> S]
      /\ IsSorted(S, composite, order)
  BY SortedByCapacityIsSorted
<1>2. Plan(S, composite) =
        [ n \in S |-> LET i == CHOOSE i \in DOMAIN order : order[i] = n
                      IN  cut[i - 1] .. (cut[i] - 1) ]
  BY DEF Plan
<1>3. Cardinality(S) \in Nat
  BY FS_CardinalityType
<1> HIDE DEF order, cut
<1>4. ASSUME NEW i \in DOMAIN order
      PROVE  /\ order[i] \in S
             /\ Plan(S, composite)[order[i]] = cut[i - 1] .. (cut[i] - 1)
  <2>1. order[i] \in S /\ i \in 1 .. Cardinality(S)
    BY <1>1
  <2>2. (CHOOSE j \in DOMAIN order : order[j] = order[i]) = i
    <3>1. ASSUME NEW j \in DOMAIN order, order[j] = order[i] PROVE j = i
      <4>1. ~ Before(composite, order[i], order[j]) /\ ~ Before(composite, order[j], order[i])
        BY <2>1, <3>1, BeforeIsOrder
      <4>2. ~ (i < j) /\ ~ (j < i)
        BY <4>1, <1>1 DEF IsSorted
      <4>3. j \in Nat /\ i \in Nat
        BY <1>1, <2>1
      <4> QED BY <4>2, <4>3
    <3> QED BY <3>1
  <2> QED BY <2>1, <2>2, <1>2
<1> QED BY <1>1, <1>4 DEF order, cut

\* Every node of the plan gets layers of the model, and of two nodes the one
\* that precedes in the order gets the lower layers.
LEMMA PlanInOrder ==
  ASSUME NEW S \in SUBSET Nat, IsFiniteSet(S),
         NEW composite, \A n \in S : composite[n] \in Nat
  PROVE  /\ Plan(S, composite) \in [S -> SUBSET Layers]
         /\ \A a, b \in S : Before(composite, a, b) =>
              \A k \in Plan(S, composite)[a], l \in Plan(S, composite)[b] : k < l
<1> DEFINE order == SortedByCapacity(S, composite)
           cut   == Cuts(order, composite)
           n     == Cardinality(S)
<1>1. order \in [1 .. n -> S] /\ IsSorted(S, composite, order)
  BY SortedByCapacityIsSorted
<1>2. n \in Nat
  BY FS_CardinalityType
<1>3. \A i \in 1 .. n : Plan(S, composite)[order[i]] = cut[i - 1] .. (cut[i] - 1)
  BY PlanSlices, ZenonT(30)
<1>4. /\ cut \in [0 .. n -> 0 .. TotalLayers]
      /\ \A i \in 1 .. n : cut[i - 1] <= cut[i]
  <2> HIDE DEF order, n
  <2> QED BY <1>1, <1>2, CutsClimb
<1> HIDE DEF cut, n
<1>5. \A m \in S : \E i \in 1 .. n : order[i] = m
  BY <1>1 DEF IsSorted
<1>6. \A m \in S : Plan(S, composite)[m] \in SUBSET Layers
  <2> SUFFICES ASSUME NEW m \in S PROVE Plan(S, composite)[m] \in SUBSET Layers
    OBVIOUS
  <2>1. PICK i \in 1 .. n : order[i] = m
    BY <1>5
  <2>2. i - 1 \in 0 .. n /\ i \in 0 .. n
    BY <1>2
  <2>3. cut[i - 1] \in 0 .. TotalLayers /\ cut[i] \in 0 .. TotalLayers
    BY <2>2, <1>4
  <2>4. Plan(S, composite)[m] = cut[i - 1] .. (cut[i] - 1)
    BY <2>1, <1>3
  <2> QED BY <2>3, <2>4, TotalLayersAssumption DEF Layers
<1>7. ASSUME NEW a \in S, NEW b \in S, Before(composite, a, b),
             NEW k \in Plan(S, composite)[a], NEW l \in Plan(S, composite)[b]
      PROVE  k < l
  <2>1. PICK i \in 1 .. n : order[i] = a
    BY <1>5
  <2>2. PICK j \in 1 .. n : order[j] = b
    BY <1>5
  <2>3. i < j
    <3>1. ~ Before(composite, b, a) /\ a # b
      BY <1>7, BeforeIsOrder
    <3>2. ~ (j < i) /\ i # j
      BY <3>1, <2>1, <2>2, <1>1 DEF IsSorted
    <3> QED BY <3>2, <1>2
  <2>4. i \in 0 .. n /\ j - 1 \in 0 .. n /\ i <= j - 1 /\ i - 1 \in 0 .. n /\ j \in 0 .. n
    BY <2>3, <1>2
  <2>5. cut \in [0 .. n -> Nat]
    BY <1>4, TotalLayersAssumption
  <2>6. cut[i] <= cut[j - 1]
    BY <2>4, <2>5, <1>2, <1>4, CutsMonotonic
  <2>7. k \in cut[i - 1] .. (cut[i] - 1) /\ l \in cut[j - 1] .. (cut[j] - 1)
    BY <2>1, <2>2, <1>3
  <2>8. /\ cut[i] \in Nat /\ cut[i - 1] \in Nat
        /\ cut[j] \in Nat /\ cut[j - 1] \in Nat
    BY <2>4, <2>5
  <2> QED BY <2>6, <2>7, <2>8
<1>8. Plan(S, composite) \in [S -> SUBSET Layers]
  <2>1. Plan(S, composite) = [m \in S |-> Plan(S, composite)[m]]
    BY DEF Plan
  <2> QED BY <2>1, <1>6
<1> QED BY <1>7, <1>8

\* When somebody is active, the plan, read in sorted order, is a route: it
\* gives out every layer of the model, once, in order, whatever the number of
\* nodes, their capacities and the rounding of their shares.
THEOREM PlanTiles ==
  ASSUME NEW S \in SUBSET Nat, IsFiniteSet(S), S # {},
         NEW composite, \A n \in S : composite[n] \in Nat
  PROVE  Tiles(SortedByCapacity(S, composite), Plan(S, composite))
<1> DEFINE order == SortedByCapacity(S, composite)
           cut   == Cuts(order, composite)
           n     == Cardinality(S)
<1>1. order \in [1 .. n -> S] /\ IsSorted(S, composite, order)
  BY SortedByCapacityIsSorted
<1>2. n \in Nat /\ n # 0
  BY FS_CardinalityType, FS_EmptySet
<1>3. \A i \in 1 .. n : Plan(S, composite)[order[i]] = cut[i - 1] .. (cut[i] - 1)
  BY PlanSlices, ZenonT(30)
<1>4. /\ cut \in [0 .. n -> 0 .. TotalLayers]
      /\ cut[0] = 0
      /\ cut[n] = TotalLayers
  <2>1. order \in [1 .. n -> S]
    BY <1>1
  <2>4. n \in Nat
    BY <1>2
  <2> HIDE DEF order, n
  <2>2. /\ Cuts(order, composite) \in [0 .. n -> 0 .. TotalLayers]
        /\ Cuts(order, composite)[0] = 0
        /\ n # 0 => Cuts(order, composite)[n] = TotalLayers
        /\ \A i \in 1 .. n :
             Cuts(order, composite)[i - 1] <= Cuts(order, composite)[i]
    BY <2>1, <2>4, CutsClimb, Zenon
  <2> HIDE DEF cut
  <2>3. cut = Cuts(order, composite)
    BY DEF cut
  <2> QED BY <2>2, <2>3, <1>2
<1>5. InOrder(order, Plan(S, composite))
  <2> SUFFICES ASSUME NEW i \in DOMAIN order, NEW j \in DOMAIN order, i < j
               PROVE  \A k \in Plan(S, composite)[order[i]],
                         l \in Plan(S, composite)[order[j]] : k < l
    BY DEF InOrder
  <2>1. Before(composite, order[i], order[j]) /\ order[i] \in S /\ order[j] \in S
    BY <1>1 DEF IsSorted
  <2> HIDE DEF order
  <2> QED BY <2>1, PlanInOrder
<1>6. Complete(order, Plan(S, composite))
  <2> HIDE DEF cut, n
  <2> SUFFICES ASSUME NEW l \in Layers
               PROVE  \E i \in DOMAIN order : l \in Plan(S, composite)[order[i]]
    BY DEF Complete
  <2> HIDE DEF order
  <2>1. l \in Nat /\ l < TotalLayers
    BY TotalLayersAssumption DEF Layers
  <2> DEFINE Past == {i \in 1 .. n : l < cut[i]}
  <2>2. PICK i \in Past : \A m \in Past : i <= m
    <3>1. Past \in SUBSET Nat
      OBVIOUS
    <3>2. n \in Past
      BY <2>1, <1>2, <1>4
    <3> HIDE DEF Past
    <3> QED BY <3>1, <3>2, LeastElement
  <2>3. i \in 1 .. n /\ l < cut[i] /\ i - 1 \in 0 .. n /\ ~ (i <= i - 1)
    BY <1>2
  <2>4. cut[i - 1] <= l
    <3>1. CASE i - 1 = 0
      BY <3>1, <1>4, <2>1
    <3>2. CASE i - 1 # 0
      <4>1. i - 1 \in 1 .. n
        BY <3>2, <2>3
      <4>2. ~ (l < cut[i - 1])
        BY <4>1, <2>2, <2>3
      <4>3. cut[i - 1] \in Nat
        BY <2>3, <1>4, TotalLayersAssumption
      <4> QED BY <4>2, <4>3, <2>1
    <3> QED BY <3>1, <3>2
  <2>5. cut[i - 1] \in Nat /\ cut[i] \in Nat
    BY <2>3, <1>4, TotalLayersAssumption
  <2>6. l \in cut[i - 1] .. (cut[i] - 1)
    BY <2>1, <2>3, <2>4, <2>5
  <2> QED BY <2>3, <2>6, <1>1, <1>3
<1> QED BY <1>5, <1>6 DEF Tiles

------------------------------------------------------------------------
(* Induction over explicit sets.                                           *)

\* A set of positions that has 0, and each position whose predecessor it has,
\* has them all.
LEMMA PositionInduction ==
  ASSUME NEW n \in Nat, NEW P, 0 \in P, \A i \in 1 .. n : i - 1 \in P => i \in P
  PROVE  0 .. n \subseteq P
<1> DEFINE Missed == {i \in 0 .. n : i \notin P}
<1>1. ASSUME Missed # {} PROVE FALSE
  <2>1. PICK i \in Missed : \A j \in Missed : i <= j
    <3>1. Missed \in SUBSET Nat
      OBVIOUS
    <3> HIDE DEF Missed
    <3> QED BY <3>1, <1>1, LeastElement
  <2>2. i \in 1 .. n /\ i - 1 \in 0 .. n /\ ~ (i <= i - 1)
    OBVIOUS
  <2>3. i - 1 \in P
    BY <2>1, <2>2
  <2> QED BY <2>2, <2>3
<1> QED BY <1>1

\* A collection of subsets of a finite set that has every subset each of whose
\* parts with one element less it has, has them all.
LEMMA SubsetInduction ==
  ASSUME NEW S, IsFiniteSet(S), NEW P,
         \A T \in SUBSET S : (\A x \in T : T \ {x} \in P) => T \in P
  PROVE  \A T \in SUBSET S : T \in P
<1> DEFINE Missed == {T \in SUBSET S : T \notin P}
<1>1. ASSUME Missed # {} PROVE FALSE
  <2>1. PICK T \in Missed : \A U \in Missed : <<U, T>> \notin StrictSubsetOrdering(S)
    <3>1. Missed \subseteq FiniteSubsetsOf(S)
      BY FS_Subset DEF FiniteSubsetsOf
    <3>2. \E X \in Missed : \A U \in Missed : ~ (<<U, X>> \in StrictSubsetOrdering(S))
      <4> HIDE DEF Missed
      <4> QED BY <3>1, <1>1, FS_StrictSubsetOrderingWellFounded, WFMin
    <3> HIDE DEF Missed
    <3> QED BY <3>2
  <2>2. ASSUME NEW x \in T PROVE T \ {x} \in P
    <3>1. <<T \ {x}, T>> \in StrictSubsetOrdering(S)
      BY DEF StrictSubsetOrdering
    <3> QED BY <3>1, <2>1
  <2> QED BY <2>2
<1> QED BY <1>1

------------------------------------------------------------------------
(* Sums.                                                                   *)

\* The recursion by which the community modules add up f over the subsets of T.
Picked(s) == CHOOSE x \in s : TRUE

SumTable(T, f) ==
  LET iter[s \in SUBSET T] == IF s = {} THEN 0 ELSE f[Picked(s)] + iter[s \ {Picked(s)}]
  IN  iter

IsSumTable(T, f, t) ==
  /\ t \in [SUBSET T -> Int]
  /\ \A s \in SUBSET T : t[s] = IF s = {} THEN 0 ELSE f[Picked(s)] + t[s \ {Picked(s)}]

\* The operator of the community modules reads its sum from that table.
LEMMA SumOverIsTable ==
  ASSUME NEW T, NEW f
  PROVE  SumOver(T, f) = SumTable(T, f)[T]
BY DEF SumOver, MapThenSumSet, MapThenFoldSet, SumTable, Picked

\* The recursion is over finite sets: it has a solution, which TLA+ chooses.
LEMMA SumTableStep ==
  ASSUME NEW T, IsFiniteSet(T), NEW f, \A m \in T : f[m] \in Nat
  PROVE  IsSumTable(T, f, SumTable(T, f))
<1> DEFINE Value(g, s) == IF s = {} THEN 0 ELSE f[Picked(s)] + g[s \ {Picked(s)}]
           Good(k, g) == /\ g \in [SUBSET T -> Int]
                         /\ \A s \in SUBSET T : Cardinality(s) <= k => g[s] = Value(g, s)
           n == Cardinality(T)
           P == {k \in 0 .. n : \E g : Good(k, g)}
<1>1. \A s \in SUBSET T : /\ IsFiniteSet(s) /\ Cardinality(s) \in Nat
                          /\ Cardinality(s) <= n
                          /\ s # {} => /\ Picked(s) \in s /\ f[Picked(s)] \in Int
                                       /\ s \ {Picked(s)} \in SUBSET T
                                       /\ Cardinality(s \ {Picked(s)}) = Cardinality(s) - 1
  <2> SUFFICES ASSUME NEW s \in SUBSET T
               PROVE  /\ IsFiniteSet(s) /\ Cardinality(s) \in Nat
                      /\ Cardinality(s) <= n
                      /\ s # {} => /\ Picked(s) \in s /\ f[Picked(s)] \in Int
                                   /\ s \ {Picked(s)} \in SUBSET T
                                   /\ Cardinality(s \ {Picked(s)}) = Cardinality(s) - 1
    OBVIOUS
  <2>1. IsFiniteSet(s) /\ Cardinality(s) \in Nat /\ Cardinality(s) <= n
    BY FS_Subset, FS_CardinalityType
  <2>2. s # {} => Picked(s) \in s
    BY DEF Picked
  <2>3. s # {} => f[Picked(s)] \in Int
    BY <2>2
  <2>4. s # {} => Cardinality(s \ {Picked(s)}) = Cardinality(s) - 1
    BY <2>1, <2>2, FS_RemoveElement
  <2> QED BY <2>1, <2>2, <2>3, <2>4
<1>2. n \in Nat
  BY FS_CardinalityType
<1>3. 0 \in P
  <2> DEFINE g == [s \in SUBSET T |-> 0]
  <2>1. ASSUME NEW s \in SUBSET T, Cardinality(s) <= 0 PROVE s = {}
    <3>1. Cardinality(s) \in Nat /\ IsFiniteSet(s)
      <4> HIDE DEF Value
      <4> QED BY <1>1
    <3>2. Cardinality(s) = 0
      BY <3>1, <2>1
    <3> QED BY <3>1, <3>2, FS_EmptySet
  <2>2. \A s \in SUBSET T : Cardinality(s) <= 0 => g[s] = Value(g, s)
    BY <2>1
  <2>3. Good(0, g)
    <3>1. g \in [SUBSET T -> Int]
      OBVIOUS
    <3> HIDE DEF Value, g
    <3> QED BY <2>2, <3>1, Zenon
  <2> HIDE DEF Good
  <2> QED BY <2>3, <1>2
<1>4. ASSUME NEW k \in 1 .. n, k - 1 \in P PROVE k \in P
  <2>1. PICK g : Good(k - 1, g)
    <3> HIDE DEF Good
    <3> QED BY <1>4
  <2> DEFINE h == [s \in SUBSET T |-> IF Cardinality(s) = k THEN Value(g, s) ELSE g[s]]
  <2>2. \A s \in SUBSET T : Value(g, s) \in Int
    <3> SUFFICES ASSUME NEW s \in SUBSET T, s # {} PROVE f[Picked(s)] + g[s \ {Picked(s)}] \in Int
      OBVIOUS
    <3>1. f[Picked(s)] \in Int /\ g[s \ {Picked(s)}] \in Int
      BY <1>1, <2>1
    <3> QED BY <3>1
  <2>3. h \in [SUBSET T -> Int]
    <3> HIDE DEF Value
    <3> QED BY <2>1, <2>2
  <2>4. ASSUME NEW s \in SUBSET T, Cardinality(s) <= k PROVE h[s] = Value(g, s)
    <3>1. CASE Cardinality(s) = k
      <4> HIDE DEF Value
      <4> QED BY <3>1
    <3>2. CASE Cardinality(s) # k
      <4> HIDE DEF Value
      <4>1. Cardinality(s) \in Nat /\ k \in Nat
        <5>1. k \in Nat
          OBVIOUS
        <5> HIDE DEF n, P
        <5> QED BY <5>1, <1>1
      <4>2. Cardinality(s) <= k - 1
        BY <4>1, <3>2, <2>4
      <4> QED BY <4>2, <3>2, <2>1
    <3> QED BY <3>1, <3>2
  <2>5. ASSUME NEW s \in SUBSET T, Cardinality(s) <= k PROVE Value(g, s) = Value(h, s)
    <3>1. s # {} => h[s \ {Picked(s)}] = g[s \ {Picked(s)}]
      <4> SUFFICES ASSUME s # {} PROVE h[s \ {Picked(s)}] = g[s \ {Picked(s)}]
        OBVIOUS
      <4>1. s \ {Picked(s)} \in SUBSET T /\ Cardinality(s \ {Picked(s)}) # k
        BY <1>1, <2>5
      <4> HIDE DEF Value
      <4> QED BY <4>1
    <3> HIDE DEF h
    <3> QED BY <3>1
  <2>6. Good(k, h)
    <3> HIDE DEF h, Value
    <3> QED BY <2>3, <2>4, <2>5
  <2> HIDE DEF Good
  <2> QED BY <2>6
<1>5. n \in P
  <2> HIDE DEF P
  <2>1. 0 .. n \subseteq P
    BY <1>2, <1>3, <1>4, PositionInduction
  <2> QED BY <2>1, <1>2
<1>6. PICK g : Good(n, g)
  <2> HIDE DEF Good
  <2> QED BY <1>5
<1>7. g = [s \in SUBSET T |-> Value(g, s)]
  <2>1. \A s \in SUBSET T : g[s] = Value(g, s)
    <3> HIDE DEF Value
    <3> QED BY <1>1, <1>6
  <2> HIDE DEF Value
  <2> QED BY <1>6, <2>1
<1> DEFINE t == SumTable(T, f)
<1>8. t = CHOOSE a : a = [s \in SUBSET T |-> Value(a, s)]
  BY DEF SumTable
<1>9. t = [s \in SUBSET T |-> Value(t, s)]
  <2> HIDE DEF t, Value
  <2> QED BY <1>7, <1>8
<1>10. \A s \in SUBSET T : t[s] = Value(t, s)
  <2> HIDE DEF t, Value
  <2> QED BY <1>9
<1> DEFINE Q == {s \in SUBSET T : t[s] \in Int}
<1>11. ASSUME NEW s \in SUBSET T, \A x \in s : s \ {x} \in Q PROVE s \in Q
  <2>1. t[s] = IF s = {} THEN 0 ELSE f[Picked(s)] + t[s \ {Picked(s)}]
    BY <1>10
  <2>2. s # {} => f[Picked(s)] \in Int /\ t[s \ {Picked(s)}] \in Int
    BY <1>1, <1>11
  <2> HIDE DEF t
  <2> QED BY <2>1, <2>2
<1>12. \A s \in SUBSET T : s \in Q
  <2> HIDE DEF Q
  <2> QED BY <1>11, SubsetInduction
<1>13. t \in [SUBSET T -> Int]
  <2> HIDE DEF t, Value
  <2> QED BY <1>9, <1>12
<1> QED BY <1>10, <1>13 DEF IsSumTable

\* The tables of T and of a part U of T agree on the subsets of U.
LEMMA SumTablesAgree ==
  ASSUME NEW T, IsFiniteSet(T), NEW f, \A m \in T : f[m] \in Nat, NEW U \in SUBSET T
  PROVE  \A s \in SUBSET U : SumTable(T, f)[s] = SumTable(U, f)[s]
<1> DEFINE a == SumTable(T, f)
           b == SumTable(U, f)
           P == {s \in SUBSET U : a[s] = b[s]}
<1>1. IsFiniteSet(U)
  BY FS_Subset
<1>2. \A s \in SUBSET U : /\ a[s] = IF s = {} THEN 0 ELSE f[Picked(s)] + a[s \ {Picked(s)}]
                          /\ b[s] = IF s = {} THEN 0 ELSE f[Picked(s)] + b[s \ {Picked(s)}]
  <2>1. \A m \in U : f[m] \in Nat
    OBVIOUS
  <2>2. IsSumTable(T, f, a) /\ IsSumTable(U, f, b)
    BY <1>1, <2>1, SumTableStep
  <2> HIDE DEF a, b
  <2> QED BY <2>2 DEF IsSumTable
<1> HIDE DEF a, b
<1>3. ASSUME NEW s \in SUBSET U, \A x \in s : s \ {x} \in P PROVE s \in P
  <2>1. s # {} => Picked(s) \in s
    BY DEF Picked
  <2>2. s # {} => a[s \ {Picked(s)}] = b[s \ {Picked(s)}]
    BY <2>1, <1>3
  <2> QED BY <2>2, <1>2
<1>4. \A s \in SUBSET U : s \in P
  <2> HIDE DEF P
  <2> QED BY <1>1, <1>3, SubsetInduction
<1> QED BY <1>4 DEF a, b

\* A sum adds the element the recursion picks to the sum of the others.
LEMMA SumOverPick ==
  ASSUME NEW T, IsFiniteSet(T), NEW f, \A m \in T : f[m] \in Nat
  PROVE  /\ SumOver(T, f) \in Int
         /\ T = {} => SumOver(T, f) = 0
         /\ T # {} => /\ Picked(T) \in T
                      /\ SumOver(T, f) = f[Picked(T)] + SumOver(T \ {Picked(T)}, f)
<1>1. IsSumTable(T, f, SumTable(T, f))
  BY SumTableStep
<1>2. SumOver(T, f) = SumTable(T, f)[T]
  BY SumOverIsTable
<1>3. T # {} => Picked(T) \in T
  BY DEF Picked
<1>4. T # {} => SumTable(T, f)[T \ {Picked(T)}] = SumOver(T \ {Picked(T)}, f)
  <2>1. T \ {Picked(T)} \in SUBSET T /\ T \ {Picked(T)} \in SUBSET (T \ {Picked(T)})
    OBVIOUS
  <2>2. SumTable(T, f)[T \ {Picked(T)}] = SumTable(T \ {Picked(T)}, f)[T \ {Picked(T)}]
    BY <2>1, SumTablesAgree
  <2> QED BY <2>2, SumOverIsTable
<1>5. T \in SUBSET T
  OBVIOUS
<1> QED BY <1>1, <1>2, <1>3, <1>4, <1>5 DEF IsSumTable

\* The order of summation does not matter: a sum over a finite set is any one
\* of its elements plus the sum of the others.
LEMMA SumOverRemove ==
  ASSUME NEW S, IsFiniteSet(S), NEW f, \A m \in S : f[m] \in Nat
  PROVE  \A T \in SUBSET S : /\ SumOver(T, f) \in Nat
                             /\ T = {} => SumOver(T, f) = 0
                             /\ \A y \in T : SumOver(T, f) = f[y] + SumOver(T \ {y}, f)
<1> DEFINE Fine(T) == /\ SumOver(T, f) \in Nat
                      /\ \A y \in T : SumOver(T, f) = f[y] + SumOver(T \ {y}, f)
           P == {T \in SUBSET S : Fine(T)}
<1>1. \A T \in SUBSET S : /\ SumOver(T, f) \in Int
                          /\ T = {} => SumOver(T, f) = 0
                          /\ T # {} => /\ Picked(T) \in T
                                       /\ SumOver(T, f)
                                            = f[Picked(T)] + SumOver(T \ {Picked(T)}, f)
  <2> SUFFICES ASSUME NEW T \in SUBSET S
               PROVE  /\ SumOver(T, f) \in Int
                      /\ T = {} => SumOver(T, f) = 0
                      /\ T # {} => /\ Picked(T) \in T
                                   /\ SumOver(T, f)
                                        = f[Picked(T)] + SumOver(T \ {Picked(T)}, f)
    OBVIOUS
  <2>1. IsFiniteSet(T) /\ \A m \in T : f[m] \in Nat
    BY FS_Subset
  <2> QED BY <2>1, SumOverPick
<1>2. ASSUME NEW T \in SUBSET S, \A x \in T : T \ {x} \in P PROVE T \in P
  <2>1. CASE T = {}
    <3>1. SumOver(T, f) = 0
      BY <1>1, <2>1
    <3> QED BY <3>1, <2>1
  <2>2. CASE T # {}
    <3> DEFINE x == Picked(T)
    <3>1. x \in T /\ SumOver(T, f) = f[x] + SumOver(T \ {x}, f)
      BY <1>1, <2>2
    <3> HIDE DEF x
    <3>2. SumOver(T \ {x}, f) \in Nat /\ f[x] \in Nat
      BY <1>2, <3>1
    <3>3. ASSUME NEW y \in T PROVE SumOver(T, f) = f[y] + SumOver(T \ {y}, f)
      <4>1. CASE y = x
        BY <4>1, <3>1
      <4>2. CASE y # x
        <5>1. y \in T \ {x} /\ x \in T \ {y}
          BY <4>2, <3>1
        <5>2. SumOver(T \ {x}, f) = f[y] + SumOver((T \ {x}) \ {y}, f)
          BY <5>1, <3>1, <1>2
        <5>3. SumOver(T \ {y}, f) = f[x] + SumOver((T \ {y}) \ {x}, f)
          BY <5>1, <1>2
        <5>4. (T \ {x}) \ {y} = (T \ {y}) \ {x}
          OBVIOUS
        <5>5. SumOver((T \ {x}) \ {y}, f) \in Int /\ f[x] \in Nat /\ f[y] \in Nat
          <6>1. (T \ {x}) \ {y} \in SUBSET S
            OBVIOUS
          <6> HIDE DEF P
          <6> QED BY <6>1, <1>1, <3>1
        <5> DEFINE rest == SumOver((T \ {x}) \ {y}, f)
        <5>6. /\ SumOver(T, f) = f[x] + (f[y] + rest)
              /\ SumOver(T \ {y}, f) = f[x] + rest
          <6> HIDE DEF P, Fine
          <6> QED BY <5>2, <5>3, <5>4, <3>1
        <5>7. rest \in Int /\ f[x] \in Int /\ f[y] \in Int
          BY <5>5
        <5> HIDE DEF rest, P, Fine
        <5> QED BY <5>6, <5>7
      <4> QED BY <4>1, <4>2
    <3> QED BY <3>1, <3>2, <3>3
  <2> QED BY <2>1, <2>2
<1>3. \A T \in SUBSET S : T \in P
  <2> HIDE DEF P
  <2> QED BY <1>2, SubsetInduction
<1> QED BY <1>1, <1>3

------------------------------------------------------------------------
(* Sums along the order.                                                   *)

\* The nodes at the first i positions.
Firsts(order, i) == {order[j] : j \in 1 .. i}

\* The first positions of order grow from none of S to all of it; the nodes
\* ahead of the one at position i are those at the positions before.
ListsAhead(S, composite, n, order) ==
  /\ Firsts(order, 0) = {}
  /\ Firsts(order, n) = S
  /\ \A i \in 1 .. n : /\ order[i] \notin Firsts(order, i - 1)
                       /\ Ahead(S, composite, order[i]) = Firsts(order, i - 1)

\* So it is in a sorted list.
LEMMA AheadAreFirsts ==
  ASSUME NEW S \in SUBSET Nat, NEW composite, \A m \in S : composite[m] \in Nat,
         NEW n \in Nat, NEW order \in [1 .. n -> S], IsSorted(S, composite, order)
  PROVE  ListsAhead(S, composite, n, order)
<1>1. /\ \A m \in S : \E i \in 1 .. n : order[i] = m
      /\ \A i, j \in 1 .. n : i < j => Before(composite, order[i], order[j])
  BY DEF IsSorted
<1>2. Firsts(order, 0) = {} /\ Firsts(order, n) = S
  <2>1. 1 .. 0 = {}
    OBVIOUS
  <2> QED BY <2>1, <1>1 DEF Firsts
<1>4. ASSUME NEW i \in 1 .. n
      PROVE  Ahead(S, composite, order[i]) = Firsts(order, i - 1)
  <2>1. ASSUME NEW m \in Firsts(order, i - 1) PROVE m \in Ahead(S, composite, order[i])
    <3>1. PICK j \in 1 .. i - 1 : m = order[j]
      BY DEF Firsts
    <3>2. j \in 1 .. n /\ j < i
      OBVIOUS
    <3> QED BY <3>1, <3>2, <1>1 DEF Ahead
  <2>2. ASSUME NEW m \in Ahead(S, composite, order[i]) PROVE m \in Firsts(order, i - 1)
    <3>1. m \in S /\ Before(composite, m, order[i])
      BY DEF Ahead
    <3>2. PICK j \in 1 .. n : order[j] = m
      BY <1>1, <3>1
    <3>3. ~ Before(composite, order[i], order[j]) /\ order[i] # order[j]
      BY <3>1, <3>2, BeforeIsOrder
    <3>4. ~ (i < j) /\ i # j
      BY <1>1, <3>3
    <3>5. j \in 1 .. i - 1
      BY <3>4
    <3> QED BY <3>2, <3>5 DEF Firsts
  <2> QED BY <2>1, <2>2
<1>5. ASSUME NEW i \in 1 .. n
      PROVE  order[i] \notin Firsts(order, i - 1)
  <2>1. ~ Before(composite, order[i], order[i]) /\ order[i] \in S
    BY BeforeIsOrder
  <2> QED BY <2>1, <1>4 DEF Ahead
<1> QED BY <1>2, <1>4, <1>5 DEF ListsAhead

\* Position i adds the node there to those before.
LEMMA FirstsStep ==
  ASSUME NEW n \in Nat, NEW order, NEW i \in 1 .. n,
         order[i] \notin Firsts(order, i - 1)
  PROVE  /\ order[i] \in Firsts(order, i)
         /\ Firsts(order, i) \ {order[i]} = Firsts(order, i - 1)
<1>1. 1 .. i = (1 .. i - 1) \cup {i}
  OBVIOUS
<1> QED BY <1>1 DEF Firsts

\* The sum over the first i nodes is a loop over the positions.
LEMMA SumAlongOrder ==
  ASSUME NEW S \in SUBSET Nat, IsFiniteSet(S),
         NEW composite, \A m \in S : composite[m] \in Nat,
         NEW n \in Nat, NEW order \in [1 .. n -> S], IsSorted(S, composite, order),
         NEW f, \A m \in S : f[m] \in Nat
  PROVE  /\ \A i \in 0 .. n : SumOver(Firsts(order, i), f) \in Nat
         /\ SumOver(Firsts(order, 0), f) = 0
         /\ \A i \in 1 .. n : SumOver(Firsts(order, i), f)
                                = SumOver(Firsts(order, i - 1), f) + f[order[i]]
<1>1. \A i \in 0 .. n : Firsts(order, i) \in SUBSET S
  BY DEF Firsts
<1>2. \A T \in SUBSET S : /\ SumOver(T, f) \in Nat
                          /\ T = {} => SumOver(T, f) = 0
                          /\ \A y \in T : SumOver(T, f) = f[y] + SumOver(T \ {y}, f)
  BY SumOverRemove
<1>3. ListsAhead(S, composite, n, order)
  BY AheadAreFirsts
<1>4. ASSUME NEW i \in 1 .. n
      PROVE  SumOver(Firsts(order, i), f) = SumOver(Firsts(order, i - 1), f) + f[order[i]]
  <2>1. i - 1 \in 0 .. n /\ i \in 0 .. n /\ order[i] \in S
    OBVIOUS
  <2>2. /\ order[i] \in Firsts(order, i)
        /\ Firsts(order, i) \ {order[i]} = Firsts(order, i - 1)
    <3>1. order[i] \notin Firsts(order, i - 1)
      BY <1>3 DEF ListsAhead
    <3> QED BY <3>1, FirstsStep, Zenon
  <2>3. SumOver(Firsts(order, i), f) = f[order[i]] + SumOver(Firsts(order, i - 1), f)
    BY <2>1, <2>2, <1>1, <1>2
  <2>4. f[order[i]] \in Nat /\ SumOver(Firsts(order, i - 1), f) \in Nat
    BY <2>1, <1>1, <1>2
  <2> QED BY <2>3, <2>4
<1>5. 0 \in 0 .. n
  OBVIOUS
<1> QED BY <1>1, <1>2, <1>3, <1>4, <1>5 DEF ListsAhead

\* The nodes at the first i positions are i nodes.
LEMMA FirstsCount ==
  ASSUME NEW S \in SUBSET Nat, IsFiniteSet(S),
         NEW composite, \A m \in S : composite[m] \in Nat,
         NEW n \in Nat, NEW order \in [1 .. n -> S], IsSorted(S, composite, order)
  PROVE  \A i \in 0 .. n : Cardinality(Firsts(order, i)) = i
<1> DEFINE P == {i \in 0 .. n : Cardinality(Firsts(order, i)) = i}
<1>1. ListsAhead(S, composite, n, order)
  BY AheadAreFirsts
<1>2. 0 \in P
  <2>1. Cardinality({}) = 0 /\ 0 \in 0 .. n
    BY FS_EmptySet
  <2> QED BY <2>1, <1>1 DEF ListsAhead
<1>3. ASSUME NEW i \in 1 .. n, i - 1 \in P PROVE i \in P
  <2>1. IsFiniteSet(Firsts(order, i))
    <3>1. Firsts(order, i) \in SUBSET S
      BY DEF Firsts
    <3> QED BY <3>1, FS_Subset
  <2>2. /\ order[i] \in Firsts(order, i)
        /\ Firsts(order, i) \ {order[i]} = Firsts(order, i - 1)
    <3>1. order[i] \notin Firsts(order, i - 1)
      BY <1>1 DEF ListsAhead
    <3> QED BY <3>1, FirstsStep, Zenon
  <2>3. Cardinality(Firsts(order, i - 1)) = Cardinality(Firsts(order, i)) - 1
    BY <2>1, <2>2, FS_RemoveElement
  <2>4. Cardinality(Firsts(order, i)) \in Nat
    BY <2>1, FS_CardinalityType
  <2> QED BY <2>3, <2>4, <1>3
<1>4. 0 .. n \subseteq P
  <2> HIDE DEF P
  <2> QED BY <1>2, <1>3, PositionInduction
<1> QED BY <1>4

\* total_composite, which the code adds up in sorted order, is the sum over
\* the nodes.
LEMMA TotalIsSum ==
  ASSUME NEW S \in SUBSET Nat, IsFiniteSet(S),
         NEW composite, \A m \in S : composite[m] \in Nat,
         NEW n \in Nat, NEW order \in [1 .. n -> S], IsSorted(S, composite, order)
  PROVE  TotalComposite(order, composite) = SumOver(S, composite)
<1> DEFINE add == [i \in 1 .. n |-> [x \in Nat |-> x + composite[order[i]]]]
           acc == Accumulate(n, 0, add)
           P   == {i \in 0 .. n : acc[i] = SumOver(Firsts(order, i), composite)}
<1>1. Len(order) = n
  OBVIOUS
<1>2. TotalComposite(order, composite) = acc[n]
  BY <1>1 DEF TotalComposite
<1>3. \A i \in 1 .. n, x \in Nat : add[i][x] = x + composite[order[i]]
  OBVIOUS
<1>4. add \in [1 .. n -> [Nat -> Nat]] /\ 0 \in Nat
  <2>1. \A i \in 1 .. n : composite[order[i]] \in Nat
    OBVIOUS
  <2> QED BY <2>1
<1>5. /\ acc \in [0 .. n -> Nat]
      /\ acc[0] = 0
      /\ \A i \in 1 .. n : acc[i] = add[i][acc[i - 1]]
  <2> DEFINE D == Nat
  <2>1. add \in [1 .. n -> [D -> D]] /\ 0 \in D
    BY <1>4
  <2> HIDE DEF add, D
  <2>2. /\ acc \in [0 .. n -> D]
        /\ acc[0] = 0
        /\ \A i \in 1 .. n : acc[i] = add[i][acc[i - 1]]
    BY <2>1, AccumulateLoop
  <2> QED BY <2>2 DEF D
<1> HIDE DEF add, acc
<1>6. /\ SumOver(Firsts(order, 0), composite) = 0
      /\ \A i \in 1 .. n : SumOver(Firsts(order, i), composite)
            = SumOver(Firsts(order, i - 1), composite) + composite[order[i]]
  BY SumAlongOrder, ZenonT(30)
<1>7. 0 \in P
  BY <1>5, <1>6
<1>8. ASSUME NEW i \in 1 .. n, i - 1 \in P PROVE i \in P
  <2>1. i - 1 \in 0 .. n /\ i \in 0 .. n
    OBVIOUS
  <2>2. acc[i] = acc[i - 1] + composite[order[i]]
    BY <2>1, <1>3, <1>5
  <2> QED BY <2>1, <2>2, <1>6, <1>8
<1>9. n \in P
  <2>1. 0 .. n \subseteq P
    <3> HIDE DEF P
    <3> QED BY <1>7, <1>8, PositionInduction
  <2> QED BY <2>1
<1>10. Firsts(order, n) = S
  BY AheadAreFirsts DEF ListsAhead
<1> QED BY <1>2, <1>9, <1>10

------------------------------------------------------------------------
(* The plan by sums.                                                       *)

\* A share is within half a layer of the exact one.
LEMMA ShareIsRounded ==
  ASSUME NEW c \in Nat, NEW total \in Nat, total > 0
  PROVE  /\ Share(c, total) \in Nat
         /\ 2 * (total * Share(c, total)) <= 2 * (c * TotalLayers) + total
         /\ 2 * (c * TotalLayers) <= 2 * (total * Share(c, total)) + total
<1> DEFINE x == c * TotalLayers
           q == (2 * x + total) \div (2 * total)
<1>1. x \in Nat
  BY TotalLayersAssumption
<1>2. Share(c, total) = q
  <2>1. 2 * c * TotalLayers = 2 * x
    BY TotalLayersAssumption
  <2> QED BY <2>1 DEF Share
<1> HIDE DEF x
<1>3. /\ q \in Nat
      /\ (2 * total) * q <= 2 * x + total
      /\ 2 * x + total < (2 * total) * (q + 1)
  <2> DEFINE a == 2 * x + total
             b == 2 * total
  <2>1. a \in Nat /\ b \in Nat /\ b > 0
    BY <1>1
  <2> HIDE DEF a, b
  <2>2. a \div b \in Nat /\ b * (a \div b) <= a /\ a < b * (a \div b + 1)
    BY <2>1
  <2> QED BY <2>2 DEF a, b
<1> HIDE DEF q
<1>4. (2 * total) * q = 2 * (total * q) /\ (2 * total) * (q + 1) = 2 * (total * q) + 2 * total
  BY <1>3
<1>5. total * q \in Nat
  BY <1>3
<1>6. 2 * (total * q) <= 2 * x + total /\ 2 * x <= 2 * (total * q) + total
  <2> DEFINE y == total * q
  <2>1. y \in Nat /\ 2 * y <= 2 * x + total /\ 2 * x + total < 2 * y + 2 * total
    BY <1>3, <1>4, <1>5
  <2> HIDE DEF y
  <2>2. 2 * y <= 2 * x + total /\ 2 * x <= 2 * y + total
    BY <2>1, <1>1
  <2> QED BY <2>2 DEF y
<1> QED BY <1>2, <1>3, <1>6 DEF x

\* Cutting off at the end of the model can wait until the end of a sum.
LEMMA InModelAdds ==
  ASSUME NEW a \in Nat, NEW b \in Nat
  PROVE  /\ InModel(a) \in 0 .. TotalLayers
         /\ InModel(InModel(a) + b) = InModel(a + b)
BY TotalLayersAssumption DEF InModel

\* The total and the shares are natural numbers.
LEMMA SharesAreNat ==
  ASSUME NEW S \in SUBSET Nat, IsFiniteSet(S),
         NEW composite, \A m \in S : composite[m] \in Nat
  PROVE  /\ SumOver(S, composite) \in Nat
         /\ \A m \in S : Shares(S, composite)[m] \in Nat
<1> DEFINE total == SumOver(S, composite)
<1>1. total \in Nat
  <2>1. \A T \in SUBSET S : SumOver(T, composite) \in Nat
    BY SumOverRemove
  <2> QED BY <2>1
<1> HIDE DEF total
<1>2. ASSUME NEW m \in S PROVE Shares(S, composite)[m] \in Nat
  <2>1. Cardinality(S) \in Nat /\ Cardinality(S) > 0
    <3>1. Cardinality(S) \in Nat /\ Cardinality(S) # 0
      BY FS_CardinalityType, FS_EmptySet
    <3> QED BY <3>1
  <2>2. TotalLayers \div Cardinality(S) \in Nat
    BY <2>1, QuotientIsNat, TotalLayersAssumption
  <2>3. total # 0 => Share(composite[m], total) \in Nat
    <3>1. composite[m] \in Nat
      OBVIOUS
    <3> QED BY <3>1, <1>1, ShareIsRounded
  <2>4. Shares(S, composite)[m] = IF total = 0 THEN TotalLayers \div Cardinality(S)
                                               ELSE Share(composite[m], total)
    BY DEF Shares, total
  <2> QED BY <2>2, <2>3, <2>4
<1> QED BY <1>1, <1>2 DEF total

\* cut starts at layer 0, and each position applies the body of the loop to
\* the cut before.
FollowsLoop(order, composite, n, cut) ==
  /\ cut[0] = 0
  /\ \A i \in 1 .. n : cut[i] = EndLayer(order, composite,
                                         TotalComposite(order, composite), i, cut[i - 1])

\* The cuts follow the loop of rebalance_layers.
LEMMA CutsFollowLoop ==
  ASSUME NEW n \in Nat, NEW S, NEW order \in [1 .. n -> S],
         NEW composite, \A m \in S : composite[m] \in Nat
  PROVE  FollowsLoop(order, composite, n, Cuts(order, composite))
<1> DEFINE total == TotalComposite(order, composite)
           D     == 0 .. TotalLayers
           step  == [i \in 1 .. n |-> [current \in D |->
                       EndLayer(order, composite, total, i, current)]]
           cut   == Accumulate(n, 0, step)
<1>1. Len(order) = n
  OBVIOUS
<1>2. total \in Nat
  BY TotalIsNat
<1>3. Cuts(order, composite) = cut
  BY <1>1 DEF Cuts
<1> HIDE DEF total
<1>4. ASSUME NEW i \in 1 .. n, NEW x \in D
      PROVE  EndLayer(order, composite, total, i, x) \in D
  <2>1. EndLayer(order, composite, total, i, x) \in x .. TotalLayers
    BY <1>2, EndLayerBounds
  <2> QED BY <2>1, TotalLayersAssumption
<1>5. step \in [1 .. n -> [D -> D]] /\ 0 \in D
  <2>1. 0 \in D
    BY TotalLayersAssumption
  <2> HIDE DEF D
  <2> QED BY <1>4, <2>1
<1>6. \A i \in 1 .. n, x \in D : step[i][x] = EndLayer(order, composite, total, i, x)
  <2> HIDE DEF D
  <2> QED OBVIOUS
<1> HIDE DEF step, D
<1>7. /\ cut \in [0 .. n -> D]
      /\ cut[0] = 0
      /\ \A i \in 1 .. n : cut[i] = step[i][cut[i - 1]]
  BY <1>5, AccumulateLoop
<1> HIDE DEF cut
<1>8. ASSUME NEW i \in 1 .. n
      PROVE  cut[i] = EndLayer(order, composite, total, i, cut[i - 1])
  <2>1. cut[i - 1] \in D
    <3>1. i - 1 \in 0 .. n
      OBVIOUS
    <3> QED BY <3>1, <1>7
  <2> QED BY <2>1, <1>6, <1>7
<1> QED BY <1>3, <1>7, <1>8 DEF total, FollowsLoop

\* The cut after position i, but for the last one, is where the first i shares
\* end, cut off at the end of the model.
LEMMA CutsAreSums ==
  ASSUME NEW S \in SUBSET Nat, IsFiniteSet(S),
         NEW composite, \A m \in S : composite[m] \in Nat,
         NEW n \in Nat, NEW order \in [1 .. n -> S], IsSorted(S, composite, order)
  PROVE  \A i \in 0 .. n : i < n =>
           Cuts(order, composite)[i]
             = InModel(SumOver(Firsts(order, i), Shares(S, composite)))
<1> DEFINE cut    == Cuts(order, composite)
           shares == Shares(S, composite)
           total  == SumOver(S, composite)
           sum(i) == SumOver(Firsts(order, i), shares)
           P      == {i \in 0 .. n : i < n => cut[i] = InModel(sum(i))}
<1>1. /\ total \in Nat
      /\ \A m \in S : shares[m] \in Nat
  BY SharesAreNat
<1>2. /\ \A i \in 0 .. n : sum(i) \in Nat
      /\ sum(0) = 0
      /\ \A i \in 1 .. n : sum(i) = sum(i - 1) + shares[order[i]]
  <2> HIDE DEF shares
  <2> QED BY <1>1, SumAlongOrder, Zenon
<1>3. /\ cut[0] = 0
      /\ \A i \in 1 .. n : cut[i] = EndLayer(order, composite, total, i, cut[i - 1])
  <2>1. TotalComposite(order, composite) = total
    BY TotalIsSum
  <2>2. FollowsLoop(order, composite, n, cut)
    BY CutsFollowLoop
  <2> HIDE DEF cut, total
  <2> QED BY <2>1, <2>2 DEF FollowsLoop
<1>5. \A m \in S : shares[m] = IF total = 0 THEN TotalLayers \div n
                                            ELSE Share(composite[m], total)
  <2>1. Cardinality(S) = n
    <3>1. Cardinality(Firsts(order, n)) = n
      BY FirstsCount
    <3>2. Firsts(order, n) = S
      BY AheadAreFirsts DEF ListsAhead
    <3> QED BY <3>1, <3>2
  <2> QED BY <2>1 DEF Shares
<1>6. Len(order) = n
  OBVIOUS
<1> HIDE DEF cut, shares, total, sum
<1>7. 0 \in P
  BY <1>2, <1>3, TotalLayersAssumption DEF InModel
<1>8. ASSUME NEW i \in 1 .. n, i - 1 \in P PROVE i \in P
  <2> SUFFICES ASSUME i < n PROVE cut[i] = InModel(sum(i))
    OBVIOUS
  <2>1. i - 1 \in 0 .. n /\ i - 1 < n /\ i # n /\ order[i] \in S
    OBVIOUS
  <2>2. cut[i - 1] = InModel(sum(i - 1))
    BY <2>1, <1>8
  <2>3. LayerCount(order, composite, total, i, cut[i - 1]) = shares[order[i]]
    BY <2>1, <1>5, <1>6 DEF LayerCount
  <2>4. cut[i] = InModel(cut[i - 1] + shares[order[i]])
    <3>1. sum(i - 1) \in Nat /\ shares[order[i]] \in Nat
      BY <2>1, <1>1, <1>2
    <3>2. InModel(sum(i - 1)) \in 0 .. TotalLayers
      BY <3>1, InModelAdds
    <3> QED BY <2>2, <2>3, <3>1, <3>2, <1>3, TotalLayersAssumption DEF EndLayer, InModel
  <2>5. InModel(InModel(sum(i - 1)) + shares[order[i]]) = InModel(sum(i - 1) + shares[order[i]])
    <3>1. sum(i - 1) \in Nat /\ shares[order[i]] \in Nat
      BY <2>1, <1>1, <1>2
    <3> QED BY <3>1, InModelAdds
  <2>6. sum(i) = sum(i - 1) + shares[order[i]]
    BY <1>2
  <2> QED BY <2>2, <2>4, <2>5, <2>6
<1>9. 0 .. n \subseteq P
  <2> HIDE DEF P
  <2> QED BY <1>7, <1>8, PositionInduction
<1> QED BY <1>9 DEF cut, shares, sum

\* The slice of each node is the layers between the sum of the shares of the
\* nodes ahead of it and that sum plus its own share, cut off at the end of the
\* model, and the last node's reaches to that end: the loop of
\* rebalance_layers does what its sums say.
THEOREM PlanFollowsSums ==
  ASSUME NEW S \in SUBSET Nat, IsFiniteSet(S),
         NEW composite, \A m \in S : composite[m] \in Nat
  PROVE  IsBySums(S, composite, Plan(S, composite))
<1> DEFINE order  == SortedByCapacity(S, composite)
           cut    == Cuts(order, composite)
           n      == Cardinality(S)
           shares == Shares(S, composite)
<1>1. order \in [1 .. n -> S] /\ IsSorted(S, composite, order)
  BY SortedByCapacityIsSorted
<1>2. n \in Nat
  BY FS_CardinalityType
<1>3. \A i \in 1 .. n : Plan(S, composite)[order[i]] = cut[i - 1] .. (cut[i] - 1)
  BY PlanSlices, ZenonT(30)
<1> HIDE DEF order, n
<1>4. n # 0 => cut[n] = TotalLayers
  <2>1. /\ Cuts(order, composite) \in [0 .. n -> 0 .. TotalLayers]
        /\ Cuts(order, composite)[0] = 0
        /\ n # 0 => Cuts(order, composite)[n] = TotalLayers
        /\ \A i \in 1 .. n :
             Cuts(order, composite)[i - 1] <= Cuts(order, composite)[i]
    BY <1>1, <1>2, CutsClimb, Zenon
  <2> HIDE DEF cut
  <2> QED BY <2>1 DEF cut
<1>5. \A i \in 0 .. n : i < n => cut[i] = InModel(SumOver(Firsts(order, i), shares))
  BY <1>1, <1>2, CutsAreSums
<1>6. /\ Firsts(order, n) = S
      /\ \A i \in 1 .. n : order[i] \notin Firsts(order, i - 1)
      /\ \A i \in 1 .. n : Ahead(S, composite, order[i]) = Firsts(order, i - 1)
  <2>1. ListsAhead(S, composite, n, order)
    BY <1>1, <1>2, AheadAreFirsts
  <2> QED BY <2>1 DEF ListsAhead
<1>7. \A i \in 0 .. n : Cardinality(Firsts(order, i)) = i
  BY <1>1, <1>2, FirstsCount
<1> HIDE DEF cut, shares
<1>8. ASSUME NEW i \in 1 .. n
      PROVE  /\ From(S, composite, order[i]) = cut[i - 1]
             /\ Upto(S, composite, order[i]) = cut[i]
  <2>1. i - 1 \in 0 .. n /\ i - 1 < n /\ i \in 0 .. n /\ n \in 0 .. n
    BY <1>2
  <2>2. From(S, composite, order[i]) = cut[i - 1]
    <3>1. cut[i - 1] = InModel(SumOver(Firsts(order, i - 1), shares))
      BY <2>1, <1>5
    <3> QED BY <3>1, <1>6 DEF From, shares
  <2>3. Firsts(order, i - 1) \cup {order[i]} = Firsts(order, i)
    <3>1. order[i] \notin Firsts(order, i - 1)
      BY <1>6
    <3>2. /\ order[i] \in Firsts(order, i)
          /\ Firsts(order, i) \ {order[i]} = Firsts(order, i - 1)
      BY <3>1, <1>2, FirstsStep, Zenon
    <3> QED BY <3>2
  <2>4. Upto(S, composite, order[i])
          = IF Firsts(order, i) = S THEN TotalLayers
            ELSE InModel(SumOver(Firsts(order, i), shares))
    <3>1. Ahead(S, composite, order[i]) \cup {order[i]} = Firsts(order, i)
      BY <2>3, <1>6
    <3> QED BY <3>1 DEF Upto, shares
  <2>5. CASE i = n
    <3>1. Firsts(order, i) = S /\ cut[i] = TotalLayers
      BY <2>5, <1>2, <1>4, <1>6
    <3> QED BY <3>1, <2>2, <2>4
  <2>6. CASE i # n
    <3>1. Firsts(order, i) # S
      BY <2>1, <2>6, <1>6, <1>7
    <3>2. i < n
      BY <2>6, <1>2
    <3>3. cut[i] = InModel(SumOver(Firsts(order, i), shares))
      BY <3>2, <2>1, <1>5
    <3> QED BY <3>1, <3>3, <2>2, <2>4
  <2> QED BY <2>5, <2>6
<1>9. ASSUME NEW m \in S
      PROVE  Plan(S, composite)[m] = From(S, composite, m) .. (Upto(S, composite, m) - 1)
  <2>1. PICK i \in 1 .. n : order[i] = m
    BY <1>1 DEF IsSorted
  <2> QED BY <2>1, <1>3, <1>8
<1> QED BY <1>9 DEF IsBySums

------------------------------------------------------------------------
(* The rounding.                                                           *)

\* The errors of k shares add up to at most k half layers.
LEMMA SharesNearExact ==
  ASSUME NEW S \in SUBSET Nat, IsFiniteSet(S),
         NEW composite, \A m \in S : composite[m] \in Nat,
         NEW n \in Nat, NEW order \in [1 .. n -> S], IsSorted(S, composite, order),
         SumOver(S, composite) > 0
  PROVE  \A i \in 0 .. n :
           LET total == SumOver(S, composite)
               exact == SumOver(Firsts(order, i), composite) * TotalLayers
               given == total * SumOver(Firsts(order, i), Shares(S, composite))
           IN  /\ 2 * exact - i * total <= 2 * given
               /\ 2 * given <= 2 * exact + i * total
<1> DEFINE total  == SumOver(S, composite)
           shares == Shares(S, composite)
           C(i)   == SumOver(Firsts(order, i), composite)
           H(i)   == SumOver(Firsts(order, i), shares)
           Near(i) == /\ 2 * (C(i) * TotalLayers) - i * total <= 2 * (total * H(i))
                      /\ 2 * (total * H(i)) <= 2 * (C(i) * TotalLayers) + i * total
           P == {i \in 0 .. n : Near(i)}
<1>1. total \in Nat /\ \A m \in S : shares[m] \in Nat
  BY SharesAreNat
<1>2. \A m \in S : shares[m] = Share(composite[m], total)
  BY DEF Shares
<1> HIDE DEF shares
<1>3. /\ \A i \in 0 .. n : C(i) \in Nat
      /\ C(0) = 0
      /\ \A i \in 1 .. n : C(i) = C(i - 1) + composite[order[i]]
  BY SumAlongOrder, Zenon
<1>4. /\ \A i \in 0 .. n : H(i) \in Nat
      /\ H(0) = 0
      /\ \A i \in 1 .. n : H(i) = H(i - 1) + shares[order[i]]
  BY <1>1, SumAlongOrder, Zenon
<1> HIDE DEF C, H, total
<1>5. 0 \in P
  <2>1. C(0) * TotalLayers = 0 /\ total * H(0) = 0 /\ 0 * total = 0
    BY <1>1, <1>3, <1>4, TotalLayersAssumption
  <2> QED BY <2>1
<1>6. ASSUME NEW i \in 1 .. n, i - 1 \in P PROVE i \in P
  <2> DEFINE c == composite[order[i]]
             s == shares[order[i]]
             x == C(i - 1) * TotalLayers
             y == total * H(i - 1)
             z == (i - 1) * total
  <2>1. order[i] \in S /\ i - 1 \in 0 .. n /\ i \in Nat
    OBVIOUS
  <2>2. c \in Nat /\ s \in Nat /\ s = Share(c, total)
    BY <2>1, <1>1, <1>2
  <2>3. C(i - 1) \in Nat /\ H(i - 1) \in Nat /\ TotalLayers \in Nat
    BY <2>1, <1>3, <1>4, TotalLayersAssumption
  <2>4. C(i) = C(i - 1) + c /\ H(i) = H(i - 1) + s
    BY <1>3, <1>4
  <2>5. Near(i - 1)
    BY <1>6
  <2>6. /\ 2 * (total * s) <= 2 * (c * TotalLayers) + total
        /\ 2 * (c * TotalLayers) <= 2 * (total * s) + total
    BY <2>2, <1>1, ShareIsRounded DEF total
  <2> HIDE DEF c, s
  <2>7. C(i) * TotalLayers = x + c * TotalLayers
    BY <2>2, <2>3, <2>4
  <2>8. total * H(i) = y + total * s
    BY <1>1, <2>2, <2>3, <2>4
  <2>9. i * total = z + total
    BY <1>1, <2>1
  <2>10. /\ x \in Int /\ y \in Int /\ z \in Int
         /\ c * TotalLayers \in Int /\ total * s \in Int
    BY <1>1, <2>1, <2>2, <2>3
  <2>11. 2 * x - z <= 2 * y /\ 2 * y <= 2 * x + z
    BY <2>5
  <2> DEFINE u == c * TotalLayers
             v == total * s
  <2>12. /\ 2 * (x + u) - (z + total) <= 2 * (y + v)
         /\ 2 * (y + v) <= 2 * (x + u) + (z + total)
    <3>1. x \in Int /\ y \in Int /\ z \in Int /\ u \in Int /\ v \in Int
      BY <2>10
    <3>2. 2 * v <= 2 * u + total /\ 2 * u <= 2 * v + total
      BY <2>6
    <3> HIDE DEF x, y, z, u, v
    <3> QED BY <1>1, <2>11, <3>1, <3>2
  <2>13. Near(i)
    <3> HIDE DEF x, y, z
    <3> QED BY <2>7, <2>8, <2>9, <2>12 DEF u, v
  <2> QED BY <2>13
<1>7. 0 .. n \subseteq P
  <2> HIDE DEF P
  <2> QED BY <1>5, <1>6, PositionInduction
<1> QED BY <1>7 DEF C, H, shares, total

\* The slices of the nodes from position i on are the layers from their first
\* cut to the end of the model: the nodes ahead are left the layers below it.
LEMMA LeftAheadIsCut ==
  ASSUME NEW S \in SUBSET Nat, IsFiniteSet(S),
         NEW composite, \A m \in S : composite[m] \in Nat,
         NEW i \in DOMAIN SortedByCapacity(S, composite)
  PROVE  LeftAhead(S, composite, Plan(S, composite), SortedByCapacity(S, composite)[i])
           = Cuts(SortedByCapacity(S, composite), composite)[i - 1]
<1> DEFINE order == SortedByCapacity(S, composite)
           cut   == Cuts(order, composite)
           n     == Cardinality(S)
           rest  == UNION {Plan(S, composite)[m] : m \in S \ Ahead(S, composite, order[i])}
<1>1. order \in [1 .. n -> S] /\ IsSorted(S, composite, order)
  BY SortedByCapacityIsSorted
<1>2. n \in Nat /\ i \in 1 .. n /\ n # 0 /\ i - 1 \in 0 .. n
  BY <1>1, FS_CardinalityType
<1>3. \A j \in 1 .. n : Plan(S, composite)[order[j]] = cut[j - 1] .. (cut[j] - 1)
  BY PlanSlices, ZenonT(30)
<1>4. S # {}
  BY <1>1, <1>2
<1>5. Complete(order, Plan(S, composite))
  BY <1>4, PlanTiles DEF Tiles
<1> HIDE DEF order, n
<1>6. /\ cut \in [0 .. n -> 0 .. TotalLayers]
      /\ \A j \in 1 .. n : cut[j - 1] <= cut[j]
  BY <1>1, <1>2, CutsClimb
<1>7. ListsAhead(S, composite, n, order)
  BY <1>1, <1>2, AheadAreFirsts
<1> HIDE DEF cut
<1>8. \A j \in 0 .. n : cut[j] \in Nat /\ cut[j] <= TotalLayers
  BY <1>6, TotalLayersAssumption
<1>9. \A j, k \in 0 .. n : j <= k => cut[j] <= cut[k]
  <2>1. cut \in [0 .. n -> Nat]
    BY <1>6, TotalLayersAssumption
  <2> QED BY <2>1, <1>2, <1>6, CutsMonotonic
<1>10. \A j \in 1 .. n : order[j] \in Ahead(S, composite, order[i]) <=> j <= i - 1
  <2> SUFFICES ASSUME NEW j \in 1 .. n
               PROVE  order[j] \in Ahead(S, composite, order[i]) <=> j <= i - 1
    OBVIOUS
  <2>1. order[i] \in S /\ order[j] \in S
    BY <1>1, <1>2
  <2>2. ~ Before(composite, order[i], order[i])
    BY <2>1, BeforeIsOrder
  <2>3. i < j => Before(composite, order[i], order[j])
    BY <1>1, <1>2 DEF IsSorted
  <2>4. j < i => Before(composite, order[j], order[i])
    BY <1>1, <1>2 DEF IsSorted
  <2>5. ~ (Before(composite, order[i], order[j]) /\ Before(composite, order[j], order[i]))
    BY <2>1, BeforeIsOrder
  <2>6. order[j] \in Ahead(S, composite, order[i]) <=> Before(composite, order[j], order[i])
    BY <2>1 DEF Ahead
  <2>7. CASE j < i
    BY <2>4, <2>6, <2>7, <1>2
  <2>8. CASE j = i
    BY <2>2, <2>6, <2>8, <1>2
  <2>9. CASE i < j
    BY <2>3, <2>5, <2>6, <2>9, <1>2
  <2> QED BY <2>7, <2>8, <2>9, <1>2
<1>11. ASSUME NEW x \in rest PROVE x \in cut[i - 1] .. (TotalLayers - 1)
  <2>1. PICK m \in S \ Ahead(S, composite, order[i]) : x \in Plan(S, composite)[m]
    OBVIOUS
  <2>2. PICK j \in 1 .. n : order[j] = m
    BY <1>1 DEF IsSorted
  <2>3. /\ ~ (j <= i - 1) /\ j - 1 \in 0 .. n /\ j \in 0 .. n
        /\ i - 1 <= j - 1
    BY <2>2, <1>2, <1>10
  <2>4. x \in cut[j - 1] .. (cut[j] - 1)
    BY <2>1, <2>2, <1>3
  <2>5. cut[i - 1] <= cut[j - 1]
    BY <2>3, <1>2, <1>9
  <2>6. /\ cut[i - 1] \in Nat /\ cut[j - 1] \in Nat
        /\ cut[j] \in Nat /\ cut[j] <= TotalLayers
    BY <2>3, <1>2, <1>8
  <2> QED BY <2>4, <2>5, <2>6, TotalLayersAssumption
<1>12. ASSUME NEW x \in cut[i - 1] .. (TotalLayers - 1) PROVE x \in rest
  <2>1. cut[i - 1] \in Nat
    BY <1>2, <1>8
  <2>2. x \in Layers
    BY <2>1, TotalLayersAssumption DEF Layers
  <2>3. PICK j \in DOMAIN order : x \in Plan(S, composite)[order[j]]
    BY <2>2, <1>5 DEF Complete
  <2>4. j \in 1 .. n /\ order[j] \in S
    BY <1>1
  <2>5. x \in cut[j - 1] .. (cut[j] - 1) /\ j \in 0 .. n /\ j - 1 \in 0 .. n
    <3>1. j \in 0 .. n /\ j - 1 \in 0 .. n
      BY <2>4, <1>2
    <3>2. Plan(S, composite)[order[j]] = cut[j - 1] .. (cut[j] - 1)
      BY <2>4, <1>3
    <3> QED BY <3>1, <3>2, <2>3
  <2>6. cut[j] \in Nat /\ cut[j - 1] \in Nat
    BY <2>5, <1>8
  <2>7. j <= i - 1 => cut[j] <= cut[i - 1]
    BY <2>5, <1>2, <1>9
  <2>8. ~ (j <= i - 1)
    BY <2>1, <2>5, <2>6, <2>7, TotalLayersAssumption
  <2>9. order[j] \in S \ Ahead(S, composite, order[i])
    BY <2>4, <2>8, <1>10
  <2> QED BY <2>3, <2>9
<1>13. rest = cut[i - 1] .. (TotalLayers - 1)
  <2> HIDE DEF rest
  <2> QED BY <1>11, <1>12
<1>14. cut[i - 1] \in Nat /\ cut[i - 1] <= TotalLayers
  BY <1>2, <1>8
<1>15. Cardinality(cut[i - 1] .. (TotalLayers - 1)) = TotalLayers - cut[i - 1]
  <2>1. TotalLayers \in Int /\ cut[i - 1] \in Int
    BY <1>14, TotalLayersAssumption
  <2> DEFINE a == cut[i - 1]
             b == TotalLayers - 1
  <2>2. a \in Int /\ b \in Int /\ a <= b + 1
    BY <2>1, <1>14
  <2> HIDE DEF a, b
  <2>3. Cardinality(a .. b) = IF a > b THEN 0 ELSE b - a + 1
    BY <2>2, FS_Interval
  <2>4. Cardinality(a .. b) = b - a + 1
    BY <2>2, <2>3
  <2> QED BY <2>1, <2>4 DEF a, b
<1>16. LeftAhead(S, composite, Plan(S, composite), order[i])
         = TotalLayers - Cardinality(rest)
  BY DEF LeftAhead
<1> HIDE DEF rest
<1>17. LeftAhead(S, composite, Plan(S, composite), order[i]) = cut[i - 1]
  <2>1. TotalLayers - (TotalLayers - cut[i - 1]) = cut[i - 1]
    BY <1>14, TotalLayersAssumption
  <2> QED BY <2>1, <1>13, <1>15, <1>16
<1> QED BY <1>17 DEF order, cut

\* Where the slice of a node begins is within k / 2 layers of its exact
\* proportional place, k being the number of nodes ahead, whatever the nodes
\* and their capacities: the errors of the rounding add up no faster.
THEOREM PlanIsProportional ==
  ASSUME NEW S \in SUBSET Nat, IsFiniteSet(S),
         NEW composite, \A m \in S : composite[m] \in Nat
  PROVE  IsProportional(S, composite, Plan(S, composite))
<1> DEFINE order  == SortedByCapacity(S, composite)
           cut    == Cuts(order, composite)
           n      == Cardinality(S)
           shares == Shares(S, composite)
           total  == SumOver(S, composite)
           C(i)   == SumOver(Firsts(order, i), composite)
           H(i)   == SumOver(Firsts(order, i), shares)
           Left(m) == LeftAhead(S, composite, Plan(S, composite), m)
<1> SUFFICES ASSUME total > 0, NEW m \in S
             PROVE  LET k     == Cardinality(Ahead(S, composite, m))
                        exact == 2 * SumOver(Ahead(S, composite, m), composite) * TotalLayers
                        given == 2 * total * Left(m)
                    IN  exact - k * total <= given /\ given <= exact + k * total
  BY DEF IsProportional
<1>1. order \in [1 .. n -> S] /\ IsSorted(S, composite, order)
  BY SortedByCapacityIsSorted
<1>2. n \in Nat
  BY FS_CardinalityType
<1>3. PICK i \in 1 .. n : order[i] = m
  BY <1>1 DEF IsSorted
<1>4. i - 1 \in 0 .. n /\ i - 1 < n /\ n \in 0 .. n
  BY <1>2
<1>5. Left(m) = cut[i - 1]
  BY <1>1, <1>3, LeftAheadIsCut
<1>6. /\ total \in Nat
      /\ \A x \in S : shares[x] \in Nat
  BY SharesAreNat
<1> HIDE DEF order, n, Left
<1>7. ListsAhead(S, composite, n, order)
  BY <1>1, <1>2, AheadAreFirsts
<1>8. Ahead(S, composite, m) = Firsts(order, i - 1) /\ Firsts(order, n) = S
  BY <1>3, <1>7 DEF ListsAhead
<1>9. Cardinality(Ahead(S, composite, m)) = i - 1
  BY <1>1, <1>2, <1>4, <1>8, FirstsCount
<1>10. cut[i - 1] = InModel(H(i - 1))
  BY <1>1, <1>2, <1>4, CutsAreSums
<1>11. /\ 2 * (C(i - 1) * TotalLayers) - (i - 1) * total <= 2 * (total * H(i - 1))
       /\ 2 * (total * H(i - 1)) <= 2 * (C(i - 1) * TotalLayers) + (i - 1) * total
  BY <1>1, <1>2, <1>4, SharesNearExact
<1> HIDE DEF cut, shares, total
<1>12. /\ \A j \in 0 .. n : C(j) \in Nat
       /\ C(0) = 0
       /\ \A j \in 1 .. n : C(j) = C(j - 1) + composite[order[j]]
  BY <1>1, <1>2, SumAlongOrder, Zenon
<1>13. C(n) = total
  BY <1>8 DEF total
<1>14. H(i - 1) \in Nat
  <2>1. \A j \in 0 .. n : SumOver(Firsts(order, j), shares) \in Nat
    BY <1>1, <1>2, <1>6, SumAlongOrder
  <2> QED BY <2>1, <1>4
<1> HIDE DEF C, H
<1>15. C(i - 1) <= total
  <2> DEFINE c == [j \in 0 .. n |-> C(j)]
  <2>1. c \in [0 .. n -> Nat] /\ \A j \in 0 .. n : c[j] = C(j)
    BY <1>12
  <2>2. \A j \in 1 .. n : c[j - 1] <= c[j]
    <3> SUFFICES ASSUME NEW j \in 1 .. n PROVE c[j - 1] <= c[j]
      OBVIOUS
    <3>1. j - 1 \in 0 .. n /\ j \in 0 .. n
      BY <1>2
    <3>2. composite[order[j]] \in Nat
      BY <1>1
    <3>3. c[j - 1] = C(j - 1) /\ c[j] = C(j) /\ C(j - 1) \in Nat
      BY <3>1, <2>1, <1>12
    <3>4. C(j) = C(j - 1) + composite[order[j]]
      BY <1>12
    <3> HIDE DEF c
    <3> QED BY <3>2, <3>3, <3>4
  <2> HIDE DEF c
  <2>3. c[i - 1] <= c[n]
    <3>1. /\ c \in [0 .. n -> Nat]
          /\ i - 1 \in 0 .. n /\ n \in 0 .. n /\ i - 1 <= n
      BY <2>1, <1>2, <1>4
    <3> QED BY <3>1, <2>2, <1>2, CutsMonotonic, Zenon
  <2> QED BY <2>1, <2>3, <1>4, <1>13
<1> DEFINE x == C(i - 1) * TotalLayers
           y == total * H(i - 1)
           g == total * cut[i - 1]
           z == (i - 1) * total
<1>16. x \in Nat /\ y \in Nat /\ g \in Nat /\ z \in Nat
  <2>1. C(i - 1) \in Nat /\ cut[i - 1] \in Nat /\ i - 1 \in Nat /\ TotalLayers \in Nat
    <3>1. cut[i - 1] \in 0 .. TotalLayers
      BY <1>10, <1>14, InModelAdds
    <3> QED BY <3>1, <1>4, <1>12, TotalLayersAssumption
  <2> QED BY <2>1, <1>6, <1>14
<1>17. 2 * x - z <= 2 * g /\ 2 * g <= 2 * x + z
  <2>1. 2 * x - z <= 2 * y /\ 2 * y <= 2 * x + z
    BY <1>11
  <2>2. CASE H(i - 1) <= TotalLayers
    <3>1. cut[i - 1] = H(i - 1)
      BY <2>2, <1>10, <1>14, TotalLayersAssumption DEF InModel
    <3>2. g = y
      BY <3>1
    <3> HIDE DEF x, y, g, z
    <3> QED BY <3>2, <2>1
  <2>3. CASE ~ (H(i - 1) <= TotalLayers)
    <3>1. cut[i - 1] = TotalLayers /\ TotalLayers <= H(i - 1)
      BY <2>3, <1>10, <1>14, TotalLayersAssumption DEF InModel
    <3>2. x <= g
      <4>1. C(i - 1) \in Nat
        BY <1>4, <1>12
      <4> QED BY <4>1, <3>1, <1>6, <1>15, TotalLayersAssumption
    <3>3. g <= y
      BY <3>1, <1>6, <1>14, TotalLayersAssumption
    <3> HIDE DEF x, y, g, z
    <3> QED BY <3>2, <3>3, <2>1, <1>16
  <2> QED BY <2>2, <2>3
<1>18. /\ 2 * SumOver(Ahead(S, composite, m), composite) * TotalLayers = 2 * x
       /\ 2 * total * Left(m) = 2 * g
  <2>1. SumOver(Ahead(S, composite, m), composite) = C(i - 1)
    BY <1>8 DEF C
  <2>2. C(i - 1) \in Nat /\ cut[i - 1] \in Nat
    <3>1. cut[i - 1] \in 0 .. TotalLayers
      BY <1>10, <1>14, InModelAdds
    <3> QED BY <3>1, <1>4, <1>12, TotalLayersAssumption
  <2>3. 2 * C(i - 1) * TotalLayers = 2 * x /\ 2 * total * cut[i - 1] = 2 * g
    BY <2>2, <1>6, TotalLayersAssumption
  <2> QED BY <2>1, <2>3, <1>5
<1> QED BY <1>9, <1>17, <1>18

========================================================================
