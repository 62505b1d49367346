--------------------------- MODULE ScheduleProofs ---------------------------
(***************************************************************************)
(* What the schedule of a batch is worth, for batches of any length: the   *)
(* layers share the calls out among them, every edge leads to a later      *)
(* layer, and calls that must not race are never in one layer.             *)
(***************************************************************************)
EXTENDS Schedule, WellOrder, FiniteSetTheorems

----------------------------------------------------------------------------
(* The rounds of Kahn's algorithm.                                         *)

\* The calls that can be placed once those before are.
Ready(calls, edges, before) ==
  {i \in DOMAIN calls : \A a \in Arcs(calls, edges) : a[2] = i => a[1] \in before}
Round(calls, edges, placed, k) == IF k = 0 THEN {} ELSE Ready(calls, edges, placed[k - 1])

LEMMA RoundsExist ==
  ASSUME NEW calls, NEW edges, NEW n \in Nat
  PROVE  \E g : g = [k \in 0..n |-> Round(calls, edges, g, k)]
<1> DEFINE Good(m) == \E g : g = [k \in 0..m |-> Round(calls, edges, g, k)]
           Bad == {m \in Nat : ~Good(m)}
<1> SUFFICES ASSUME ~Good(n)
             PROVE  FALSE
  OBVIOUS
<1>1. PICK m \in Bad : \A y \in Bad : m <= y
  <2> HIDE DEF Good
  <2> QED
    BY Least
<1>2. CASE m = 0
  <2>1. [k \in 0..0 |-> {}] = [k \in 0..0 |-> Round(calls, edges, [l \in 0..0 |-> {}], k)]
    BY DEF Round
  <2> QED
    BY <2>1, <1>2
<1>3. CASE m # 0
  <2>1. m \in Nat /\ m - 1 \in Nat
    BY <1>3
  <2>2. m - 1 \notin Bad
    BY <1>1, <2>1
  <2>3. PICK g : g = [k \in 0..(m - 1) |-> Round(calls, edges, g, k)]
    BY <2>1, <2>2
  <2> DEFINE h == [k \in 0..m |-> IF k = m THEN Ready(calls, edges, g[m - 1]) ELSE g[k]]
  <2>4. ASSUME NEW k \in 0..m
        PROVE  h[k] = Round(calls, edges, h, k)
    <3>1. CASE k = m
      BY <3>1, <2>1, <1>3 DEF Round
    <3>2. CASE k # m
      <4>1. k \in 0..(m - 1) /\ (k # 0 => k - 1 \in 0..m /\ k - 1 # m)
        BY <3>2, <2>1
      <4>2. g[k] = Round(calls, edges, g, k)
        BY <2>3, <4>1
      <4>3. h[k] = g[k] /\ (k # 0 => h[k - 1] = g[k - 1])
        BY <3>2, <4>1
      <4> QED
        BY <4>2, <4>3 DEF Round
    <3> QED
      BY <3>1, <3>2
  <2>5. h = [k \in 0..m |-> Round(calls, edges, h, k)]
    <3> HIDE DEF h
    <3>1. h = [k \in 0..m |-> h[k]]
      BY DEF h
    <3> QED
      BY <2>4, <3>1
  <2> QED
    BY <2>5
<1> QED
  BY <1>2, <1>3

LEMMA PlacedRounds ==
  ASSUME NEW S, NEW calls \in Seq(S), NEW edges
  PROVE  LET p == Placed(calls, edges)
         IN /\ DOMAIN p = 0..Len(calls)
            /\ p[0] = {}
            /\ \A k \in 1..Len(calls) : p[k] = Ready(calls, edges, p[k - 1])
            /\ \A k \in 0..Len(calls) : p[k] \subseteq DOMAIN calls
<1> DEFINE Is(g) == g = [k \in 0..Len(calls) |-> Round(calls, edges, g, k)]
           p == Placed(calls, edges)
<1>0. Len(calls) \in Nat
  OBVIOUS
<1>1. p = CHOOSE g : Is(g)
  BY DEF Placed, Round, Ready
<1>2. \E g : Is(g)
  BY RoundsExist, <1>0
<1>3. Is(p)
  <2> HIDE DEF Is
  <2> QED
    BY <1>1, <1>2
<1> HIDE DEF p
<1>4. Len(calls) \in Nat
  OBVIOUS
<1>5. \A k \in 0..Len(calls) : p[k] = Round(calls, edges, p, k)
  BY <1>3
<1>6. p[0] = {} /\ DOMAIN p = 0..Len(calls)
  BY <1>3, <1>4, <1>5 DEF Round
<1>7. \A k \in 1..Len(calls) : p[k] = Ready(calls, edges, p[k - 1])
  BY <1>4, <1>5 DEF Round
<1>8. \A k \in 0..Len(calls) : p[k] \subseteq DOMAIN calls
  BY <1>5 DEF Round, Ready
<1> QED
  BY <1>6, <1>7, <1>8 DEF p

\* A call that is placed stays placed.
LEMMA PlacedGrows ==
  ASSUME NEW S, NEW calls \in Seq(S), NEW edges,
         NEW k \in 0..Len(calls), NEW j \in 0..k
  PROVE  Placed(calls, edges)[j] \subseteq Placed(calls, edges)[k]
<1> DEFINE p == Placed(calls, edges)
           n == Len(calls)
<1>0. n \in Nat
  OBVIOUS
<1>1. /\ p[0] = {}
      /\ \A m \in 1..n : p[m] = Ready(calls, edges, p[m - 1])
  BY PlacedRounds
<1> HIDE DEF p, n
<1>2. \A m \in 1..n : p[m - 1] \subseteq p[m]
  <2> DEFINE Bad == {m \in 1..n : ~(p[m - 1] \subseteq p[m])}
  <2> SUFFICES ASSUME Bad # {}
               PROVE  FALSE
    OBVIOUS
  <2>0. Bad \in SUBSET Nat
    BY <1>0
  <2>1. PICK m \in Bad : \A y \in Bad : m <= y
    BY ONLY Least, <2>0, Bad # {}
  <2>2. m # 1
    BY <1>1, <2>1
  <2>3. m \in 1..n /\ m - 1 \in 1..n /\ m - 1 \notin Bad
    BY <1>0, <2>1, <2>2
  <2>4. p[(m - 1) - 1] \subseteq p[m - 1]
    BY <2>3
  <2>5. p[m] = Ready(calls, edges, p[m - 1]) /\ p[m - 1] = Ready(calls, edges, p[(m - 1) - 1])
    BY <1>1, <2>3
  <2>6. p[m - 1] \subseteq p[m]
    BY <2>4, <2>5 DEF Ready
  <2> QED
    BY <2>1, <2>6
<1>3. \A m \in j..n : p[j] \subseteq p[m]
  <2> DEFINE Bad == {m \in j..n : ~(p[j] \subseteq p[m])}
  <2> SUFFICES ASSUME Bad # {}
               PROVE  FALSE
    OBVIOUS
  <2>1. j \in Nat
    OBVIOUS
  <2>0. Bad \in SUBSET Nat
    BY <1>0, <2>1
  <2>2. PICK m \in Bad : \A y \in Bad : m <= y
    BY ONLY Least, <2>0, Bad # {}
  <2>3. m # j
    BY <2>2
  <2>4. m \in 1..n /\ m - 1 \in j..n /\ m - 1 \notin Bad
    BY <1>0, <2>1, <2>2, <2>3
  <2>5. p[j] \subseteq p[m - 1] /\ p[m - 1] \subseteq p[m]
    BY <1>2, <2>4
  <2> QED
    BY <2>2, <2>5
<1>4. k \in j..n
  BY <1>0 DEF n
<1> QED
  BY <1>3, <1>4 DEF p

\* Once a round places nothing, no later one does.
LEMMA PlacedStops ==
  ASSUME NEW S, NEW calls \in Seq(S), NEW edges,
         NEW k \in 1..Len(calls), Placed(calls, edges)[k] = Placed(calls, edges)[k - 1],
         NEW m \in k..Len(calls)
  PROVE  Placed(calls, edges)[m] = Placed(calls, edges)[m - 1]
<1> DEFINE p == Placed(calls, edges)
           n == Len(calls)
           Bad == {i \in k..n : p[i] # p[i - 1]}
<1>1. n \in Nat /\ k \in Nat /\ p[k] = p[k - 1] /\ m \in k..n
  OBVIOUS
<1>2. \A i \in 1..n : p[i] = Ready(calls, edges, p[i - 1])
  BY PlacedRounds
<1> HIDE DEF p, n
<1>3. SUFFICES ASSUME Bad # {}
               PROVE  FALSE
  BY <1>1 DEF p
<1>4. Bad \in SUBSET Nat
  BY <1>1
<1>5. PICK i \in Bad : \A y \in Bad : i <= y
  BY ONLY Least, <1>3, <1>4
<1>6. i # k
  BY <1>1, <1>5
<1>7. i \in 1..n /\ i - 1 \in 1..n /\ i - 1 \in k..n /\ i - 1 \notin Bad
  BY <1>1, <1>5, <1>6
<1>8. p[i - 1] = p[(i - 1) - 1]
  BY <1>7
<1>9. p[i] = Ready(calls, edges, p[i - 1]) /\ p[i - 1] = Ready(calls, edges, p[(i - 1) - 1])
  BY <1>2, <1>7
<1> QED
  BY <1>5, <1>8, <1>9

\* The rounds that place something come first.
LEMMA RoundsCount ==
  ASSUME NEW S, NEW calls \in Seq(S), NEW edges
  PROVE  \E m \in 0..Len(calls) : Rounds(Placed(calls, edges)) = 1..m
<1> DEFINE p == Placed(calls, edges)
           n == Len(calls)
           R == Rounds(p)
<1>1. n \in Nat /\ DOMAIN p = 0..n
  BY PlacedRounds
<1>2. \A k \in 1..n : p[k] = p[k - 1] => \A m \in k..n : p[m] = p[m - 1]
  BY PlacedStops
<1> HIDE DEF p, n
<1>3. R = {k \in 1..n : p[k] # p[k - 1]}
  BY <1>1 DEF Rounds
<1> HIDE DEF R
<1>4. CASE R = {}
  <2>1. 0 \in 0..n /\ R = 1..0
    BY <1>1, <1>4
  <2> QED
    BY <2>1 DEF R, n, p
<1>5. CASE R # {}
  <2>1. R \in SUBSET Nat /\ \A k \in R : k <= n
    BY <1>1, <1>3
  <2>2. PICK m \in R : \A k \in R : k <= m
    BY ONLY Greatest, <2>1, <1>5, <1>1
  <2>3. m \in 1..n
    BY <1>3, <2>2
  <2>4. ASSUME NEW k \in 1..m
        PROVE  k \in R
    <3>1. k \in 1..n /\ m \in k..n
      BY <2>3, <1>1
    <3>2. p[k] # p[k - 1]
      BY <1>2, <1>3, <2>2, <3>1
    <3> QED
      BY <1>3, <3>1, <3>2
  <2>5. R = 1..m
    <3>1. \A k \in R : k \in 1..m
      BY <1>3, <2>2, <2>3, <1>1
    <3> QED
      BY <2>4, <3>1
  <2>6. m \in 0..n
    BY <2>3, <1>1
  <2> QED
    BY <2>5, <2>6 DEF R, n, p
<1> QED
  BY <1>4, <1>5

----------------------------------------------------------------------------
(* The layers.                                                             *)

\* The layers share the calls out among them, and none is empty.
IsLayering(calls, ls) ==
  /\ ls \in Seq((SUBSET DOMAIN calls) \ {{}})
  /\ \A i \in DOMAIN calls : \E k \in DOMAIN ls : i \in ls[k]
  /\ \A k, l \in DOMAIN ls : ls[k] \cap ls[l] # {} => k = l

\* i has returned before j starts.
Before(ls, i, j) == \A k, l \in DOMAIN ls : i \in ls[k] /\ j \in ls[l] => k < l

LEMMA SeriallyLayers ==
  ASSUME NEW S, NEW calls \in Seq(S)
  PROVE  /\ IsLayering(calls, Serially(calls))
         /\ \A i, j \in DOMAIN calls : i < j => Before(Serially(calls), i, j)
<1> DEFINE ls == Serially(calls)
<1>1. ls = [i \in 1..Len(calls) |-> {i}] /\ Len(calls) \in Nat /\ DOMAIN calls = 1..Len(calls)
  BY DEF Serially
<1>2. ls \in Seq((SUBSET DOMAIN calls) \ {{}})
  BY <1>1
<1>3. DOMAIN ls = DOMAIN calls /\ \A k \in DOMAIN ls : ls[k] = {k}
  BY <1>1
<1> HIDE DEF ls
<1>4. IsLayering(calls, ls)
  BY <1>2, <1>3 DEF IsLayering
<1>5. \A i, j \in DOMAIN calls : i < j => Before(ls, i, j)
  BY <1>1, <1>3 DEF Before
<1> QED
  BY <1>4, <1>5 DEF ls

\* Kahn's layers, when there is no cycle.
LEMMA KahnLayers ==
  ASSUME NEW S, NEW calls \in Seq(S), NEW edges, Acyclic(calls, edges)
  PROVE  /\ IsLayering(calls, Layerize(calls, edges))
         /\ \A a \in Arcs(calls, edges) : Before(Layerize(calls, edges), a[1], a[2])
<1> DEFINE p == Placed(calls, edges)
           n == Len(calls)
           ls == Layerize(calls, edges)
<1>1. PICK m \in 0..n : Rounds(p) = 1..m
  BY RoundsCount
<1>2. ls = [k \in 1..m |-> p[k] \ p[k - 1]]
  BY <1>1 DEF Layerize
<1>3. /\ n \in Nat /\ m \in 0..n /\ DOMAIN calls = 1..n /\ DOMAIN p = 0..n
      /\ p[0] = {} /\ p[n] = DOMAIN calls
      /\ \A k \in 1..n : p[k] = Ready(calls, edges, p[k - 1])
      /\ \A k \in 0..n : p[k] \subseteq DOMAIN calls
  BY PlacedRounds DEF Acyclic
<1>4. \A k \in 0..n : \A j \in 0..k : p[j] \subseteq p[k]
  BY PlacedGrows
<1>5. \A k \in 1..n : p[k] # p[k - 1] <=> k \in 1..m
  <2>1. Rounds(p) = {k \in 1..n : p[k] # p[k - 1]}
    BY <1>3 DEF Rounds
  <2> HIDE DEF p
  <2> QED
    BY <1>1, <2>1
<1> HIDE DEF p, n, ls
<1>6. DOMAIN ls = 1..m /\ \A k \in 1..m : ls[k] = p[k] \ p[k - 1]
  BY <1>2
<1>7. ASSUME NEW k \in 1..m
      PROVE  ls[k] \in (SUBSET DOMAIN calls) \ {{}}
  <2>1. k \in 1..n /\ k \in 0..n /\ k - 1 \in 0..k
    BY <1>3
  <2>2. p[k - 1] \subseteq p[k] /\ p[k] # p[k - 1] /\ p[k] \subseteq DOMAIN calls
    BY <1>3, <1>4, <1>5, <2>1
  <2> QED
    BY <1>6, <2>2
<1>8. ls \in Seq((SUBSET DOMAIN calls) \ {{}})
  <2>1. m \in Nat
    BY <1>3
  <2>2. ls = [k \in 1..m |-> ls[k]]
    BY <1>2, <1>6, Zenon
  <2>3. ls \in [1..m -> (SUBSET DOMAIN calls) \ {{}}]
    BY <1>7, <2>2
  <2> QED
    BY <2>1, <2>3
<1>9. ASSUME NEW i \in DOMAIN calls
      PROVE  \E k \in DOMAIN ls : i \in ls[k]
  <2> DEFINE T == {k \in 0..n : i \in p[k]}
  <2>1. T \in SUBSET Nat /\ T # {}
    <3>1. n \in 0..n /\ i \in p[n]
      BY <1>3
    <3>2. n \in T
      BY <3>1
    <3>3. 0..n \subseteq Nat
      BY <1>3
    <3> QED
      BY <3>2, <3>3
  <2>2. PICK k \in T : \A y \in T : k <= y
    BY ONLY Least, <2>1
  <2>3. k \in 1..n /\ k - 1 \notin T /\ k - 1 \in 0..n
    BY <2>2, <1>3
  <2>4. i \in p[k] /\ i \notin p[k - 1]
    BY <2>2, <2>3
  <2>5. k \in 1..m
    BY <1>5, <2>3, <2>4
  <2> QED
    BY <1>6, <2>4, <2>5
<1>10. ASSUME NEW k \in DOMAIN ls, NEW l \in DOMAIN ls, k < l
       PROVE  ls[k] \cap ls[l] = {}
  <2>1. l - 1 \in 0..n /\ k \in 0..(l - 1)
    BY <1>3, <1>6, <1>10
  <2>2. p[k] \subseteq p[l - 1]
    BY <1>4, <2>1
  <2> QED
    BY <1>6, <2>2
<1>11. ASSUME NEW k \in DOMAIN ls, NEW l \in DOMAIN ls, ls[k] \cap ls[l] # {}
       PROVE  k = l
  <2>1. k \in Int /\ l \in Int
    BY <1>3, <1>6
  <2>2. ~(k < l) /\ ~(l < k)
    BY <1>10, <1>11
  <2> QED
    BY <2>1, <2>2
<1>12. ASSUME NEW a \in Arcs(calls, edges), NEW k \in DOMAIN ls, NEW l \in DOMAIN ls,
              a[1] \in ls[k], a[2] \in ls[l]
       PROVE  k < l
  <2>1. l \in 1..n /\ l - 1 \in 0..n /\ k \in 1..n /\ k - 1 \in 0..n
    BY <1>3, <1>6
  <2>2. a[1] \in p[l - 1]
    BY <1>3, <1>6, <1>12, <2>1 DEF Ready
  <2>3. a[1] \notin p[k - 1]
    BY <1>6, <1>12
  <2>4. ~(l - 1 <= k - 1)
    BY <1>4, <2>1, <2>2, <2>3
  <2> QED
    BY <2>1, <2>4
<1>13. \A a \in Arcs(calls, edges) : Before(ls, a[1], a[2])
  BY <1>12 DEF Before
<1> QED
  BY <1>8, <1>9, <1>11, <1>13 DEF IsLayering, ls

\* Whatever the edges: on a cycle the calls run one after the other.
LEMMA LayerizeLayers ==
  ASSUME NEW S, NEW calls \in Seq(S), NEW edges
  PROVE  IsLayering(calls, Layerize(calls, edges))
<1>1. CASE Acyclic(calls, edges)
  BY <1>1, KahnLayers
<1>2. CASE ~Acyclic(calls, edges)
  BY <1>2, SeriallyLayers DEF Layerize
<1> QED
  BY <1>1, <1>2

LEMMA PlanLayers ==
  ASSUME NEW S, NEW calls \in Seq(S), NEW config, NEW proposed
  PROVE  IsLayering(calls, PlanToolBatch(calls, config, proposed))
BY SeriallyLayers, LayerizeLayers DEF PlanToolBatch, BuildSchedule

----------------------------------------------------------------------------
(* The order of the calls.                                                 *)

\* Each call has an id of its own.
Distinct(calls) ==
  NoId \notin IdsOf(calls) /\ \A i, j \in DOMAIN calls : calls[i].id = calls[j].id => i = j

\* Counting the ids tells whether any call shares one.
LEMMA DistinctIds ==
  ASSUME NEW S, NEW calls \in Seq(S), NoId \notin IdsOf(calls),
         Cardinality(IdsOf(calls)) = Len(calls)
  PROVE  Distinct(calls)
<1> DEFINE f == [i \in 1..Len(calls) |-> calls[i].id]
<1>1. Len(calls) \in Nat /\ DOMAIN calls = 1..Len(calls)
  OBVIOUS
<1>2. f \in Surjection(1..Len(calls), IdsOf(calls))
  BY <1>1 DEF Surjection, IdsOf
<1>3. IsFiniteSet(1..Len(calls)) /\ Cardinality(1..Len(calls)) = Len(calls)
  <2>1. 1 \in Int /\ Len(calls) \in Int
    BY <1>1
  <2>2. /\ IsFiniteSet(1..Len(calls))
        /\ Cardinality(1..Len(calls)) = IF 1 > Len(calls) THEN 0 ELSE Len(calls) - 1 + 1
    BY ONLY <2>1, FS_Interval
  <2> QED
    BY <1>1, <2>2
<1>4. f \in Injection(1..Len(calls), IdsOf(calls))
  BY <1>2, <1>3, FS_Surjection
<1>5. \A i, j \in 1..Len(calls) : calls[i].id = calls[j].id => i = j
  BY <1>4 DEF Injection, IsInjective
<1> QED
  BY <1>1, <1>5 DEF Distinct

\* An id that the batch knows has an index, which is of a call with that id.
LEMMA IndexOfKnown ==
  ASSUME NEW S, NEW calls \in Seq(S), NEW id \in IdsOf(calls)
  PROVE  IndexOf(calls, id) \in DOMAIN calls /\ calls[IndexOf(calls, id)].id = id
<1> DEFINE T == {i \in DOMAIN calls : calls[i].id = id}
<1>1. Len(calls) \in Nat /\ DOMAIN calls = 1..Len(calls)
  OBVIOUS
<1>2. T \in SUBSET Nat /\ T # {} /\ \A i \in T : i <= Len(calls)
  BY <1>1 DEF IdsOf
<1>3. \E i \in T : \A y \in T : y <= i
  BY ONLY Greatest, <1>1, <1>2
<1>4. \E i \in DOMAIN calls :
        calls[i].id = id /\ \A j \in DOMAIN calls : calls[j].id = id => j <= i
  BY <1>3
<1> QED
  BY <1>4 DEF IndexOf

LEMMA IndexOfOwn ==
  ASSUME NEW S, NEW calls \in Seq(S), Distinct(calls), NEW i \in DOMAIN calls
  PROVE  IndexOf(calls, calls[i].id) = i
<1>1. calls[i].id \in IdsOf(calls)
  BY DEF IdsOf
<1> QED
  BY <1>1, IndexOfKnown DEF Distinct

\* A hard pair is an arc, among whatever other edges.
LEMMA PairIsArc ==
  ASSUME NEW S, NEW calls \in Seq(S), Distinct(calls), NEW extra,
         NEW i \in DOMAIN calls, NEW j \in DOMAIN calls, i < j, HardPair(calls, i, j)
  PROVE  <<i, j>> \in Arcs(calls, BuildHardEdges(calls) \cup extra)
<1> DEFINE e == <<calls[i].id, calls[j].id>>
<1>1. i \in 1..(j - 1) /\ i # j
  OBVIOUS
<1>2. calls[i].id \in IdsOf(calls) /\ calls[j].id \in IdsOf(calls)
  BY DEF IdsOf
<1>3. calls[i].id # NoId /\ calls[j].id # NoId /\ calls[i].id # calls[j].id
  BY <1>1, <1>2 DEF Distinct
<1>4. e \in BuildHardEdges(calls)
  BY <1>1, <1>2, <1>3 DEF BuildHardEdges, Proper
<1>5. e[1] \in IdsOf(calls) /\ e[2] \in IdsOf(calls)
  BY <1>2
<1>6. IndexOf(calls, e[1]) = i /\ IndexOf(calls, e[2]) = j
  BY IndexOfOwn
<1> HIDE DEF e
<1> QED
  BY <1>4, <1>5, <1>6 DEF Arcs

LEMMA BeforeTransitive ==
  ASSUME NEW S, NEW calls \in Seq(S), NEW ls, IsLayering(calls, ls),
         NEW i, NEW j \in DOMAIN calls, NEW k, Before(ls, i, j), Before(ls, j, k)
  PROVE  Before(ls, i, k)
<1>1. PICK l \in DOMAIN ls : j \in ls[l]
  BY DEF IsLayering
<1>2. \A m \in DOMAIN ls : m \in Int
  BY DEF IsLayering
<1> QED
  BY <1>1, <1>2 DEF Before

\* Hard pairs join neighbours on a path only; along them the order holds
\* between any two calls on that path.
LEMMA PathOrdered ==
  ASSUME NEW S, NEW calls \in Seq(S), NEW ls, IsLayering(calls, ls),
         \A i, j \in DOMAIN calls : i < j /\ NextOnPath(calls, i, j) => Before(ls, i, j),
         NEW i \in DOMAIN calls, NEW j \in DOMAIN calls, i < j,
         NEW p \in Paths(calls[i]) \cap Paths(calls[j])
  PROVE  Before(ls, i, j)
<1> DEFINE n == Len(calls)
           On == {k \in 1..n : p \in Paths(calls[k])}
           Bad == {k \in On : i < k /\ ~Before(ls, i, k)}
<1>1. n \in Nat /\ DOMAIN calls = 1..n /\ i \in On /\ j \in On
  OBVIOUS
<1>2. SUFFICES ASSUME Bad # {}
               PROVE  FALSE
  BY <1>1
<1>3. Bad \in SUBSET Nat
  BY <1>1
<1>4. PICK k \in Bad : \A y \in Bad : k <= y
  BY ONLY Least, <1>2, <1>3
<1> DEFINE Earlier == {m \in On : m < k}
<1>5. Earlier \in SUBSET Nat /\ i \in Earlier /\ \A m \in Earlier : m <= n
  BY <1>1, <1>4
<1>6. PICK m \in Earlier : \A y \in Earlier : y <= m
  BY ONLY Greatest, <1>1, <1>5
<1>7. m \in 1..n /\ k \in 1..n /\ m < k /\ i <= m /\ p \in Paths(calls[m]) /\ p \in Paths(calls[k])
  BY <1>4, <1>5, <1>6
<1>8. \A l \in (m + 1)..(k - 1) : p \notin Paths(calls[l])
  <2> SUFFICES ASSUME NEW l \in (m + 1)..(k - 1), p \in Paths(calls[l])
               PROVE  FALSE
    OBVIOUS
  <2>1. l \in Earlier
    BY <1>1, <1>7
  <2>2. m < l /\ l <= m
    BY <1>6, <1>7, <2>1
  <2> QED
    BY <1>7, <2>2
<1>9. NextOnPath(calls, m, k)
  BY <1>7, <1>8 DEF NextOnPath
<1>10. Before(ls, m, k)
  BY <1>1, <1>7, <1>9
<1>11. CASE m = i
  BY <1>4, <1>10, <1>11
<1>12. CASE m # i
  <2>1. i < m /\ m \in On
    BY <1>1, <1>7, <1>12
  <2>2. m \notin Bad
    BY <1>1, <1>4, <1>7
  <2>3. Before(ls, i, m)
    BY <2>1, <2>2
  <2>4. Before(ls, i, k)
    BY <1>1, <1>7, <1>10, <2>3, BeforeTransitive
  <2> QED
    BY <1>4, <2>4
<1> QED
  BY <1>11, <1>12

\* What a schedule looks like: one call after the other, or Kahn's layers of
\* the hard edges and some others, and then there is no cycle in them.
LEMMA PlanShapes ==
  ASSUME NEW S, NEW calls \in Seq(S), NEW config, NEW proposed
  PROVE  LET ls == PlanToolBatch(calls, config, proposed)
         IN \/ ls = Serially(calls)
            \/ \E extra : LET edges == BuildHardEdges(calls) \cup extra
                          IN Acyclic(calls, edges) /\ ls = Layerize(calls, edges)
BY DEF PlanToolBatch, BuildSchedule, Layerize

LEMMA PlanKeepsPairs ==
  ASSUME NEW S, NEW calls \in Seq(S), NEW config, NEW proposed, Distinct(calls),
         NEW i \in DOMAIN calls, NEW j \in DOMAIN calls, i < j, HardPair(calls, i, j)
  PROVE  Before(PlanToolBatch(calls, config, proposed), i, j)
<1> DEFINE ls == PlanToolBatch(calls, config, proposed)
<1>1. CASE ls = Serially(calls)
  BY <1>1, SeriallyLayers
<1>2. ASSUME NEW extra,
             Acyclic(calls, BuildHardEdges(calls) \cup extra),
             ls = Layerize(calls, BuildHardEdges(calls) \cup extra)
      PROVE  Before(ls, i, j)
  <2> DEFINE edges == BuildHardEdges(calls) \cup extra
  <2>1. <<i, j>> \in Arcs(calls, edges)
    BY PairIsArc
  <2> HIDE DEF edges
  <2>2. \A a \in Arcs(calls, edges) : Before(ls, a[1], a[2])
    BY <1>2, KahnLayers DEF edges
  <2> QED
    BY <2>1, <2>2
<1> QED
  BY <1>1, <1>2, PlanShapes

LEMMA PlanKeepsPaths ==
  ASSUME NEW S, NEW calls \in Seq(S), NEW config, NEW proposed, Distinct(calls),
         NEW i \in DOMAIN calls, NEW j \in DOMAIN calls, i < j,
         Paths(calls[i]) \cap Paths(calls[j]) # {}
  PROVE  Before(PlanToolBatch(calls, config, proposed), i, j)
<1> DEFINE ls == PlanToolBatch(calls, config, proposed)
<1>1. \A k, l \in DOMAIN calls : k < l /\ NextOnPath(calls, k, l) => Before(ls, k, l)
  BY PlanKeepsPairs DEF HardPair
<1>2. IsLayering(calls, ls)
  BY PlanLayers
<1>3. PICK p \in Paths(calls[i]) \cap Paths(calls[j]) : TRUE
  OBVIOUS
<1> HIDE DEF ls
<1>4. Before(ls, i, j)
  BY <1>1, <1>2, <1>3, PathOrdered
<1> QED
  BY <1>4 DEF ls

\* A proposal that is granted is obeyed.
LEMMA PlanGrants ==
  ASSUME NEW S, NEW calls \in Seq(S), NEW config, NEW proposed,
         proposed # {} => AsksPlanner(calls, config),
         ValidateExtraEdges(calls, BuildHardEdges(calls), proposed),
         NEW e \in proposed
  PROVE  /\ IndexOf(calls, e[1]) \in DOMAIN calls /\ IndexOf(calls, e[2]) \in DOMAIN calls
         /\ Before(PlanToolBatch(calls, config, proposed),
                   IndexOf(calls, e[1]), IndexOf(calls, e[2]))
<1> DEFINE edges == BuildHardEdges(calls) \cup proposed
           ls == PlanToolBatch(calls, config, proposed)
<1>1. ls = Layerize(calls, edges)
  BY DEF PlanToolBatch, BuildSchedule, AsksPlanner
<1>2. Acyclic(calls, edges)
  BY DEF ValidateExtraEdges
<1>3. e[1] \in IdsOf(calls) /\ e[2] \in IdsOf(calls) /\ e \in edges
  BY DEF ValidateExtraEdges
<1> HIDE DEF edges, ls
<1>4. <<IndexOf(calls, e[1]), IndexOf(calls, e[2])>> \in Arcs(calls, edges)
  BY <1>3 DEF Arcs
<1>5. Before(ls, IndexOf(calls, e[1]), IndexOf(calls, e[2]))
  BY <1>1, <1>2, <1>4, KahnLayers
<1> QED
  BY <1>3, <1>5, IndexOfKnown DEF ls

=============================================================================
