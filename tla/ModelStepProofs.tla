--------------------------- MODULE ModelStepProofs ---------------------------
(***************************************************************************)
(* Proofs about ModelStep: for conversations, batches and proposals of any *)
(* size, every protocol and every way in which an answer may end.          *)
(***************************************************************************)
EXTENDS ModelStep, ScheduleProofs

----------------------------------------------------------------------------
(* The lengths of the first messages together.                             *)

NextSum(ms, sums, k) == IF k = 0 THEN 0 ELSE sums[k - 1] + ms[k].size

LEMMA SumsExist ==
  ASSUME NEW ms, NEW n \in Nat
  PROVE  \E g : g = [k \in 0..n |-> NextSum(ms, g, k)]
<1> DEFINE Good(m) == \E g : g = [k \in 0..m |-> NextSum(ms, g, k)]
           Bad == {m \in Nat : ~Good(m)}
<1> SUFFICES ASSUME ~Good(n)
             PROVE  FALSE
  OBVIOUS
<1>1. PICK m \in Bad : \A y \in Bad : m <= y
  <2> HIDE DEF Good
  <2> QED
    BY Least
<1>2. CASE m = 0
  <2>1. [k \in 0..0 |-> 0] = [k \in 0..0 |-> NextSum(ms, [l \in 0..0 |-> 0], k)]
    BY DEF NextSum
  <2> QED
    BY <2>1, <1>2
<1>3. CASE m # 0
  <2>1. m \in Nat /\ m - 1 \in Nat
    BY <1>3
  <2>2. m - 1 \notin Bad
    BY <1>1, <2>1
  <2>3. PICK g : g = [k \in 0..(m - 1) |-> NextSum(ms, g, k)]
    BY <2>1, <2>2
  <2> DEFINE h == [k \in 0..m |-> IF k = m THEN g[m - 1] + ms[m].size ELSE g[k]]
  <2>4. ASSUME NEW k \in 0..m
        PROVE  h[k] = NextSum(ms, h, k)
    <3>1. CASE k = m
      BY <3>1, <2>1, <1>3 DEF NextSum
    <3>2. CASE k # m
      <4>1. k \in 0..(m - 1) /\ (k # 0 => k - 1 \in 0..m /\ k - 1 # m)
        BY <3>2, <2>1
      <4>2. g[k] = NextSum(ms, g, k)
        BY <2>3, <4>1
      <4>3. h[k] = g[k] /\ (k # 0 => h[k - 1] = g[k - 1])
        BY <3>2, <4>1
      <4> QED
        BY <4>2, <4>3 DEF NextSum
    <3> QED
      BY <3>1, <3>2
  <2>5. h = [k \in 0..m |-> NextSum(ms, h, k)]
    <3> HIDE DEF h
    <3>1. h = [k \in 0..m |-> h[k]]
      BY DEF h
    <3> QED
      BY <2>4, <3>1
  <2> QED
    BY <2>5
<1> QED
  BY <1>2, <1>3

LEMMA SumsStep ==
  ASSUME NEW S, NEW ms \in Seq(S)
  PROVE  /\ Sums(ms)[0] = 0
         /\ \A k \in 1..Len(ms) : Sums(ms)[k] = Sums(ms)[k - 1] + ms[k].size
<1> DEFINE Is(g) == g = [k \in 0..Len(ms) |-> NextSum(ms, g, k)]
           p == Sums(ms)
<1>0. Len(ms) \in Nat
  OBVIOUS
<1>1. p = CHOOSE g : Is(g)
  BY DEF Sums, NextSum
<1>2. \E g : Is(g)
  BY SumsExist, <1>0
<1>3. Is(p)
  <2> HIDE DEF Is
  <2> QED
    BY <1>1, <1>2
<1> HIDE DEF p
<1>4. \A k \in 0..Len(ms) : p[k] = NextSum(ms, p, k)
  BY <1>3
<1>5. p[0] = 0
  BY <1>0, <1>4 DEF NextSum
<1>6. \A k \in 1..Len(ms) : p[k] = p[k - 1] + ms[k].size
  BY <1>0, <1>4 DEF NextSum
<1> QED
  BY <1>5, <1>6 DEF p

LEMMA SizeTyped ==
  ASSUME NEW ms \in Seq(Message(Nat)), NEW i \in 1..Len(ms)
  PROVE  ms[i] \in Message(Nat) /\ ms[i].size \in Nat
<1>1. ms[i] \in Message(Nat)
  OBVIOUS
<1> QED
  BY <1>1 DEF Message

LEMMA SumsTyped ==
  ASSUME NEW ms \in Seq(Message(Nat)), NEW k \in 0..Len(ms)
  PROVE  Sums(ms)[k] \in Nat
<1> DEFINE n == Len(ms)
           p == Sums(ms)
           Bad == {i \in 0..n : p[i] \notin Nat}
<1>1. n \in Nat /\ k \in 0..n
  OBVIOUS
<1>2. p[0] = 0 /\ \A i \in 1..n : p[i] = p[i - 1] + ms[i].size
  BY SumsStep
<1>3. \A i \in 1..n : ms[i].size \in Nat
  BY SizeTyped
<1> HIDE DEF p, n
<1>4. SUFFICES ASSUME Bad # {}
               PROVE  FALSE
  BY <1>1 DEF p
<1>5. Bad \in SUBSET Nat
  BY <1>1
<1>6. PICK i \in Bad : \A y \in Bad : i <= y
  BY ONLY Least, <1>4, <1>5
<1>7. i # 0
  BY <1>2, <1>6
<1>8. i \in 1..n /\ i - 1 \in 0..n /\ i - 1 \notin Bad
  BY <1>1, <1>6, <1>7
<1>9. p[i - 1] \in Nat /\ p[i] = p[i - 1] + ms[i].size
  BY <1>2, <1>8
<1> QED
  BY <1>3, <1>6, <1>8, <1>9

\* One more message in front makes the lot longer by its length.
LEMMA CharsFront ==
  ASSUME NEW s \in Seq(Message(Nat)), NEW t \in Seq(Message(Nat)),
         Len(s) = Len(t) + 1, \A i \in 1..Len(t) : s[i + 1] = t[i]
  PROVE  Chars(t) \in Nat /\ Chars(s) = s[1].size + Chars(t)
<1> DEFINE n == Len(t)
           p == Sums(s)
           q == Sums(t)
           Bad == {i \in 0..n : p[i + 1] # s[1].size + q[i]}
<1>1. n \in Nat /\ Len(s) = n + 1 /\ s[1].size \in Nat
  <2>1. n \in Nat /\ Len(s) = n + 1 /\ 1 \in 1..Len(s)
    OBVIOUS
  <2> QED
    BY <2>1, SizeTyped
<1>2. /\ p[0] = 0 /\ \A i \in 1..(n + 1) : p[i] = p[i - 1] + s[i].size
      /\ q[0] = 0 /\ \A i \in 1..n : q[i] = q[i - 1] + t[i].size
  BY SumsStep
<1>3. \A i \in 0..n : q[i] \in Nat
  BY SumsTyped
<1>4. \A i \in 1..n : s[i + 1] = t[i] /\ t[i].size \in Nat
  BY SizeTyped
<1>5. Chars(s) = p[n + 1] /\ Chars(t) = q[n]
  BY <1>1 DEF Chars
<1> HIDE DEF p, q, n
<1>6. SUFFICES ASSUME Bad # {}
               PROVE  FALSE
  BY <1>1, <1>3, <1>5
<1>7. Bad \in SUBSET Nat
  BY <1>1
<1>8. PICK i \in Bad : \A y \in Bad : i <= y
  BY ONLY Least, <1>6, <1>7
<1>9. i # 0
  <2>1. p[1] = p[0] + s[1].size
    BY <1>1, <1>2
  <2> QED
    BY <1>1, <1>2, <1>8, <2>1
<1>10. i \in 1..n /\ i - 1 \in 0..n /\ i - 1 \notin Bad /\ i + 1 \in 1..(n + 1)
  BY <1>1, <1>8, <1>9
<1>11. p[i] = s[1].size + q[i - 1]
  BY <1>1, <1>10
<1>12. p[i + 1] = p[i] + s[i + 1].size /\ q[i] = q[i - 1] + t[i].size
  BY <1>1, <1>2, <1>10
<1>13. q[i - 1] \in Nat /\ s[i + 1] = t[i] /\ t[i].size \in Nat
  BY <1>3, <1>4, <1>10
<1>14. p[i + 1] = s[1].size + q[i]
  BY <1>1, <1>11, <1>12, <1>13
<1> QED
  BY <1>8, <1>14

----------------------------------------------------------------------------
(* What Build takes along.                                                 *)

LEMMA TruncatedTyped ==
  ASSUME NEW limit \in Nat, NEW m \in Message(Nat)
  PROVE  Truncated(m, limit) \in Message(Nat) /\ Truncated(m, limit).size \in Nat
BY BudgetAssumption DEF Truncated, Message

LEMMA NewestTyped ==
  ASSUME NEW limit \in Nat, NEW ms \in Seq(Message(Nat)), NEW k \in 0..Len(ms)
  PROVE  Newest(ms, k, limit) \in Seq(Message(Nat)) /\ Len(Newest(ms, k, limit)) = k
<1>1. k \in Nat /\ Len(ms) \in Nat
  OBVIOUS
<1>2. ASSUME NEW i \in 1..k
      PROVE  Truncated(ms[Len(ms) - k + i], limit) \in Message(Nat)
  <2>1. Len(ms) - k + i \in 1..Len(ms)
    BY <1>1
  <2> QED
    BY <2>1, SizeTyped, TruncatedTyped
<1>3. Newest(ms, k, limit) \in [1..k -> Message(Nat)]
  BY <1>2 DEF Newest
<1> QED
  BY <1>1, <1>3

LEMMA NewestFront ==
  ASSUME NEW limit \in Nat, NEW ms \in Seq(Message(Nat)), NEW k \in 1..Len(ms)
  PROVE  /\ Chars(Newest(ms, k - 1, limit)) \in Nat
         /\ Chars(Newest(ms, k, limit)) =
              Truncated(ms[Len(ms) - k + 1], limit).size + Chars(Newest(ms, k - 1, limit))
<1> DEFINE s == Newest(ms, k, limit)
           t == Newest(ms, k - 1, limit)
<1>1. k - 1 \in 0..Len(ms) /\ k \in 0..Len(ms) /\ Len(ms) \in Nat
  OBVIOUS
<1>2. s \in Seq(Message(Nat)) /\ t \in Seq(Message(Nat)) /\ Len(s) = Len(t) + 1 /\ Len(t) = k - 1
  <2>1. s \in Seq(Message(Nat)) /\ Len(s) = k
    BY <1>1, NewestTyped
  <2>2. t \in Seq(Message(Nat)) /\ Len(t) = k - 1
    BY <1>1, NewestTyped
  <2> QED
    BY <1>1, <2>1, <2>2
<1>3. s[1] = Truncated(ms[Len(ms) - k + 1], limit)
  BY <1>1 DEF Newest
<1>4. ASSUME NEW i \in 1..(k - 1)
      PROVE  s[i + 1] = t[i]
  <2>1. i + 1 \in 1..k /\ Len(ms) - k + (i + 1) = Len(ms) - (k - 1) + i
    BY <1>1
  <2> QED
    BY <2>1 DEF Newest
<1> HIDE DEF s, t
<1>5. Chars(t) \in Nat /\ Chars(s) = s[1].size + Chars(t)
  BY <1>2, <1>4, CharsFront
<1> QED
  BY <1>3, <1>5 DEF s, t

LEMMA NewestNothing ==
  ASSUME NEW limit \in Nat, NEW ms \in Seq(Message(Nat))
  PROVE  Chars(Newest(ms, 0, limit)) = 0
<1>1. Newest(ms, 0, limit) \in Seq(Message(Nat)) /\ Len(Newest(ms, 0, limit)) = 0
  BY NewestTyped
<1> QED
  BY <1>1, SumsStep DEF Chars

\* One round of Build's loop over the messages.
NextTaken(ms, taken, k, limit) ==
  IF k = 0 THEN [start |-> Len(ms) + 1, used |-> 0]
  ELSE LET so == taken[k - 1]
           i == Len(ms) - k + 1
           size == Truncated(ms[i], limit).size
       IN IF so.start = i + 1 /\ ~Panics(ms[i], limit) /\ so.used + size <= Available
          THEN [start |-> i, used |-> so.used + size]
          ELSE so

LEMMA TakenExists ==
  ASSUME NEW limit \in Nat, NEW ms, NEW n \in Nat
  PROVE  \E g : g = [k \in 0..n |-> NextTaken(ms, g, k, limit)]
<1> DEFINE Good(m) == \E g : g = [k \in 0..m |-> NextTaken(ms, g, k, limit)]
           Bad == {m \in Nat : ~Good(m)}
<1> SUFFICES ASSUME ~Good(n)
             PROVE  FALSE
  OBVIOUS
<1>0. ASSUME NEW k, NEW g, NEW h, k # 0 => g[k - 1] = h[k - 1]
      PROVE  NextTaken(ms, g, k, limit) = NextTaken(ms, h, k, limit)
  BY <1>0 DEF NextTaken
<1>1. PICK m \in Bad : \A y \in Bad : m <= y
  <2> HIDE DEF Good
  <2> QED
    BY Least
<1>2. CASE m = 0
  <2> DEFINE h == [k \in 0..0 |-> NextTaken(ms, 0, k, limit)]
  <2>1. ASSUME NEW k \in 0..0
        PROVE  NextTaken(ms, 0, k, limit) = NextTaken(ms, h, k, limit)
    <3>1. k = 0
      OBVIOUS
    <3> QED
      BY <1>0, <3>1
  <2>2. h = [k \in 0..0 |-> NextTaken(ms, h, k, limit)]
    <3> HIDE DEF NextTaken
    <3> QED
      BY <2>1
  <2> QED
    BY <2>2, <1>2
<1>3. CASE m # 0
  <2>1. m \in Nat /\ m - 1 \in Nat
    BY <1>3
  <2>2. m - 1 \notin Bad
    BY <1>1, <2>1
  <2>3. PICK g : g = [k \in 0..(m - 1) |-> NextTaken(ms, g, k, limit)]
    BY <2>1, <2>2
  <2> DEFINE h == [k \in 0..m |-> IF k = m THEN NextTaken(ms, g, m, limit) ELSE g[k]]
  <2>4. ASSUME NEW k \in 0..m
        PROVE  h[k] = NextTaken(ms, h, k, limit)
    <3>1. k # 0 => k - 1 \in 0..m /\ k - 1 # m
      BY <2>1
    <3>2. k # 0 => h[k - 1] = g[k - 1]
      BY <3>1
    <3>3. NextTaken(ms, h, k, limit) = NextTaken(ms, g, k, limit)
      BY <1>0, <3>2
    <3>4. h[k] = NextTaken(ms, g, k, limit)
      <4>1. CASE k = m
        BY <4>1
      <4>2. CASE k # m
        <5>1. k \in 0..(m - 1)
          BY <4>2, <2>1
        <5>2. g[k] = NextTaken(ms, g, k, limit)
          BY <2>3, <5>1
        <5> QED
          BY <4>2, <5>2
      <4> QED
        BY <4>1, <4>2
    <3> QED
      BY <3>3, <3>4
  <2>5. h = [k \in 0..m |-> NextTaken(ms, h, k, limit)]
    <3> HIDE DEF h
    <3>1. h = [k \in 0..m |-> h[k]]
      BY DEF h
    <3> QED
      BY <2>4, <3>1
  <2> QED
    BY <2>5
<1> QED
  BY <1>2, <1>3

LEMMA TakenStep ==
  ASSUME NEW limit \in Nat, NEW S, NEW ms \in Seq(S)
  PROVE  \A k \in 0..Len(ms) : Taken(ms, limit)[k] = NextTaken(ms, Taken(ms, limit), k, limit)
<1> DEFINE Is(g) == g = [k \in 0..Len(ms) |-> NextTaken(ms, g, k, limit)]
           p == Taken(ms, limit)
<1>0. Len(ms) \in Nat
  OBVIOUS
<1>1. p = CHOOSE g : Is(g)
  BY DEF Taken, NextTaken
<1>2. \E g : Is(g)
  BY TakenExists, <1>0
<1>3. Is(p)
  <2> HIDE DEF Is
  <2> QED
    BY <1>1, <1>2
<1> HIDE DEF p
<1>4. \A k \in 0..Len(ms) : p[k] = NextTaken(ms, p, k, limit)
  BY <1>3
<1> QED
  BY <1>4 DEF p

\* What is taken along after k rounds: the messages from start on, which fit,
\* and one more would not, or cannot be cut, if the loop is over.
Holds(ms, so, k, limit) ==
  /\ so \in [start : 1..(Len(ms) + 1), used : Nat]
  /\ Len(ms) - k + 1 <= so.start
  /\ so.used = Chars(Newest(ms, Len(ms) - so.start + 1, limit)) /\ so.used <= Available
  /\ Len(ms) - k + 1 < so.start =>
       \/ Panics(ms[so.start - 1], limit)
       \/ Chars(Newest(ms, Len(ms) - so.start + 2, limit)) > Available

LEMMA TakenHolds ==
  ASSUME NEW limit \in Nat, NEW ms \in Seq(Message(Nat)), Available \in Nat
  PROVE  \A k \in 0..Len(ms) : Holds(ms, Taken(ms, limit)[k], k, limit)
<1> DEFINE n == Len(ms)
           p == Taken(ms, limit)
           Bad == {k \in 0..n : ~Holds(ms, p[k], k, limit)}
<1>1. n \in Nat /\ \A k \in 0..n : p[k] = NextTaken(ms, p, k, limit)
  BY TakenStep
<1> HIDE DEF p
<1>2. SUFFICES ASSUME Bad # {}
               PROVE  FALSE
  BY DEF p
<1>3. Bad \in SUBSET Nat
  BY <1>1
<1>4. PICK k \in Bad : \A y \in Bad : k <= y
  BY ONLY Least, <1>2, <1>3
<1>5. k \in 0..n /\ ~Holds(ms, p[k], k, limit)
  BY <1>4
<1>6. k # 0
  <2> SUFFICES ASSUME k = 0
               PROVE  FALSE
    OBVIOUS
  <2>1. p[0] = [start |-> n + 1, used |-> 0]
    BY <1>1 DEF NextTaken
  <2>2. p[0] \in [start : 1..(n + 1), used : Nat] /\ p[0].start = n + 1 /\ p[0].used = 0
    BY <1>1, <2>1
  <2>3. n - (n + 1) + 1 = 0
    BY <1>1
  <2>4. Holds(ms, p[0], 0, limit)
    BY <1>1, <2>2, <2>3, NewestNothing DEF Holds
  <2> QED
    BY <1>5, <2>4
<1>7. k \in 1..n /\ k - 1 \in 0..n /\ k - 1 \notin Bad
  BY <1>1, <1>4, <1>5, <1>6
<1> DEFINE so == p[k - 1]
           i == n - k + 1
           size == Truncated(ms[i], limit).size
<1>8. Holds(ms, so, k - 1, limit)
  BY <1>7
<1>9. p[k] = IF so.start = i + 1 /\ ~Panics(ms[i], limit) /\ so.used + size <= Available
             THEN [start |-> i, used |-> so.used + size] ELSE so
  BY <1>1, <1>5, <1>6 DEF NextTaken
<1>10. i \in 1..n /\ size \in Nat /\ n - i + 1 = k /\ n - (i + 1) + 1 = k - 1
  <2>1. i \in 1..n
    BY <1>1, <1>7
  <2> QED
    BY <1>1, <1>7, <2>1, SizeTyped, TruncatedTyped
<1>11. /\ Chars(Newest(ms, k - 1, limit)) \in Nat
       /\ Chars(Newest(ms, k, limit)) = size + Chars(Newest(ms, k - 1, limit))
  BY <1>7, NewestFront
<1> HIDE DEF so, size
<1>12. CASE so.start = i + 1 /\ ~Panics(ms[i], limit) /\ so.used + size <= Available
  <2>1. p[k] \in [start : 1..(n + 1), used : Nat] /\ p[k].start = i /\ p[k].used = so.used + size
    <3>1. so.used \in Nat
      BY <1>8 DEF Holds
    <3>2. so.used + size \in Nat /\ i \in 1..(n + 1)
      BY <1>1, <1>10, <3>1
    <3>3. p[k] = [start |-> i, used |-> so.used + size]
      BY <1>9, <1>12
    <3> QED
      BY <3>2, <3>3
  <2>2. so.used = Chars(Newest(ms, k - 1, limit))
    BY <1>8, <1>10, <1>12 DEF Holds
  <2>3. Holds(ms, p[k], k, limit)
    BY <1>1, <1>7, <1>10, <1>11, <1>12, <2>1, <2>2 DEF Holds
  <2> QED
    BY <1>5, <2>3
<1>13. CASE so.start = i + 1 /\ ~(~Panics(ms[i], limit) /\ so.used + size <= Available)
  <2>1. p[k] = so
    BY <1>9, <1>13
  <2>2. so.used = Chars(Newest(ms, k - 1, limit))
    BY <1>8, <1>10, <1>13 DEF Holds
  <2>3. n - so.start + 2 = k
    BY <1>1, <1>7, <1>13
  <2>4. Panics(ms[so.start - 1], limit) \/ Chars(Newest(ms, k, limit)) > Available
    <3>1. so.start - 1 = i /\ Available \in Nat
      BY <1>10, <1>13
    <3> QED
      BY <1>10, <1>11, <1>13, <2>2, <3>1
  <2>5. Holds(ms, p[k], k, limit)
    BY <1>1, <1>7, <1>8, <2>1, <2>3, <2>4 DEF Holds
  <2> QED
    BY <1>5, <2>5
<1>14. CASE so.start # i + 1
  <2>1. p[k] = so
    BY <1>9, <1>14
  <2>2. so.start \in 1..(n + 1) /\ n - (k - 1) + 1 < so.start
    BY <1>1, <1>7, <1>8, <1>14 DEF Holds
  <2>3. Holds(ms, p[k], k, limit)
    BY <1>1, <1>7, <1>8, <2>1, <2>2 DEF Holds
  <2> QED
    BY <1>5, <2>3
<1> QED
  BY <1>12, <1>13, <1>14

LEMMA AvailableTyped == Available \in Int
<1>1. \A budget \in Int : budget \div 10 \in Int
  BY SMT
<1>2. BudgetChars \in Int /\ OutputReserveChars \in Int
  BY BudgetAssumption, SMT
<1> QED
  BY <1>1, <1>2, SMT DEF Available

\* What Build returns is the newest end of the conversation, as much as fits.
LEMMA BuildIsRecent ==
  ASSUME NEW limit \in Nat, NEW ms \in Seq(Message(Nat)), ms # <<>>,
         ~Panicked(ms, limit), ~Exceeded(ms, limit)
  PROVE  LET sends == Build(ms, limit)
             n == Len(sends)
         IN /\ sends \in Seq(Message(Nat)) /\ n > 0
            /\ sends = Newest(ms, n, limit) /\ Chars(sends) <= Available
            /\ n < Len(ms) => Chars(Newest(ms, n + 1, limit)) > Available
<1> DEFINE so == Taken(ms, limit)[Len(ms)]
           n == Len(ms) - so.start + 1
<1>1. /\ Len(ms) \in Nat /\ Available \in Nat /\ Available > 0 /\ so.start = Start(ms, limit)
      /\ ~(so.start > Len(ms))
  BY AvailableTyped DEF Exceeded, Start
<1>0. so.start > 1 => ~Panics(ms[so.start - 1], limit)
  BY <1>1 DEF Panicked
<1>2. Holds(ms, so, Len(ms), limit)
  BY <1>1, TakenHolds
<1> HIDE DEF so
<1>3. so.start \in 1..Len(ms) /\ n \in 1..Len(ms)
  <2>1. so.start \in Nat /\ so.start >= 1
    BY <1>2 DEF Holds
  <2> QED
    BY <1>1, <2>1
<1>4. Build(ms, limit) = Newest(ms, n, limit)
  <2>1. \A i \in 1..n : so.start + i - 1 = Len(ms) - n + i
    BY <1>1, <1>3
  <2> QED
    BY <1>1, <2>1 DEF Build, Newest
<1>5. Newest(ms, n, limit) \in Seq(Message(Nat)) /\ Len(Newest(ms, n, limit)) = n
  BY <1>1, <1>3, NewestTyped
<1>6. Chars(Newest(ms, n, limit)) <= Available
  BY <1>2 DEF Holds
<1>7. n < Len(ms) => Chars(Newest(ms, n + 1, limit)) > Available
  <2>1. n < Len(ms) => Len(ms) - Len(ms) + 1 < so.start
    BY <1>1, <1>3
  <2>2. n + 1 = Len(ms) - so.start + 2
    BY <1>1, <1>3
  <2>3. n < Len(ms) => so.start > 1
    BY <1>1, <1>3
  <2> QED
    BY <1>0, <1>2, <2>1, <2>2, <2>3 DEF Holds
<1> HIDE DEF n
<1> QED
  BY <1>3, <1>4, <1>5, <1>6, <1>7

\* A conversation is refused for its last message only.
LEMMA ExceededIsLong ==
  ASSUME NEW limit \in Nat, NEW ms \in Seq(Message(Nat)), ms # <<>>, Exceeded(ms, limit)
  PROVE  Available <= 0 \/ Chars(Newest(ms, 1, limit)) > Available
<1> SUFFICES ASSUME ~(Available <= 0)
             PROVE  Chars(Newest(ms, 1, limit)) > Available
  OBVIOUS
<1> DEFINE so == Taken(ms, limit)[Len(ms)]
<1>1. /\ Len(ms) \in Nat \ {0} /\ Available \in Nat /\ Available > 0 /\ so.start = Start(ms, limit)
      /\ so.start > Len(ms) /\ ~Panicked(ms, limit)
  BY AvailableTyped DEF Exceeded, Start
<1>2. Holds(ms, so, Len(ms), limit)
  BY <1>1, TakenHolds
<1> HIDE DEF so
<1>3. Len(ms) - so.start + 2 = 1 /\ Len(ms) - Len(ms) + 1 < so.start /\ so.start > 1
  BY <1>1, <1>2 DEF Holds
<1>4. ~Panics(ms[so.start - 1], limit)
  BY <1>1, <1>3 DEF Panicked
<1> QED
  BY <1>2, <1>3, <1>4 DEF Holds

\* Build panics at a tool result that is to be cut to 32 characters.
LEMMA PanicIsAtLimit ==
  ASSUME NEW limit \in Nat, NEW ms \in Seq(Message(Nat)), Panicked(ms, limit)
  PROVE  limit = 32 /\ \E i \in DOMAIN ms : TooLong(ms[i], limit)
<1> DEFINE so == Taken(ms, limit)[Len(ms)]
           i == so.start - 1
<1>1. /\ Len(ms) \in Nat /\ Available \in Nat /\ so.start = Start(ms, limit) /\ so.start > 1
      /\ Panics(ms[i], limit)
  BY AvailableTyped DEF Panicked, Start
<1>2. Holds(ms, so, Len(ms), limit)
  BY <1>1, TakenHolds
<1> HIDE DEF so
<1>3. i \in DOMAIN ms
  BY <1>1, <1>2 DEF Holds
<1>4. limit \in Nat /\ limit >= 32 /\ EndKept(limit) < 0 /\ TooLong(ms[i], limit)
  BY <1>1, BudgetAssumption DEF Panics
<1>5. \A n \in Nat : n >= 32 /\ n - n \div 2 - 17 < 0 => n = 32
  OBVIOUS
<1>6. limit = 32
  BY <1>4, <1>5 DEF EndKept
<1> QED
  BY <1>3, <1>4, <1>6

----------------------------------------------------------------------------
(* The invariant.                                                          *)

Item == [call : Call, pieces : 0..Pieces, heard : BOOLEAN, got : Seq(Nat \X Nat), ended : BOOLEAN]

Typed ==
  /\ messages \in Seq(Message(Nat)) /\ sent \in Seq(Message(Nat)) /\ toolLimit \in Nat
  /\ protocol \in Protocols \cup {"none"} /\ (protocol # "none" <=> phase = "stream")
  /\ phase \in {"context", "request", "stream", "plan", "run", "done"}
  /\ tries \in 0..3 /\ (phase \in {"context", "request"} => tries < 3)
  /\ cancelled \in BOOLEAN /\ lossy \in BOOLEAN
  /\ wire \in Seq(Item) /\ Len(wire) <= MaxCalls
  /\ over \in {"open", "done", "cut"}
  /\ batch \in Seq(Call) /\ Len(batch) <= MaxCalls
  /\ outcome \in {"none", "answered", "incomplete", "ran", "failed", "cancelled", "panicked"}
  /\ (phase = "done" <=> outcome # "none")

\* What a round with this outcome has made of its messages.
Made(ms, sends, result, limit) ==
  \/ Panicked(ms, limit) /\ sends = <<>> /\ result = "panicked"
  \/ ~Panicked(ms, limit) /\ Exceeded(ms, limit) /\ sends = <<>> /\ result = "failed"
  \/ ~Panicked(ms, limit) /\ ~Exceeded(ms, limit) /\ sends = Build(ms, limit) /\ result # "panicked"

\* The request holds what Build returned, or there was none to make.
RequestHolds ==
  /\ phase = "context" => messages # <<>> /\ sent = <<>>
  /\ phase = "request" =>
       /\ messages # <<>> /\ ~Panicked(messages, toolLimit) /\ ~Exceeded(messages, toolLimit)
       /\ sent = Build(messages, toolLimit)
  /\ phase \in {"stream", "plan", "run"} => messages = <<>>
  /\ phase = "done" => IF messages = <<>> THEN outcome \notin {"failed", "panicked"}
                       ELSE Made(messages, sent, outcome, toolLimit)

Ended(items) == {i \in DOMAIN items : items[i].ended}

\* No other call has the id of call k.
Own(items, k) == \A j \in DOMAIN items : items[j].call.id = items[k].call.id => j = k

\* What consume has gathered for a call with an id of its own: nothing before
\* its first fragment, and all that was sent if nothing was lost.
FragmentsOK(items, loses) ==
  \A k \in DOMAIN items : Own(items, k) =>
    /\ items[k].pieces = 0 => items[k].got = <<>>
    /\ ~loses => items[k].heard /\ items[k].got = [p \in 1..items[k].pieces |-> <<k, p>>]

\* A call that consume hands over with arguments arrived in full.
Complete(calls, items) ==
  \A i \in DOMAIN calls : \A k \in DOMAIN items :
    calls[i].path # NoPath /\ items[k].call.id = calls[i].id /\ Own(items, k) =>
      items[k].pieces = Pieces /\ items[k].call = calls[i]

\* Each call that consume hands over has the id of a call of the answer.
Known(calls, items) ==
  \A i \in DOMAIN calls : \E k \in DOMAIN items : items[k].call.id = calls[i].id

\* The parser hands over the arguments, or nothing was lost.
Safe(kind, loses) == kind = "anthropic" => ~loses

\* consume returns at most one call for each that ended.
StreamHolds ==
  /\ phase \in {"context", "request"} => wire = <<>> /\ batch = <<>> /\ lossy = FALSE
  /\ phase = "stream" =>
       /\ Len(batch) <= Cardinality(Ended(wire)) /\ Known(batch, wire)
       /\ FragmentsOK(wire, lossy) /\ (Safe(protocol, lossy) => Complete(batch, wire))
  /\ phase = "plan" => batch # <<>>

\* The layers up to the one at work have run, those behind it have not.
Reached(ls, l, pend, fly, rs) ==
  /\ pend \cup fly \subseteq ls[l] /\ pend \cap fly = {}
  /\ \A k \in DOMAIN ls : \A i \in ls[k] :
       rs[i] = IF k < l \/ (k = l /\ i \notin pend) THEN 1 ELSE 0

\* The layers keep apart what conflicts, and keep the edges that were granted.
Keeps(calls, ls, edges) ==
  /\ \A i, j \in DOMAIN calls : i < j /\ Conflict(calls, i, j) => Before(ls, i, j)
  /\ \A e \in edges :
       /\ {IndexOf(calls, e[1]), IndexOf(calls, e[2])} \subseteq DOMAIN calls
       /\ Before(ls, IndexOf(calls, e[1]), IndexOf(calls, e[2]))

RunHolds ==
  /\ ~Started => layers = <<>> /\ extra = {} /\ layer = 0 /\ pending = {} /\ flying = {}
  /\ Started =>
       /\ IsLayering(batch, layers) /\ Keeps(batch, layers, extra)
       /\ layer \in DOMAIN layers /\ runs \in [DOMAIN batch -> {0, 1}]
       /\ Reached(layers, layer, pending, flying, runs)
  /\ outcome = "ran" => pending = {} /\ flying = {} /\ layer = Len(layers)

Inv == Typed /\ RequestHolds /\ StreamHolds /\ RunHolds

----------------------------------------------------------------------------
(* Types.                                                                  *)

LEMMA InitTyped == Init => Typed
<1> SUFFICES ASSUME Init
             PROVE  Typed
  OBVIOUS
<1>1. messages \in Seq(Message(Nat))
  <2>1. PICK n \in 1..MaxMessages : messages \in [1..n -> Message(Sizes)]
    BY DEF Init, Conversations
  <2>2. Message(Sizes) \subseteq Message(Nat)
    BY SizesAssumption DEF Message
  <2>3. messages \in [1..n -> Message(Nat)] /\ n \in Nat
    BY <2>1, <2>2, SizesAssumption
  <2> QED
    BY <2>3
<1>2. cancelled \in BOOLEAN /\ lossy \in BOOLEAN
  BY Zenon DEF Init
<1>3. /\ sent = <<>> /\ wire = <<>> /\ batch = <<>> /\ over = "open" /\ outcome = "none"
      /\ protocol = "none" /\ phase = "context" /\ tries = 0
  BY Zenon DEF Init
<1>4. toolLimit \in Nat
  BY SizesAssumption DEF Init
<1> QED
  BY <1>1, <1>2, <1>3, <1>4, BoundsAssumption DEF Typed

\* A call with other arguments is still a call.
LEMMA CallWithPath ==
  ASSUME NEW c \in Call, NEW path \in AskedPaths
  PROVE  /\ [c EXCEPT !.path = path] \in Call /\ [c EXCEPT !.path = path].path = path
         /\ [c EXCEPT !.path = path].id = c.id
         /\ path = c.path => [c EXCEPT !.path = path] = c
BY DEF Call

LEMMA HolderKnown ==
  ASSUME wire \in Seq(Item), NEW i \in DOMAIN wire
  PROVE  /\ \A k \in Holder(i) : k \in DOMAIN wire /\ wire[k].call.id = wire[i].call.id
         /\ Own(wire, i) => Holder(i) \subseteq {i}
         /\ Own(wire, i) /\ wire[i].heard => i \in Holder(i)
<1> DEFINE same == {k \in DOMAIN wire : wire[k].heard /\ wire[k].call.id = wire[i].call.id}
<1>1. Holder(i) = {k \in same : \A j \in same : j <= k}
  BY DEF Holder
<1>2. Own(wire, i) => same \subseteq {i}
  BY DEF Own
<1>3. Own(wire, i) /\ wire[i].heard => same = {i}
  BY <1>2
<1>4. i \in Nat
  OBVIOUS
<1> QED
  BY <1>1, <1>2, <1>3, <1>4

\* The paths that may be read are paths.
LEMMA PathsTyped ==
  ASSUME wire \in Seq(Item), NEW got
  PROVE  PathsIn(got) \subseteq AskedPaths
<1>1. ASSUME NEW k \in DOMAIN wire, got = Whole(k)
      PROVE  wire[got[1][1]].call.path \in AskedPaths
  <2>1. got[1] = <<k, 1>> /\ wire[k] \in Item
    BY <1>1, BoundsAssumption DEF Whole
  <2> QED
    BY <2>1 DEF Item, Call
<1> QED
  BY <1>1 DEF PathsIn, AskedPaths

\* What consume hands over is a call, with the id of a call of the answer.
LEMMA ConsumedKnown ==
  ASSUME wire \in Seq(Item), NEW i \in DOMAIN wire, NEW call \in Consumed(i)
  PROVE  call \in Call /\ call.id = wire[i].call.id
<1> DEFINE item == IF Holder(i) = {} THEN wire[i] ELSE wire[CHOOSE k \in Holder(i) : TRUE]
           paths == IF protocol # "anthropic" /\ wire[i].pieces > 0
                    THEN {IF wire[i].pieces = Pieces THEN wire[i].call.path ELSE NoPath}
                    ELSE PathsIn(item.got)
<1>1. PICK path \in paths : call = [item.call EXCEPT !.path = path]
  BY DEF Consumed
<1>2. item \in Item /\ item.call.id = wire[i].call.id
  BY HolderKnown
<1>3. wire[i] \in Item
  OBVIOUS
<1> HIDE DEF item
<1>4. path \in AskedPaths
  BY <1>1, <1>3, PathsTyped DEF Item, Call, AskedPaths
<1>5. item.call \in Call
  BY <1>2 DEF Item
<1> QED
  BY <1>1, <1>2, <1>4, <1>5, CallWithPath

\* With an id of its own and no fragment lost, or handed over by the parser, a
\* call has the arguments with which the model sent it, or none.
LEMMA ConsumedWhole ==
  ASSUME wire \in Seq(Item), NEW i \in DOMAIN wire, NEW call \in Consumed(i), call.path # NoPath,
         Own(wire, i), FragmentsOK(wire, lossy), Safe(protocol, lossy)
  PROVE  wire[i].pieces = Pieces /\ wire[i].call = call
<1> DEFINE got == wire[i].got
           n == wire[i].pieces
<1>1. wire[i] \in Item /\ n \in Nat /\ wire[i].call \in Call
  <2>1. wire[i] \in Item
    OBVIOUS
  <2>2. wire[i].pieces \in 0..Pieces /\ wire[i].call \in Call
    BY <2>1 DEF Item
  <2> QED
    BY <2>1, <2>2, BoundsAssumption
<1>2. (IF Holder(i) = {} THEN wire[i] ELSE wire[CHOOSE k \in Holder(i) : TRUE]) = wire[i]
  BY HolderKnown
<1>3. PICK path \in IF protocol # "anthropic" /\ n > 0
                    THEN {IF n = Pieces THEN wire[i].call.path ELSE NoPath}
                    ELSE PathsIn(got) :
        call = [wire[i].call EXCEPT !.path = path]
  BY <1>2 DEF Consumed
<1>4. path \in AskedPaths
  BY <1>1, <1>3, PathsTyped DEF Item, Call, AskedPaths
<1>5. call.path = path /\ (path = wire[i].call.path => call = wire[i].call)
  BY <1>1, <1>3, <1>4, CallWithPath
<1>6. CASE protocol # "anthropic" /\ n > 0
  BY <1>3, <1>5, <1>6
<1>7. CASE ~(protocol # "anthropic" /\ n > 0)
  <2>1. path \in PathsIn(got) /\ path # NoPath
    BY <1>3, <1>5, <1>7
  <2>2. got = [p \in 1..n |-> <<i, p>>]
    <3>1. CASE protocol = "anthropic"
      BY <3>1 DEF Safe, FragmentsOK
    <3>2. CASE n = 0
      <4>1. got = <<>>
        BY <3>2 DEF FragmentsOK
      <4>2. 1..n = {}
        BY <3>2
      <4>3. [p \in 1..n |-> <<i, p>>] = <<>>
        BY <4>2
      <4> QED
        BY <4>1, <4>3
    <3> QED
      BY <1>1, <1>7, <3>1, <3>2
  <2>3. DOMAIN got = 1..n /\ Len(got) = n /\ \A p \in 1..n : got[p] = <<i, p>>
    BY <1>1, <2>2
  <2> HIDE DEF got, n
  <2>4. CASE \E k \in DOMAIN wire : got = Whole(k)
    <3>1. PICK k \in DOMAIN wire : got = Whole(k)
      BY <2>4
    <3>2. DOMAIN got = 1..Pieces
      BY <3>1 DEF Whole
    <3>3. n = Pieces
      BY <1>1, <2>3, <3>2, BoundsAssumption
    <3>4. got[1] = <<i, 1>>
      BY <2>3, <3>3, BoundsAssumption
    <3>5. path = wire[i].call.path
      BY <2>1, <2>4, <3>4 DEF PathsIn
    <3> QED
      BY <1>5, <3>3, <3>5 DEF n
  <2>5. CASE ~\E k \in DOMAIN wire : got = Whole(k)
    <3>1. MayMatch(got)
      BY <2>1, <2>5 DEF PathsIn
    <3>2. got # <<>> /\ got[n][2] = Pieces
      BY <2>3, <3>1 DEF MayMatch
    <3>3. n # 0
      BY <2>2, <3>2
    <3>4. n = Pieces
      BY <1>1, <2>3, <3>2, <3>3
    <3>5. got = Whole(i)
      BY <2>2, <3>4 DEF Whole
    <3> QED
      BY <2>5, <3>5
  <2> QED
    BY <2>4, <2>5
<1> QED
  BY <1>6, <1>7

\* The calls of an answer stay a sequence of items, and the list of those that
\* ended grows by one at most.
LEMMA AppendItem ==
  ASSUME NEW items \in Seq(Item), NEW item \in Item, ~item.ended
  PROVE  /\ Append(items, item) \in Seq(Item)
         /\ Len(Append(items, item)) = Len(items) + 1
         /\ Ended(Append(items, item)) = Ended(items)
         /\ \A k \in DOMAIN items :
              k \in DOMAIN Append(items, item) /\ Append(items, item)[k] = items[k]
<1> DEFINE more == Append(items, item)
<1>1. /\ more \in Seq(Item) /\ Len(more) = Len(items) + 1 /\ Len(items) \in Nat
      /\ DOMAIN items = 1..Len(items) /\ DOMAIN more = 1..(Len(items) + 1)
      /\ \A k \in DOMAIN items : more[k] = items[k]
      /\ more[Len(items) + 1] = item
  OBVIOUS
<1> HIDE DEF more
<1>2. Ended(more) = Ended(items)
  <2>1. \A k \in DOMAIN more : k \in DOMAIN items \/ k = Len(items) + 1
    BY <1>1
  <2>2. \A k \in DOMAIN items : k \in DOMAIN more
    BY <1>1
  <2> QED
    BY <1>1, <2>1, <2>2 DEF Ended
<1>3. \A k \in DOMAIN items : k \in DOMAIN more /\ more[k] = items[k]
  BY <1>1
<1> QED
  BY <1>1, <1>2, <1>3 DEF more

LEMMA UpdateItem ==
  ASSUME NEW items \in Seq(Item), NEW i \in DOMAIN items, NEW item \in Item
  PROVE  /\ [items EXCEPT ![i] = item] \in Seq(Item)
         /\ Len([items EXCEPT ![i] = item]) = Len(items)
         /\ DOMAIN [items EXCEPT ![i] = item] = DOMAIN items
         /\ \A k \in DOMAIN items :
              [items EXCEPT ![i] = item][k] = IF k = i THEN item ELSE items[k]
OBVIOUS

\* A fragment makes its call longer, and what has been gathered of its holder.
LEMMA FragmentItem ==
  ASSUME wire \in Seq(Item), NEW i \in DOMAIN wire, NEW arrives \in BOOLEAN, Fragment(i, arrives)
  PROVE  /\ wire' \in Seq(Item) /\ Len(wire') = Len(wire) /\ DOMAIN wire' = DOMAIN wire
         /\ wire[i].pieces \in Nat /\ wire[i].pieces # Pieces
         /\ \A k \in DOMAIN wire :
              /\ wire'[k].call = wire[k].call /\ wire'[k].ended = wire[k].ended
              /\ wire'[k].heard = wire[k].heard
              /\ wire'[k].pieces = IF k = i THEN wire[i].pieces + 1 ELSE wire[k].pieces
              /\ wire'[k].got = IF arrives /\ k \in Holder(i)
                                THEN Append(wire[k].got, <<i, wire[i].pieces + 1>>)
                                ELSE wire[k].got
<1> DEFINE more == wire[i].pieces + 1
           Next1(k) == [wire[k] EXCEPT
                          !.pieces = IF k = i THEN more ELSE @,
                          !.got = IF arrives /\ k \in Holder(i) THEN Append(@, <<i, more>>) ELSE @]
<1>1. wire' = [k \in DOMAIN wire |-> Next1(k)]
  BY Zenon DEF Fragment
<1>2. wire[i] \in Item /\ wire[i].pieces < Pieces /\ i \in Nat
  <2>1. wire[i] \in Item /\ i \in Nat
    OBVIOUS
  <2> QED
    BY <2>1, Zenon DEF Fragment
<1>3. more \in 0..Pieces /\ <<i, more>> \in Nat \X Nat /\ wire[i].pieces \in Nat
  BY <1>2, BoundsAssumption DEF Item
<1> HIDE DEF more
<1>4. ASSUME NEW k \in DOMAIN wire
      PROVE  /\ Next1(k) \in Item
             /\ Next1(k).call = wire[k].call /\ Next1(k).ended = wire[k].ended
             /\ Next1(k).heard = wire[k].heard
             /\ Next1(k).pieces = IF k = i THEN more ELSE wire[k].pieces
             /\ Next1(k).got = IF arrives /\ k \in Holder(i)
                              THEN Append(wire[k].got, <<i, more>>) ELSE wire[k].got
  <2>1. wire[k] \in Item
    OBVIOUS
  <2>2. Append(wire[k].got, <<i, more>>) \in Seq(Nat \X Nat)
    <3>1. wire[k].got \in Seq(Nat \X Nat)
      BY <2>1 DEF Item
    <3> QED
      BY <1>3, <3>1
  <2> QED
    BY <1>3, <2>1, <2>2 DEF Item
<1> HIDE DEF Next1
<1>5. wire' \in Seq(Item) /\ Len(wire') = Len(wire) /\ DOMAIN wire' = DOMAIN wire
  BY <1>1, <1>4
<1>6. wire[i].pieces # Pieces
  BY <1>2, <1>3, BoundsAssumption
<1>7. \A k \in DOMAIN wire : wire'[k] = Next1(k)
  BY <1>1
<1> QED
  BY <1>3, <1>4, <1>5, <1>6, <1>7 DEF more

LEMMA EndItem ==
  ASSUME wire \in Seq(Item), NEW i \in DOMAIN wire, EndCall(i)
  PROVE  \E item \in Item : /\ item.ended /\ wire' = [wire EXCEPT ![i] = item]
                            /\ item.pieces = wire[i].pieces /\ item.call = wire[i].call
                            /\ item.heard = wire[i].heard /\ item.got = wire[i].got
<1>1. wire[i] \in Item
  OBVIOUS
<1> DEFINE item == [wire[i] EXCEPT !.ended = TRUE]
<1>2. /\ item \in Item /\ item.ended
      /\ item.pieces = wire[i].pieces /\ item.call = wire[i].call
      /\ item.heard = wire[i].heard /\ item.got = wire[i].got
  BY <1>1 DEF Item
<1>3. wire' = [wire EXCEPT ![i] = item]
  BY DEF EndCall
<1> QED
  BY <1>2, <1>3

\* The variables that no call and no message goes into.
Plain ==
  /\ protocol \in Protocols \cup {"none"} /\ (protocol # "none" <=> phase = "stream")
  /\ phase \in {"context", "request", "stream", "plan", "run", "done"}
  /\ tries \in 0..3 /\ (phase \in {"context", "request"} => tries < 3)
  /\ over \in {"open", "done", "cut"}
  /\ outcome \in {"none", "answered", "incomplete", "ran", "failed", "cancelled", "panicked"}
  /\ (phase = "done" <=> outcome # "none")

\* The conversation, the answer and the calls read from it.
Lists ==
  /\ messages \in Seq(Message(Nat)) /\ sent \in Seq(Message(Nat)) /\ toolLimit \in Nat
  /\ wire \in Seq(Item) /\ Len(wire) <= MaxCalls
  /\ batch \in Seq(Call) /\ Len(batch) <= MaxCalls

LEMMA TypedParts == Typed <=> Plain /\ Lists /\ cancelled \in BOOLEAN /\ lossy \in BOOLEAN
BY DEF Typed, Plain, Lists

LEMMA FlagsTyped ==
  cancelled \in BOOLEAN /\ lossy \in BOOLEAN /\ [Next]_vars =>
    cancelled' \in BOOLEAN /\ lossy' \in BOOLEAN
<1> SUFFICES ASSUME cancelled \in BOOLEAN, lossy \in BOOLEAN, [Next]_vars
             PROVE  cancelled' \in BOOLEAN /\ lossy' \in BOOLEAN
  OBVIOUS
<1>1. ASSUME NEW ask \in Asks, NEW id \in Ids, NEW heard \in BOOLEAN, Announce(ask, id, heard)
      PROVE  cancelled' \in BOOLEAN /\ lossy' \in BOOLEAN
  BY <1>1, Zenon DEF Announce
<1>2. ASSUME NEW i \in DOMAIN wire, NEW arrives \in BOOLEAN, Fragment(i, arrives)
      PROVE  cancelled' \in BOOLEAN /\ lossy' \in BOOLEAN
  BY <1>2, Zenon DEF Fragment
<1> QED
  BY <1>1, <1>2, Zenon DEF Next, vars, stream, BuildContext, RequestSucceeds, RequestFails,
    RequestRefused, Cancel, RequestCancelled, ConsumeCancelled, EndCall, AnswerDone, AnswerCut,
    AnswerConsumed, Plan, PlannerFails, Enter, Dispatch, Return, NextLayer

\* Actions as one sees them from the phase, the protocol and the outcome.
LEMMA PlainNext == Plain /\ [Next]_vars => Plain'
<1> SUFFICES ASSUME Plain, [Next]_vars
             PROVE  Plain'
  OBVIOUS
<1>0. "none" \notin Protocols
  BY ProtocolsAssumption
<1> USE DEF Plain, Finish, stream
<1>1. CASE BuildContext
  BY <1>1 DEF BuildContext
<1>2. CASE RequestSucceeds
  BY <1>0, <1>2 DEF RequestSucceeds
<1>3. CASE RequestFails
  BY <1>3 DEF RequestFails
<1>4. CASE RequestRefused
  BY <1>4 DEF RequestRefused
<1>5. CASE Cancel
  BY <1>5 DEF Cancel
<1>6. CASE RequestCancelled
  BY <1>6 DEF RequestCancelled
<1>7. CASE ConsumeCancelled
  BY <1>7 DEF ConsumeCancelled
<1>8. ASSUME NEW ask \in Asks, NEW id \in Ids, NEW heard \in BOOLEAN,
             Announce(ask, id, heard)
      PROVE  Plain'
  BY <1>8 DEF Announce
<1>9. ASSUME NEW i \in DOMAIN wire, NEW arrives \in BOOLEAN, Fragment(i, arrives)
      PROVE  Plain'
  BY <1>9 DEF Fragment
<1>10. ASSUME NEW i \in DOMAIN wire, EndCall(i)
       PROVE  Plain'
  BY <1>10 DEF EndCall
<1>11. CASE AnswerDone
  BY <1>11 DEF AnswerDone
<1>12. CASE AnswerCut
  BY <1>12 DEF AnswerCut
<1>13. CASE AnswerConsumed
  BY <1>13 DEF AnswerConsumed
<1>14. ASSUME NEW planned, NEW taken, Enter(planned, taken)
       PROVE  Plain'
  BY <1>14 DEF Enter
<1>15. ASSUME NEW i \in DOMAIN batch, Dispatch(i)
       PROVE  Plain'
  BY <1>15 DEF Dispatch
<1>16. ASSUME NEW i \in DOMAIN batch, Return(i)
       PROVE  Plain'
  BY <1>16 DEF Return
<1>17. CASE NextLayer
  BY <1>17 DEF NextLayer
<1>18. CASE UNCHANGED vars
  BY <1>18 DEF vars
<1> QED
  BY <1>1, <1>2, <1>3, <1>4, <1>5, <1>6, <1>7, <1>8, <1>9, <1>10, <1>11, <1>12, <1>13, <1>14,
     <1>15, <1>16, <1>17, <1>18, Zenon DEF Next, Plan, PlannerFails

\* No more calls are handed over than ended, and no more end than there are.
LEMMA CallsBounded ==
  ASSUME NEW items \in Seq(Item), NEW i \in DOMAIN items, ~items[i].ended,
         NEW k \in Nat, k <= Cardinality(Ended(items))
  PROVE  /\ k + 1 <= Len(items)
         /\ \A item \in Item : item.ended =>
              Cardinality(Ended([items EXCEPT ![i] = item])) = Cardinality(Ended(items)) + 1
<1> DEFINE D == DOMAIN items
           E == Ended(items)
<1>1. IsFiniteSet(D) /\ Cardinality(D) = Len(items) /\ Len(items) \in Nat
  <2>1. D = 1..Len(items) /\ 1 \in Int /\ Len(items) \in Int /\ Len(items) \in Nat
    OBVIOUS
  <2>2. /\ IsFiniteSet(1..Len(items))
        /\ Cardinality(1..Len(items)) = IF 1 > Len(items) THEN 0 ELSE Len(items) - 1 + 1
    BY ONLY <2>1, FS_Interval
  <2> QED
    BY <2>1, <2>2
<1>2. E \subseteq D /\ i \notin E /\ E \cup {i} \subseteq D
  BY DEF Ended
<1>3. IsFiniteSet(E) /\ IsFiniteSet(E \cup {i})
  BY <1>1, <1>2, FS_Subset
<1>4. Cardinality(E) \in Nat /\ Cardinality(E \cup {i}) = Cardinality(E) + 1
  BY <1>2, <1>3, FS_AddElement, FS_CardinalityType
<1>5. Cardinality(E \cup {i}) <= Cardinality(D)
  BY <1>1, <1>2, FS_Subset
<1>6. ASSUME NEW item \in Item, item.ended
      PROVE  Ended([items EXCEPT ![i] = item]) = E \cup {i}
  BY <1>6 DEF Ended
<1> HIDE DEF D, E
<1>7. k + 1 <= Len(items)
  BY <1>1, <1>4, <1>5 DEF E
<1> QED
  BY <1>4, <1>6, <1>7 DEF E

----------------------------------------------------------------------------
(* The request.                                                            *)

LEMMA RequestNext == Typed /\ RequestHolds /\ [Next]_vars => RequestHolds'
<1> SUFFICES ASSUME Typed, RequestHolds, [Next]_vars
             PROVE  RequestHolds'
  OBVIOUS
<1>0. messages \in Seq(Message(Nat)) /\ toolLimit \in Nat
  BY DEF Typed
<1> USE DEF RequestHolds, Made, Finish, context
<1>1. CASE BuildContext
  <2>1. messages' = messages /\ toolLimit' = toolLimit /\ messages # <<>> /\ sent = <<>>
    BY <1>1 DEF BuildContext
  <2>2. CASE Panicked(messages, toolLimit)
    <3>1. phase' = "done" /\ sent' = sent /\ outcome' = "panicked"
      BY <1>1, <2>2 DEF BuildContext
    <3>2. Panicked(messages', toolLimit')
      BY <2>1, <2>2
    <3> QED
      BY <2>1, <3>1, <3>2
  <2>3. CASE ~Panicked(messages, toolLimit) /\ Exceeded(messages, toolLimit)
    <3>1. phase' = "done" /\ sent' = sent /\ outcome' = "failed"
      BY <1>1, <2>3 DEF BuildContext
    <3>2. ~Panicked(messages', toolLimit') /\ Exceeded(messages', toolLimit')
      BY <2>1, <2>3
    <3> QED
      BY <2>1, <3>1, <3>2
  <2>4. CASE ~Panicked(messages, toolLimit) /\ ~Exceeded(messages, toolLimit)
    <3>1. phase' = "request" /\ sent' = Build(messages, toolLimit)
      BY <1>1, <2>4 DEF BuildContext
    <3>2. /\ ~Panicked(messages', toolLimit') /\ ~Exceeded(messages', toolLimit')
          /\ sent' = Build(messages', toolLimit')
      BY <2>1, <2>4, <3>1
    <3> QED
      BY <2>1, <3>1, <3>2
  <2> QED
    BY <2>2, <2>3, <2>4
<1>2. CASE RequestSucceeds
  BY <1>2 DEF RequestSucceeds
<1>3. ASSUME UNCHANGED context, phase' = phase, outcome' = outcome
      PROVE  RequestHolds'
  <2>1. messages' = messages /\ sent' = sent /\ toolLimit' = toolLimit
    BY <1>3
  <2>2. /\ Panicked(messages', toolLimit') <=> Panicked(messages, toolLimit)
        /\ Exceeded(messages', toolLimit') <=> Exceeded(messages, toolLimit)
        /\ Build(messages', toolLimit') = Build(messages, toolLimit)
    BY <2>1
  <2> QED
    BY <1>3, <2>1, <2>2
<1>4. ASSUME UNCHANGED context, phase' = "done", outcome' # "panicked",
             \/ phase = "request"
             \/ phase \in {"stream", "plan", "run"} /\ outcome' # "failed"
      PROVE  RequestHolds'
  <2>1. messages' = messages /\ sent' = sent /\ toolLimit' = toolLimit
    BY <1>4
  <2>2. /\ Panicked(messages', toolLimit') <=> Panicked(messages, toolLimit)
        /\ Exceeded(messages', toolLimit') <=> Exceeded(messages, toolLimit)
        /\ Build(messages', toolLimit') = Build(messages, toolLimit)
    BY <2>1
  <2> QED
    BY <1>4, <2>1, <2>2
<1>5. ASSUME UNCHANGED context, phase \in {"stream", "plan"}, phase' \in {"plan", "run"}
      PROVE  RequestHolds'
  BY <1>5
<1>6. CASE RequestFails \/ RequestRefused \/ RequestCancelled \/ ConsumeCancelled
  BY <1>3, <1>4, <1>6, Zenon
    DEF RequestFails, RequestRefused, RequestCancelled, ConsumeCancelled
<1>7. CASE Cancel \/ AnswerDone \/ AnswerCut
  BY <1>3, <1>7 DEF Cancel, AnswerDone, AnswerCut
<1>8. ASSUME NEW ask \in Asks, NEW id \in Ids, NEW heard \in BOOLEAN,
             Announce(ask, id, heard)
      PROVE  RequestHolds'
  BY <1>3, <1>8 DEF Announce
<1>9. ASSUME NEW i \in DOMAIN wire, EndCall(i) \/ \E arrives \in BOOLEAN : Fragment(i, arrives)
      PROVE  RequestHolds'
  BY <1>3, <1>9 DEF Fragment, EndCall
<1>10. CASE AnswerConsumed
  BY <1>4, <1>5, <1>10 DEF AnswerConsumed
<1>11. ASSUME NEW planned, NEW taken, Enter(planned, taken)
       PROVE  RequestHolds'
  BY <1>5, <1>11 DEF Enter
<1>12. ASSUME NEW i \in DOMAIN batch, Dispatch(i) \/ Return(i)
       PROVE  RequestHolds'
  BY <1>3, <1>12 DEF Dispatch, Return
<1>13. CASE NextLayer
  BY <1>3, <1>4, <1>13 DEF NextLayer
<1>14. CASE UNCHANGED vars
  BY <1>3, <1>14 DEF vars
<1> QED
  BY <1>1, <1>2, <1>6, <1>7, <1>8, <1>9, <1>10, <1>11, <1>12, <1>13, <1>14, Zenon
    DEF Next, Plan, PlannerFails

----------------------------------------------------------------------------
(* The answer.                                                             *)

\* What is true of the lists while nothing is added to them.
LEMMA AnswerStays ==
  ASSUME Typed, StreamHolds, UNCHANGED <<wire, batch, lossy>>, phase' = phase, protocol' = protocol
  PROVE  StreamHolds'
<1>1. wire' = wire /\ batch' = batch /\ lossy' = lossy
  OBVIOUS
<1>2. /\ Ended(wire') = Ended(wire) /\ (Complete(batch', wire') <=> Complete(batch, wire))
      /\ Known(batch', wire') <=> Known(batch, wire)
      /\ FragmentsOK(wire', lossy') <=> FragmentsOK(wire, lossy)
  BY <1>1
<1>3. Safe(protocol', lossy') <=> Safe(protocol, lossy)
  BY <1>1
<1> QED
  BY <1>1, <1>2, <1>3 DEF StreamHolds

LEMMA AnnounceHolds ==
  ASSUME Typed, StreamHolds, NEW ask \in Asks, NEW id \in Ids, NEW heard \in BOOLEAN,
         Announce(ask, id, heard)
  PROVE  wire' \in Seq(Item) /\ Len(wire') <= MaxCalls /\ StreamHolds'
<1> DEFINE item == [call |-> [id |-> id, name |-> ask.name, path |-> ask.path],
                    pieces |-> 0, heard |-> heard, got |-> <<>>, ended |-> FALSE]
           new == Len(wire) + 1
<1>1. item \in Item /\ ~item.ended
  BY BoundsAssumption DEF Item, Call, AskedPaths
<1>2. item.pieces = 0 /\ item.heard = heard /\ item.got = <<>>
  OBVIOUS
<1>3. wire' = Append(wire, item) /\ wire \in Seq(Item) /\ Len(wire) < MaxCalls
  BY DEF Announce, Typed
<1> HIDE DEF item
<1>4. /\ wire' \in Seq(Item) /\ Len(wire') = Len(wire) + 1 /\ Ended(wire') = Ended(wire)
      /\ \A k \in DOMAIN wire : k \in DOMAIN wire' /\ wire'[k] = wire[k]
  BY <1>1, <1>3, AppendItem
<1>5. \A k \in DOMAIN wire' : k \in DOMAIN wire \/ (k = new /\ wire'[k] = item)
  BY <1>3
<1>6. Len(wire') <= MaxCalls
  BY <1>3, <1>4, BoundsAssumption
<1>7. /\ phase = "stream" /\ phase' = phase /\ protocol' = protocol /\ batch' = batch
      /\ lossy' <=> lossy \/ ~heard
  BY DEF Announce, Streaming
<1>8. \A k \in DOMAIN wire : Own(wire', k) => Own(wire, k)
  BY <1>4 DEF Own
<1>9. Known(batch', wire')
  BY <1>4, <1>7 DEF StreamHolds, Known
<1>10. FragmentsOK(wire', lossy')
  <2> SUFFICES ASSUME NEW k \in DOMAIN wire', Own(wire', k)
               PROVE  /\ wire'[k].pieces = 0 => wire'[k].got = <<>>
                      /\ ~lossy' => /\ wire'[k].heard
                                    /\ wire'[k].got = [p \in 1..wire'[k].pieces |-> <<k, p>>]
    BY DEF FragmentsOK
  <2>1. CASE k \in DOMAIN wire
    <3>1. wire'[k] = wire[k] /\ Own(wire, k)
      BY <1>4, <1>8, <2>1
    <3> QED
      BY <1>7, <2>1, <3>1 DEF StreamHolds, FragmentsOK
  <2>2. CASE wire'[k] = item
    <3>1. <<>> = [p \in 1..0 |-> <<k, p>>]
      OBVIOUS
    <3> QED
      BY <1>2, <1>7, <2>2, <3>1
  <2> QED
    BY <1>5, <2>1, <2>2
<1>11. ASSUME Safe(protocol', lossy')
       PROVE  Complete(batch', wire')
  <2>1. Safe(protocol, lossy)
    BY <1>7, <1>11 DEF Safe
  <2>2. Complete(batch, wire) /\ Known(batch, wire)
    BY <1>7, <2>1 DEF StreamHolds
  <2> SUFFICES ASSUME NEW i \in DOMAIN batch, NEW k \in DOMAIN wire', batch[i].path # NoPath,
                      wire'[k].call.id = batch[i].id, Own(wire', k)
               PROVE  wire'[k].pieces = Pieces /\ wire'[k].call = batch[i]
    BY <1>7 DEF Complete
  <2>3. PICK j \in DOMAIN wire : wire[j].call.id = batch[i].id
    BY <2>2 DEF Known
  <2>4. k = j
    BY <1>4, <2>3 DEF Own
  <2> QED
    BY <1>4, <1>8, <2>2, <2>4 DEF Complete
<1>12. StreamHolds'
  BY <1>4, <1>7, <1>9, <1>10, <1>11 DEF StreamHolds
<1> QED
  BY <1>4, <1>6, <1>12

LEMMA FragmentHolds ==
  ASSUME Typed, StreamHolds, NEW i \in DOMAIN wire, NEW arrives \in BOOLEAN, Fragment(i, arrives)
  PROVE  wire' \in Seq(Item) /\ Len(wire') <= MaxCalls /\ StreamHolds'
<1>1. wire \in Seq(Item) /\ Len(wire) <= MaxCalls
  BY DEF Typed
<1>2. /\ wire' \in Seq(Item) /\ Len(wire') = Len(wire) /\ DOMAIN wire' = DOMAIN wire
      /\ wire[i].pieces \in Nat /\ wire[i].pieces # Pieces
  BY <1>1, FragmentItem
<1>3. ASSUME NEW k \in DOMAIN wire
      PROVE  /\ wire'[k].call = wire[k].call /\ wire'[k].ended = wire[k].ended
             /\ wire'[k].heard = wire[k].heard
             /\ wire'[k].pieces = IF k = i THEN wire[i].pieces + 1 ELSE wire[k].pieces
             /\ wire'[k].got = IF arrives /\ k \in Holder(i)
                               THEN Append(wire[k].got, <<i, wire[i].pieces + 1>>)
                               ELSE wire[k].got
  BY <1>1, FragmentItem
<1>4. /\ phase = "stream" /\ phase' = phase /\ protocol' = protocol /\ batch' = batch
      /\ lossy' <=> lossy \/ ~arrives
  BY DEF Fragment, Streaming
<1>5. \A k \in DOMAIN wire : Own(wire', k) <=> Own(wire, k)
  BY <1>2, <1>3 DEF Own
<1>6. Ended(wire') = Ended(wire)
  BY <1>2, <1>3 DEF Ended
<1>7. Known(batch', wire')
  BY <1>2, <1>3, <1>4 DEF StreamHolds, Known
<1>8. FragmentsOK(wire', lossy')
  <2> SUFFICES ASSUME NEW k \in DOMAIN wire, Own(wire, k)
               PROVE  /\ wire'[k].pieces = 0 => wire'[k].got = <<>>
                      /\ ~lossy' => /\ wire'[k].heard
                                    /\ wire'[k].got = [p \in 1..wire'[k].pieces |-> <<k, p>>]
    BY <1>2, <1>5 DEF FragmentsOK
  <2>1. /\ wire[k].pieces = 0 => wire[k].got = <<>>
        /\ ~lossy => wire[k].heard /\ wire[k].got = [p \in 1..wire[k].pieces |-> <<k, p>>]
    BY <1>4 DEF StreamHolds, FragmentsOK
  <2>2. CASE k # i
    <3>1. k \notin Holder(i)
      BY <1>1, <2>2, HolderKnown DEF Own
    <3>2. /\ wire'[k].heard = wire[k].heard /\ wire'[k].pieces = wire[k].pieces
          /\ wire'[k].got = wire[k].got
      BY <1>3, <2>2, <3>1
    <3> QED
      BY <1>4, <2>1, <3>2
  <2>3. CASE k = i
    <3> DEFINE n == wire[i].pieces
    <3>1. wire'[i].pieces = n + 1 /\ n \in Nat /\ wire'[i].heard = wire[i].heard
      BY <1>2, <1>3
    <3>2. ASSUME ~lossy'
          PROVE  /\ wire'[i].heard
                 /\ wire'[i].got = [p \in 1..(n + 1) |-> <<i, p>>]
      <4>1. ~lossy /\ arrives
        BY <1>4, <3>2
      <4>2. wire[i].heard /\ wire[i].got = [p \in 1..n |-> <<i, p>>]
        BY <2>1, <2>3, <4>1
      <4>3. i \in Holder(i)
        BY <1>1, <2>3, <4>2, HolderKnown
      <4>4. wire'[i].got = Append(wire[i].got, <<i, n + 1>>)
        BY <1>3, <4>1, <4>3
      <4> HIDE DEF n
      <4>5. Append([p \in 1..n |-> <<i, p>>], <<i, n + 1>>) = [p \in 1..(n + 1) |-> <<i, p>>]
        BY <3>1
      <4> QED
        BY <3>1, <4>2, <4>4, <4>5
    <3> HIDE DEF n
    <3>3. wire'[i].pieces # 0
      BY <3>1
    <3> QED
      BY <2>3, <3>1, <3>2, <3>3
  <2> QED
    BY <2>2, <2>3
<1>9. ASSUME Safe(protocol', lossy')
      PROVE  Complete(batch', wire')
  <2>1. Complete(batch, wire)
    BY <1>4, <1>9 DEF StreamHolds, Safe
  <2> SUFFICES ASSUME NEW j \in DOMAIN batch, NEW k \in DOMAIN wire, batch[j].path # NoPath,
                      wire[k].call.id = batch[j].id, Own(wire, k)
               PROVE  wire'[k].pieces = Pieces /\ wire'[k].call = batch[j]
    BY <1>2, <1>3, <1>4, <1>5 DEF Complete
  <2>2. wire[k].pieces = Pieces /\ wire[k].call = batch[j]
    BY <2>1 DEF Complete
  <2>3. k # i
    BY <1>2, <2>2
  <2> QED
    BY <1>3, <2>2, <2>3
<1>10. StreamHolds'
  BY <1>4, <1>6, <1>7, <1>8, <1>9 DEF StreamHolds
<1> QED
  BY <1>1, <1>2, <1>10

LEMMA EndCallHolds ==
  ASSUME Typed, StreamHolds, NEW i \in DOMAIN wire, EndCall(i)
  PROVE  /\ wire' \in Seq(Item) /\ Len(wire') <= MaxCalls
         /\ batch' \in Seq(Call) /\ Len(batch') <= MaxCalls /\ StreamHolds'
<1>1. wire \in Seq(Item) /\ Len(wire) <= MaxCalls /\ batch \in Seq(Call) /\ Len(batch) <= MaxCalls
  BY DEF Typed
<1>2. PICK item \in Item : /\ item.ended /\ wire' = [wire EXCEPT ![i] = item]
                           /\ item.pieces = wire[i].pieces /\ item.call = wire[i].call
                           /\ item.heard = wire[i].heard /\ item.got = wire[i].got
  BY <1>1, EndItem
<1>3. /\ wire' \in Seq(Item) /\ Len(wire') = Len(wire) /\ DOMAIN wire' = DOMAIN wire
      /\ \A k \in DOMAIN wire : wire'[k] = IF k = i THEN item ELSE wire[k]
  BY <1>1, <1>2, UpdateItem
<1>0. \A k \in DOMAIN wire : /\ wire'[k].pieces = wire[k].pieces /\ wire'[k].call = wire[k].call
                             /\ wire'[k].heard = wire[k].heard /\ wire'[k].got = wire[k].got
  BY <1>2, <1>3
<1>4. /\ phase = "stream" /\ phase' = phase /\ protocol' = protocol /\ lossy' = lossy
      /\ ~wire[i].ended
      /\ (\E call \in Consumed(i) : batch' = Append(batch, call)) \/ batch' = batch
  BY DEF EndCall, Open
<1>5. /\ Len(batch) \in Nat /\ Len(batch) <= Cardinality(Ended(wire)) /\ Known(batch, wire)
      /\ FragmentsOK(wire, lossy) /\ (Safe(protocol, lossy) => Complete(batch, wire))
  BY <1>1, <1>4 DEF StreamHolds
<1>6. Len(batch) + 1 <= Len(wire)
  BY <1>1, <1>4, <1>5, CallsBounded
<1>7. Cardinality(Ended(wire')) = Cardinality(Ended(wire)) + 1
  BY <1>1, <1>2, <1>4, <1>5, CallsBounded
<1>8. \A call \in Consumed(i) : call \in Call /\ call.id = wire[i].call.id
  BY <1>1, ConsumedKnown
<1>9. /\ batch' \in Seq(Call) /\ Len(batch') <= Len(batch) + 1
      /\ \A k \in DOMAIN batch' :
           batch'[k] \in Consumed(i) \/ (k \in DOMAIN batch /\ batch'[k] = batch[k])
  <2>1. CASE batch' = batch
    BY <1>1, <2>1
  <2>2. ASSUME NEW call \in Consumed(i), batch' = Append(batch, call)
        PROVE  /\ batch' \in Seq(Call) /\ Len(batch') <= Len(batch) + 1
               /\ \A k \in DOMAIN batch' :
                    batch'[k] \in Consumed(i) \/ (k \in DOMAIN batch /\ batch'[k] = batch[k])
    <3>1. /\ Len(batch') = Len(batch) + 1 /\ batch' \in Seq(Call)
          /\ DOMAIN batch' = 1..(Len(batch) + 1) /\ DOMAIN batch = 1..Len(batch)
          /\ batch'[Len(batch) + 1] = call
          /\ \A k \in 1..Len(batch) : batch'[k] = batch[k]
      BY <1>1, <1>8, <2>2
    <3>2. \A k \in DOMAIN batch' : k = Len(batch) + 1 \/ k \in DOMAIN batch
      BY <1>5, <3>1
    <3> QED
      BY <1>5, <3>1, <3>2
  <2> QED
    BY <1>4, <2>1, <2>2
<1>10. /\ Known(batch', wire') /\ FragmentsOK(wire', lossy')
       /\ Safe(protocol', lossy') => Complete(batch', wire')
  <2>1. \A k \in DOMAIN wire : Own(wire', k) <=> Own(wire, k)
    BY <1>0, <1>3 DEF Own
  <2>2. Known(batch', wire')
    BY <1>0, <1>3, <1>5, <1>8, <1>9 DEF Known
  <2>3. FragmentsOK(wire', lossy')
    BY <1>0, <1>3, <1>4, <1>5, <2>1 DEF FragmentsOK
  <2>4. ASSUME Safe(protocol, lossy), NEW j \in DOMAIN batch', NEW k \in DOMAIN wire,
               batch'[j].path # NoPath, wire[k].call.id = batch'[j].id, Own(wire, k)
        PROVE  wire[k].pieces = Pieces /\ wire[k].call = batch'[j]
    <3>1. CASE batch'[j] \in Consumed(i)
      <4>1. k = i
        BY <1>8, <2>4, <3>1 DEF Own
      <4> QED
        BY <1>1, <1>5, <2>4, <3>1, <4>1, ConsumedWhole
    <3>2. CASE j \in DOMAIN batch /\ batch'[j] = batch[j]
      BY <1>5, <2>4, <3>2 DEF Complete
    <3> QED
      BY <1>9, <3>1, <3>2
  <2>5. Safe(protocol', lossy') => Complete(batch', wire')
    BY <1>0, <1>3, <1>4, <2>1, <2>4 DEF Complete
  <2> QED
    BY <2>2, <2>3, <2>5
<1>11. Len(batch') \in Nat /\ Len(batch') <= MaxCalls /\ Len(batch') <= Cardinality(Ended(wire'))
  <2>1. Cardinality(Ended(wire)) \in Nat
    <3>1. IsFiniteSet(1..Len(wire)) /\ Ended(wire) \subseteq 1..Len(wire)
      <4>1. 1 \in Int /\ Len(wire) \in Int /\ DOMAIN wire = 1..Len(wire)
        BY <1>1
      <4>2. IsFiniteSet(1..Len(wire))
        BY ONLY <4>1, FS_Interval
      <4> QED
        BY <4>1, <4>2 DEF Ended
    <3> QED
      BY <3>1, FS_Subset, FS_CardinalityType
  <2>2. Len(batch') \in Nat /\ Len(wire) \in Nat /\ MaxCalls \in Nat
    BY <1>1, <1>9, BoundsAssumption
  <2> QED
    BY <1>1, <1>5, <1>6, <1>7, <1>9, <2>1, <2>2
<1>12. StreamHolds'
  BY <1>4, <1>10, <1>11 DEF StreamHolds
<1> QED
  BY <1>1, <1>3, <1>9, <1>11, <1>12

LEMMA AnswerNext ==
  Typed /\ RequestHolds /\ StreamHolds /\ [Next]_vars => Lists' /\ StreamHolds'
<1> SUFFICES ASSUME Typed, RequestHolds, StreamHolds, [Next]_vars
             PROVE  Lists' /\ StreamHolds'
  OBVIOUS
<1>0. Lists
  BY TypedParts
<1> USE DEF context, stream
<1>1. ASSUME UNCHANGED <<context, wire, batch>>
      PROVE  Lists'
  BY <1>0, <1>1 DEF Lists
<1>2. ASSUME UNCHANGED <<wire, batch, lossy>>, phase' = phase, protocol' = protocol
      PROVE  StreamHolds'
  BY <1>2, AnswerStays
<1>3. ASSUME UNCHANGED <<wire, batch>>, phase' \in {"run", "done"}
      PROVE  StreamHolds'
  BY <1>3 DEF StreamHolds
<1>4. CASE BuildContext
  <2>1. messages \in Seq(Message(Nat)) /\ messages # <<>> /\ toolLimit \in Nat
    BY <1>0, <1>4 DEF Lists, RequestHolds, BuildContext
  <2>2. sent' \in Seq(Message(Nat)) /\ messages' \in Seq(Message(Nat)) /\ toolLimit' \in Nat
    BY <1>0, <1>4, <2>1, BuildIsRecent DEF BuildContext, Lists
  <2>3. UNCHANGED <<wire, batch, lossy>> /\ phase = "context" /\ phase' \in {"request", "done"}
    BY <1>4 DEF BuildContext, Finish
  <2>4. Lists'
    BY <1>0, <2>2, <2>3 DEF Lists
  <2>5. StreamHolds'
    BY <2>3 DEF StreamHolds
  <2> QED
    BY <2>4, <2>5
<1>5. CASE RequestSucceeds
  <2>1. UNCHANGED <<wire, batch>> /\ messages' = <<>> /\ sent' = <<>> /\ toolLimit' = 0
    BY <1>5 DEF RequestSucceeds
  <2>2. Lists'
    BY <1>0, <2>1 DEF Lists
  <2>3. wire = <<>> /\ batch = <<>> /\ phase' = "stream"
    BY <1>5 DEF RequestSucceeds, StreamHolds
  <2>4. Ended(<<>>) = {} /\ Cardinality({}) = 0 /\ Len(<<>>) = 0
    BY FS_EmptySet DEF Ended
  <2>5. Complete(<<>>, <<>>) /\ Known(<<>>, <<>>) /\ FragmentsOK(<<>>, lossy')
    BY DEF Complete, Known, FragmentsOK
  <2>6. /\ Len(batch') <= Cardinality(Ended(wire')) /\ Complete(batch', wire')
        /\ Known(batch', wire') /\ FragmentsOK(wire', lossy')
    BY <2>1, <2>3, <2>4, <2>5
  <2>7. StreamHolds'
    BY <2>3, <2>6 DEF StreamHolds
  <2> QED
    BY <2>2, <2>7
<1>6. CASE RequestFails \/ RequestRefused \/ RequestCancelled \/ ConsumeCancelled
  <2>1. /\ UNCHANGED <<context, wire, batch, lossy>>
        /\ (phase' = phase /\ protocol' = protocol) \/ phase' = "done"
    BY <1>6 DEF RequestFails, RequestRefused, RequestCancelled, ConsumeCancelled, Finish
  <2> QED
    BY <1>1, <1>2, <1>3, <2>1
<1>7. CASE Cancel \/ AnswerDone \/ AnswerCut
  BY <1>1, <1>2, <1>7 DEF Cancel, AnswerDone, AnswerCut
<1>8. ASSUME NEW ask \in Asks, NEW id \in Ids, NEW heard \in BOOLEAN,
             Announce(ask, id, heard)
      PROVE  Lists' /\ StreamHolds'
  <2>1. UNCHANGED <<context, batch>>
    BY <1>8 DEF Announce
  <2> QED
    BY <1>0, <1>8, <2>1, AnnounceHolds DEF Lists
<1>9. ASSUME NEW i \in DOMAIN wire, NEW arrives \in BOOLEAN, Fragment(i, arrives)
      PROVE  Lists' /\ StreamHolds'
  <2>1. UNCHANGED <<context, batch>>
    BY <1>9 DEF Fragment
  <2> QED
    BY <1>0, <1>9, <2>1, FragmentHolds DEF Lists
<1>10. ASSUME NEW i \in DOMAIN wire, EndCall(i)
       PROVE  Lists' /\ StreamHolds'
  <2>1. UNCHANGED context
    BY <1>10 DEF EndCall
  <2> QED
    BY <1>0, <1>10, <2>1, EndCallHolds DEF Lists
<1>11. CASE AnswerConsumed
  <2>1. /\ UNCHANGED <<context, batch>> /\ wire' = <<>>
        /\ (batch # <<>> /\ phase' = "plan") \/ phase' = "done"
    BY <1>11 DEF AnswerConsumed, Finish
  <2>2. Lists'
    BY <1>0, <2>1, BoundsAssumption DEF Lists
  <2>3. StreamHolds'
    BY <2>1 DEF StreamHolds
  <2> QED
    BY <2>2, <2>3
<1>12. ASSUME NEW planned, NEW taken, Enter(planned, taken)
       PROVE  Lists' /\ StreamHolds'
  BY <1>1, <1>3, <1>12 DEF Enter
<1>13. ASSUME NEW i \in DOMAIN batch, Dispatch(i) \/ Return(i)
       PROVE  Lists' /\ StreamHolds'
  BY <1>1, <1>2, <1>13 DEF Dispatch, Return
<1>14. CASE NextLayer
  <2>1. /\ UNCHANGED <<context, wire, batch, lossy>>
        /\ (phase' = phase /\ protocol' = protocol) \/ phase' = "done"
    BY <1>14 DEF NextLayer, Finish
  <2> QED
    BY <1>1, <1>2, <1>3, <2>1
<1>15. CASE UNCHANGED vars
  BY <1>1, <1>2, <1>15 DEF vars
<1> QED
  BY <1>4, <1>5, <1>6, <1>7, <1>8, <1>9, <1>10, <1>11, <1>12, <1>13, <1>14, <1>15, Zenon
    DEF Next, Plan, PlannerFails

----------------------------------------------------------------------------
(* The run.                                                                *)

\* A write of a file and another call on it share that path, and the search of
\* everything waits for writes and holds them up.
LEMMA ConflictShares ==
  ASSUME NEW S, NEW calls \in Seq(S), NEW i \in DOMAIN calls, NEW j \in DOMAIN calls,
         Conflict(calls, i, j)
  PROVE  /\ Distinct(calls)
         /\ HardPair(calls, i, j) \/ Paths(calls[i]) \cap Paths(calls[j]) # {}
<1> DEFINE Touches(c, d) == /\ Kind(c) = "write" /\ c.path # NoPath
                            /\ d.path = c.path \/ WideRead(d)
<1>1. Distinct(calls)
  BY DistinctIds DEF Conflict
<1>2. \/ "barrier" \in {Kind(calls[i]), Kind(calls[j])}
      \/ Touches(calls[i], calls[j]) \/ Touches(calls[j], calls[i])
  BY DEF Conflict
<1>3. ASSUME NEW c, NEW d, Kind(c) # "barrier", Kind(d) # "barrier", Touches(c, d)
      PROVE  WideRead(d) \/ c.path \in Paths(c) \cap Paths(d)
  <2>1. Kind([name |-> "shell"]) = "barrier"
    BY DEF Kind, Readers, Writers, Searchers
  <2>2. c.name # "shell" /\ d.name # "shell"
    BY <1>3 DEF Kind, Readers, Writers, Searchers
  <2> QED
    BY <1>3, <2>2 DEF Paths
<1>4. CASE "barrier" \in {Kind(calls[i]), Kind(calls[j])}
  BY <1>1, <1>4 DEF HardPair
<1>5. CASE Kind(calls[i]) # "barrier" /\ Kind(calls[j]) # "barrier" /\ Touches(calls[i], calls[j])
  <2>1. WideRead(calls[j]) \/ calls[i].path \in Paths(calls[i]) \cap Paths(calls[j])
    BY <1>3, <1>5
  <2> QED
    BY <1>1, <1>5, <2>1 DEF HardPair
<1>6. CASE Kind(calls[i]) # "barrier" /\ Kind(calls[j]) # "barrier" /\ Touches(calls[j], calls[i])
  <2>1. WideRead(calls[i]) \/ calls[j].path \in Paths(calls[j]) \cap Paths(calls[i])
    BY <1>3, <1>6
  <2> QED
    BY <1>1, <1>6, <2>1 DEF HardPair
<1> QED
  BY <1>2, <1>4, <1>5, <1>6

\* A plan keeps apart what conflicts, whatever is proposed.
LEMMA PlanSeparates ==
  ASSUME NEW S, NEW calls \in Seq(S), NEW config, NEW proposed,
         NEW i \in DOMAIN calls, NEW j \in DOMAIN calls, i < j, Conflict(calls, i, j)
  PROVE  Before(PlanToolBatch(calls, config, proposed), i, j)
BY ConflictShares, PlanKeepsPairs, PlanKeepsPaths

LEMMA PlanKeeps ==
  ASSUME NEW S, NEW calls \in Seq(S), NEW config, NEW proposed,
         proposed # {} => AsksPlanner(calls, config)
  PROVE  Keeps(calls, PlanToolBatch(calls, config, proposed),
               IF ValidateExtraEdges(calls, BuildHardEdges(calls), proposed) THEN proposed ELSE {})
BY PlanSeparates, PlanGrants DEF Keeps

LEMMA SeriallyKeeps ==
  ASSUME NEW S, NEW calls \in Seq(S)
  PROVE  Keeps(calls, Serially(calls), {})
BY SeriallyLayers DEF Keeps

\* Before anything runs.
LEMMA ReachedFirst ==
  ASSUME NEW calls, NEW ls, IsLayering(calls, ls), calls # <<>>, NEW S, calls \in Seq(S)
  PROVE  1 \in DOMAIN ls /\ Reached(ls, 1, ls[1], {}, [i \in DOMAIN calls |-> 0])
<1>1. 1 \in DOMAIN calls
  OBVIOUS
<1>2. PICK k \in DOMAIN ls : 1 \in ls[k]
  BY <1>1 DEF IsLayering
<1>3. DOMAIN ls = 1..Len(ls) /\ Len(ls) \in Nat
  BY DEF IsLayering
<1>4. 1 \in DOMAIN ls
  BY <1>2, <1>3
<1>5. \A m \in DOMAIN ls : \A i \in ls[m] : i \in DOMAIN calls /\ ~(m < 1)
  BY <1>3 DEF IsLayering
<1> QED
  BY <1>4, <1>5 DEF Reached

LEMMA ReachedDispatch ==
  ASSUME IsLayering(batch, layers), layer \in DOMAIN layers, runs \in [DOMAIN batch -> {0, 1}],
         Reached(layers, layer, pending, flying, runs), NEW i \in pending
  PROVE  /\ runs[i] = 0 /\ i \notin flying /\ i \in layers[layer] /\ i \in DOMAIN batch
         /\ Reached(layers, layer, pending \ {i}, flying \cup {i}, [runs EXCEPT ![i] = 1])
         /\ [runs EXCEPT ![i] = 1] \in [DOMAIN batch -> {0, 1}]
<1>1. i \in layers[layer] /\ i \in DOMAIN batch
  BY DEF Reached, IsLayering
<1>2. layer \in Int
  BY DEF IsLayering
<1>3. runs[i] = 0
  BY <1>1, <1>2 DEF Reached
<1>4. \A k \in DOMAIN layers : k # layer => i \notin layers[k]
  BY <1>1 DEF IsLayering
<1> DEFINE more == [runs EXCEPT ![i] = 1]
<1>5. more[i] = 1 /\ \A m \in DOMAIN batch : m # i => more[m] = runs[m]
  BY <1>1
<1>6. \A k \in DOMAIN layers : \A m \in layers[k] : m \in DOMAIN batch
  BY DEF IsLayering
<1>7. more \in [DOMAIN batch -> {0, 1}]
  BY <1>1
<1> HIDE DEF more
<1>8. Reached(layers, layer, pending \ {i}, flying \cup {i}, more)
  BY <1>1, <1>4, <1>5, <1>6 DEF Reached
<1> QED
  BY <1>1, <1>3, <1>7, <1>8 DEF more, Reached

LEMMA ReachedNext ==
  ASSUME NEW calls, NEW ls, IsLayering(calls, ls), NEW l \in DOMAIN ls, l < Len(ls), NEW rs,
         Reached(ls, l, {}, {}, rs)
  PROVE  l + 1 \in DOMAIN ls /\ Reached(ls, l + 1, ls[l + 1], {}, rs)
<1>1. Len(ls) \in Nat /\ DOMAIN ls = 1..Len(ls)
  BY DEF IsLayering
<1>2. l + 1 \in DOMAIN ls
  BY <1>1
<1>3. \A k \in DOMAIN ls : k < l \/ k = l <=> k < l + 1
  BY <1>1
<1> QED
  BY <1>1, <1>2, <1>3 DEF Reached

\* Until the calls are planned, nothing of the run is touched.
Unplanned ==
  /\ ~Started /\ layers = <<>> /\ extra = {} /\ layer = 0 /\ pending = {} /\ flying = {}

\* While the calls run and after that.
Running(calls, ls, edges, l, pend, fly, rs) ==
  /\ IsLayering(calls, ls) /\ Keeps(calls, ls, edges)
  /\ l \in DOMAIN ls /\ rs \in [DOMAIN calls -> {0, 1}]
  /\ Reached(ls, l, pend, fly, rs)

LEMMA RunParts ==
  RunHolds <=>
    /\ Unplanned \/ (Started /\ Running(batch, layers, extra, layer, pending, flying, runs))
    /\ outcome = "ran" => pending = {} /\ flying = {} /\ layer = Len(layers)
BY DEF RunHolds, Unplanned, Running, Started

\* The steps before the calls are planned.
LEMMA EarlySteps ==
  ASSUME Plain, Unplanned, UNCHANGED <<plan, layer, pending, flying>>,
         phase' \notin {"run"}, outcome' = outcome \/ outcome' # "ran"
  PROVE  Unplanned'
BY DEF Unplanned, Started, plan

LEMMA EnterRuns ==
  ASSUME Typed, StreamHolds, Unplanned, NEW planned, NEW taken, Enter(planned, taken),
         IsLayering(batch, planned), Keeps(batch, planned, taken)
  PROVE  Started' /\ outcome' # "ran" /\ UNCHANGED <<batch, flying>>
         /\ runs' = [i \in DOMAIN batch |-> 0]
         /\ Running(batch, layers, extra, layer, pending, flying, runs)'
<1>1. /\ phase = "plan" /\ phase' = "run" /\ layers' = planned /\ extra' = taken
      /\ layer' = 1 /\ pending' = planned[1] /\ flying' = flying
      /\ runs' = [i \in DOMAIN batch |-> 0] /\ batch' = batch /\ outcome' = outcome
  BY DEF Enter, stream
<1>2. flying = {} /\ outcome # "ran" /\ batch # <<>> /\ batch \in Seq(Call)
  BY <1>1 DEF Unplanned, Started, StreamHolds, Typed
<1>3. 1 \in DOMAIN planned /\ Reached(planned, 1, planned[1], {}, [i \in DOMAIN batch |-> 0])
  BY <1>2, ReachedFirst
<1>4. [i \in DOMAIN batch |-> 0] \in [DOMAIN batch -> {0, 1}]
  OBVIOUS
<1>5. Running(batch, planned, taken, 1, planned[1], {}, [i \in DOMAIN batch |-> 0])
  BY <1>3, <1>4 DEF Running
<1>6. Running(batch', layers', extra', layer', pending', flying', runs')
  BY <1>1, <1>2, <1>5
<1> QED
  BY <1>1, <1>2, <1>6 DEF Started, Running

\* A plan of the configuration and the planner, or none.
LEMMA PlansAre ==
  ASSUME Typed,
         \E config \in Configs :
           PlannerFails(config) \/ (phase = "plan" /\ \E proposed \in Proposals : Plan(config, proposed))
  PROVE  \E planned, taken :
           Enter(planned, taken) /\ IsLayering(batch, planned) /\ Keeps(batch, planned, taken)
<1>0. batch \in Seq(Call)
  BY DEF Typed
<1>1. PICK config \in Configs :
        PlannerFails(config) \/ \E proposed \in Proposals : Plan(config, proposed)
  OBVIOUS
<1>2. CASE PlannerFails(config)
  BY <1>0, <1>2, SeriallyLayers, SeriallyKeeps DEF PlannerFails
<1>3. ASSUME NEW proposed \in Proposals, Plan(config, proposed)
      PROVE  \E planned, taken :
               Enter(planned, taken) /\ IsLayering(batch, planned) /\ Keeps(batch, planned, taken)
  BY <1>0, <1>3, PlanLayers, PlanKeeps DEF Plan
<1> QED
  BY <1>1, <1>2, <1>3

\* A call that is dispatched.
LEMMA DispatchRuns ==
  ASSUME Typed, RunHolds, NEW i \in DOMAIN batch, Dispatch(i)
  PROVE  /\ Started /\ Started' /\ outcome' # "ran" /\ UNCHANGED batch
         /\ runs[i] = 0 /\ i \notin flying /\ i \in layers[layer]
         /\ runs' = [runs EXCEPT ![i] = 1] /\ flying' = flying \cup {i}
         /\ Running(batch, layers, extra, layer, pending, flying, runs)
         /\ Running(batch, layers, extra, layer, pending, flying, runs)'
<1>1. /\ phase = "run" /\ i \in pending /\ phase' = phase /\ outcome' = outcome
      /\ pending' = pending \ {i} /\ flying' = flying \cup {i}
      /\ runs' = [runs EXCEPT ![i] = @ + 1]
      /\ batch' = batch /\ layers' = layers /\ extra' = extra /\ layer' = layer
  BY DEF Dispatch, plan, stream
<1>2. outcome = "none"
  BY <1>1 DEF Typed
<1>3. Started /\ Started'
  BY <1>1 DEF Started
<1>4. Running(batch, layers, extra, layer, pending, flying, runs)
  BY <1>3 DEF RunHolds, Running
<1>5. /\ IsLayering(batch, layers) /\ layer \in DOMAIN layers
      /\ runs \in [DOMAIN batch -> {0, 1}] /\ Reached(layers, layer, pending, flying, runs)
  BY <1>4 DEF Running
<1>6. /\ runs[i] = 0 /\ i \notin flying /\ i \in layers[layer]
      /\ Reached(layers, layer, pending \ {i}, flying \cup {i}, [runs EXCEPT ![i] = 1])
      /\ [runs EXCEPT ![i] = 1] \in [DOMAIN batch -> {0, 1}]
  <2>1. i \in pending
    BY <1>1
  <2> QED
    BY <1>5, <2>1, ReachedDispatch
<1>7. runs' = [runs EXCEPT ![i] = 1]
  BY <1>1, <1>6
<1>8. Running(batch, layers, extra, layer, pending', flying', runs')
  BY <1>1, <1>4, <1>6, <1>7 DEF Running
<1>9. Running(batch', layers', extra', layer', pending', flying', runs')
  BY <1>1, <1>8
<1> QED
  BY <1>1, <1>2, <1>3, <1>4, <1>6, <1>7, <1>9 DEF Running

LEMMA ReturnRuns ==
  ASSUME Typed, RunHolds, NEW i \in DOMAIN batch, Return(i)
  PROVE  /\ Started /\ Started' /\ outcome' # "ran" /\ UNCHANGED <<batch, runs>>
         /\ i \in flying /\ runs[i] = 1 /\ flying' = flying \ {i}
         /\ Running(batch, layers, extra, layer, pending, flying, runs)'
<1>1. /\ i \in flying /\ flying' = flying \ {i} /\ phase' = phase /\ outcome' = outcome
      /\ batch' = batch /\ layers' = layers /\ extra' = extra /\ layer' = layer
      /\ pending' = pending /\ runs' = runs
  BY DEF Return, plan, stream
<1>2. Started /\ outcome # "ran"
  BY <1>1 DEF RunHolds
<1>3. Running(batch, layers, extra, layer, pending, flying, runs)
  BY <1>2 DEF RunHolds, Running
<1>4. Reached(layers, layer, pending, flying', runs) /\ runs[i] = 1
  <2>1. layer \in DOMAIN layers /\ i \in layers[layer] /\ i \notin pending
    BY <1>1, <1>3 DEF Running, Reached
  <2> QED
    BY <1>1, <1>3, <2>1 DEF Running, Reached
<1>5. Running(batch, layers, extra, layer, pending, flying', runs)
  BY <1>3, <1>4 DEF Running
<1>6. Running(batch', layers', extra', layer', pending', flying', runs')
  BY <1>1, <1>5
<1> QED
  BY <1>1, <1>2, <1>4, <1>6 DEF Started, Running

LEMMA NextLayerRuns ==
  ASSUME Typed, RunHolds, NextLayer
  PROVE  /\ Started /\ Started' /\ UNCHANGED <<batch, runs, flying>>
         /\ Running(batch, layers, extra, layer, pending, flying, runs)'
         /\ outcome' = "ran" => pending' = {} /\ flying' = {} /\ layer' = Len(layers')
<1>1. /\ phase = "run" /\ pending = {} /\ flying = {} /\ flying' = flying /\ runs' = runs
      /\ batch' = batch /\ layers' = layers /\ extra' = extra
  BY DEF NextLayer, plan, stream
<1>2. Started /\ outcome = "none"
  BY <1>1 DEF Started, Typed
<1>3. Running(batch, layers, extra, layer, pending, flying, runs)
  BY <1>2 DEF RunHolds, Running
<1>4. CASE layer < Len(layers)
  <2>1. layer' = layer + 1 /\ pending' = layers[layer + 1] /\ phase' = phase /\ outcome' = outcome
    BY <1>4 DEF NextLayer
  <2>2. layer + 1 \in DOMAIN layers /\ Reached(layers, layer + 1, layers[layer + 1], {}, runs)
    BY <1>1, <1>3, <1>4, ReachedNext DEF Running
  <2>3. Running(batch, layers, extra, layer + 1, layers[layer + 1], {}, runs)
    BY <1>3, <2>2 DEF Running
  <2>4. Running(batch', layers', extra', layer', pending', flying', runs')
    BY <1>1, <2>1, <2>3
  <2> QED
    BY <1>1, <1>2, <2>1, <2>4 DEF Started, Running
<1>5. CASE ~(layer < Len(layers))
  <2>1. layer' = layer /\ pending' = pending /\ outcome' = "ran"
    BY <1>5 DEF NextLayer, Finish
  <2>2. Running(batch', layers', extra', layer', pending', flying', runs')
    BY <1>1, <1>3, <2>1
  <2>3. layer = Len(layers)
    <3>1. layers \in Seq((SUBSET DOMAIN batch) \ {{}}) /\ layer \in DOMAIN layers
      BY <1>3 DEF Running, IsLayering
    <3> QED
      BY <1>5, <3>1
  <2> QED
    BY <1>1, <1>2, <2>1, <2>2, <2>3 DEF Started, Running
<1> QED
  BY <1>4, <1>5

LEMMA EarlyRuns ==
  ASSUME Typed, RunHolds,
         \/ BuildContext \/ RequestSucceeds \/ RequestFails \/ RequestRefused \/ Cancel
         \/ RequestCancelled \/ ConsumeCancelled
         \/ \E ask \in Asks, id \in Ids, heard \in BOOLEAN : Announce(ask, id, heard)
         \/ \E i \in DOMAIN wire : EndCall(i) \/ \E arrives \in BOOLEAN : Fragment(i, arrives)
         \/ AnswerDone \/ AnswerCut \/ AnswerConsumed
  PROVE  Unplanned /\ Unplanned'
<1> DEFINE Quiet == /\ phase \in {"context", "request", "stream"} /\ UNCHANGED <<plan, run>>
                    /\ phase' # "run" /\ (outcome' = outcome \/ outcome' # "ran")
<1> USE DEF Finish, Streaming
<1>1. ASSUME BuildContext \/ RequestSucceeds \/ RequestFails \/ RequestRefused \/ Cancel
      PROVE  Quiet
  <2>1. phase' # "run" /\ UNCHANGED <<plan, run>>
    BY <1>1 DEF BuildContext, RequestSucceeds, RequestFails, RequestRefused, Cancel
  <2>2. phase \in {"context", "request", "stream"} /\ (outcome' = outcome \/ outcome' # "ran")
    BY <1>1 DEF BuildContext, RequestSucceeds, RequestFails, RequestRefused, Cancel
  <2> QED
    BY <2>1, <2>2
<1>2. ASSUME RequestCancelled \/ ConsumeCancelled \/ AnswerDone \/ AnswerCut \/ AnswerConsumed
      PROVE  Quiet
  <2>1. phase' # "run" /\ UNCHANGED <<plan, run>>
    BY <1>2 DEF RequestCancelled, ConsumeCancelled, AnswerDone, AnswerCut, AnswerConsumed
  <2>2. phase \in {"context", "request", "stream"} /\ (outcome' = outcome \/ outcome' # "ran")
    BY <1>2 DEF RequestCancelled, ConsumeCancelled, AnswerDone, AnswerCut, AnswerConsumed
  <2> QED
    BY <2>1, <2>2
<1>3. ASSUME NEW ask \in Asks, NEW id \in Ids, NEW heard \in BOOLEAN,
             Announce(ask, id, heard)
      PROVE  Quiet
  BY <1>3 DEF Announce
<1>4. ASSUME NEW i \in DOMAIN wire, EndCall(i) \/ \E arrives \in BOOLEAN : Fragment(i, arrives)
      PROVE  Quiet
  BY <1>4 DEF Fragment, EndCall
<1>5. Quiet
  <2> HIDE DEF Quiet
  <2> QED
    BY <1>1, <1>2, <1>3, <1>4, Zenon
<1>6. UNCHANGED <<plan, layer, pending, flying>>
  BY <1>5 DEF run
<1>7. Unplanned
  <2>1. ~Started
    BY <1>5 DEF Typed, Started
  <2> QED
    BY <2>1 DEF RunHolds, Unplanned
<1> QED
  BY <1>5, <1>6, <1>7, EarlySteps, TypedParts

LEMMA RunNext == Typed /\ StreamHolds /\ RunHolds /\ [Next]_vars => RunHolds'
<1> SUFFICES ASSUME Typed, StreamHolds, RunHolds, [Next]_vars
             PROVE  RunHolds'
  OBVIOUS
<1>1. ASSUME Unplanned'
      PROVE  RunHolds'
  BY <1>1 DEF RunHolds, Unplanned, Started
<1>2. ASSUME Started', Running(batch, layers, extra, layer, pending, flying, runs)',
             outcome' = "ran" => pending' = {} /\ flying' = {} /\ layer' = Len(layers')
      PROVE  RunHolds'
  BY <1>2 DEF RunHolds, Running
<1>3. CASE \/ BuildContext \/ RequestSucceeds \/ RequestFails \/ RequestRefused \/ Cancel
           \/ RequestCancelled \/ ConsumeCancelled
           \/ \E ask \in Asks, id \in Ids, heard \in BOOLEAN : Announce(ask, id, heard)
           \/ \E i \in DOMAIN wire : EndCall(i) \/ \E arrives \in BOOLEAN : Fragment(i, arrives)
           \/ AnswerDone \/ AnswerCut \/ AnswerConsumed
  BY <1>1, <1>3, EarlyRuns
<1>4. CASE \E config \in Configs :
             \/ PlannerFails(config)
             \/ phase = "plan" /\ \E proposed \in Proposals : Plan(config, proposed)
  <2>1. PICK planned, taken :
          Enter(planned, taken) /\ IsLayering(batch, planned) /\ Keeps(batch, planned, taken)
    BY <1>4, PlansAre
  <2>2. Unplanned
    BY <2>1 DEF Enter, RunHolds, Typed, Unplanned, Started
  <2> QED
    BY <1>2, <2>1, <2>2, EnterRuns
<1>5. ASSUME NEW i \in DOMAIN batch, Dispatch(i) \/ Return(i)
      PROVE  RunHolds'
  BY <1>2, <1>5, DispatchRuns, ReturnRuns
<1>6. CASE NextLayer
  BY <1>2, <1>6, NextLayerRuns
<1>7. CASE UNCHANGED vars
  <2>1. /\ phase' = phase /\ outcome' = outcome /\ batch' = batch /\ layers' = layers
        /\ extra' = extra /\ layer' = layer /\ pending' = pending /\ flying' = flying
        /\ runs' = runs
    BY <1>7 DEF vars, stream, plan, run
  <2>2. Running(batch', layers', extra', layer', pending', flying', runs')
          <=> Running(batch, layers, extra, layer, pending, flying, runs)
    BY <2>1
  <2>3. CASE Unplanned
    BY <1>1, <2>1, <2>3 DEF Unplanned, Started
  <2>4. CASE Started /\ Running(batch, layers, extra, layer, pending, flying, runs)
    <3>1. Started'
      BY <2>1, <2>4 DEF Started
    <3>2. outcome' = "ran" => pending' = {} /\ flying' = {} /\ layer' = Len(layers')
      BY <2>1 DEF RunHolds
    <3> QED
      BY <1>2, <2>2, <2>4, <3>1, <3>2 DEF Running
  <2> QED
    BY <2>3, <2>4, RunParts
<1> QED
  BY <1>3, <1>4, <1>5, <1>6, <1>7, Zenon DEF Next

----------------------------------------------------------------------------
(* The theorems.                                                           *)

LEMMA InitInv == Init => Inv
<1> SUFFICES ASSUME Init
             PROVE  Inv
  OBVIOUS
<1>1. Typed
  BY InitTyped
<1>2. /\ sent = <<>> /\ wire = <<>> /\ batch = <<>> /\ outcome = "none" /\ phase = "context"
      /\ lossy = FALSE
      /\ layers = <<>> /\ extra = {} /\ layer = 0 /\ pending = {} /\ flying = {}
  BY Zenon DEF Init
<1>3. messages # <<>>
  <2>1. PICK n \in 1..MaxMessages : messages \in [1..n -> Message(Sizes)]
    BY DEF Init, Conversations
  <2>2. 1 \in DOMAIN messages
    BY <2>1
  <2> QED
    BY <2>2
<1>4. RequestHolds /\ StreamHolds
  BY <1>2, <1>3 DEF RequestHolds, StreamHolds
<1>5. RunHolds
  BY <1>2 DEF RunHolds, Started
<1> QED
  BY <1>1, <1>4, <1>5 DEF Inv

LEMMA InvNext == Inv /\ [Next]_vars => Inv'
<1> SUFFICES ASSUME Inv, [Next]_vars
             PROVE  Inv'
  OBVIOUS
<1>1. Typed /\ RequestHolds /\ StreamHolds /\ RunHolds
  BY DEF Inv
<1>2. Typed'
  <2>1. Plain /\ cancelled \in BOOLEAN /\ lossy \in BOOLEAN
    BY <1>1, TypedParts
  <2>2. Plain' /\ Lists' /\ cancelled' \in BOOLEAN /\ lossy' \in BOOLEAN
    BY <1>1, <2>1, PlainNext, AnswerNext, FlagsTyped
  <2> QED
    BY <2>2 DEF Typed, Plain, Lists
<1>3. RequestHolds' /\ StreamHolds' /\ RunHolds'
  BY <1>1, RequestNext, AnswerNext, RunNext
<1> QED
  BY <1>2, <1>3 DEF Inv

LEMMA InvAlways == Spec => []Inv
  BY InitInv, InvNext, PTL DEF Spec

\* While calls run, the layers share the batch out among them, and no phase
\* has state of another.
THEOREM TypeCorrect == Spec => []TypeOK
<1>1. Inv => TypeOK
  <2> SUFFICES ASSUME Inv
               PROVE  TypeOK
    OBVIOUS
  <2>1. Typed /\ RunHolds
    BY DEF Inv
  <2>2. \A i \in DOMAIN wire : wire[i].pieces \in 0..Pieces
    <3>1. \A i \in DOMAIN wire : wire[i] \in Item
      BY <2>1 DEF Typed
    <3> QED
      BY <3>1 DEF Item
  <2>3. \A k \in DOMAIN layers : layers[k] \in (SUBSET DOMAIN batch) \ {{}}
    BY <2>1 DEF RunHolds, IsLayering
  <2>4. layer \in 0..Len(layers) /\ pending \cup flying \subseteq DOMAIN batch
    <3>1. CASE ~Started
      BY <2>1, <3>1 DEF RunHolds
    <3>2. CASE Started
      BY <2>1, <3>2 DEF RunHolds, IsLayering, Reached
    <3> QED
      BY <3>1, <3>2
  <2>5. Plain /\ Lists /\ cancelled \in BOOLEAN /\ lossy \in BOOLEAN
    BY <2>1, TypedParts
  <2> QED
    BY <2>2, <2>3, <2>4, <2>5, Zenon DEF TypeOK, Plain, Lists
<1> QED
  BY <1>1, InvAlways, PTL

\* The request takes along the end of the conversation, as much as fits; only
\* what fits nowhere is refused, and only a tool result to be cut to 32
\* characters ends the process: Build's loop, for conversations and budgets of
\* any size.
THEOREM ContextCorrect == Spec => []ContextIsRecent
<1>1. Inv => ContextIsRecent
  <2> SUFFICES ASSUME Inv
               PROVE  ContextIsRecent
    OBVIOUS
  <2>1. RequestHolds /\ messages \in Seq(Message(Nat)) /\ toolLimit \in Nat
    BY DEF Inv, Typed
  <2>2. ASSUME phase = "request"
        PROVE  LET n == Len(sent)
               IN /\ n > 0 /\ sent = Newest(messages, n, toolLimit) /\ Chars(sent) <= Available
                  /\ n < Len(messages) => Chars(Newest(messages, n + 1, toolLimit)) > Available
    <3>1. /\ messages # <<>> /\ ~Panicked(messages, toolLimit) /\ ~Exceeded(messages, toolLimit)
          /\ sent = Build(messages, toolLimit)
      BY <2>1, <2>2 DEF RequestHolds
    <3> QED
      BY <2>1, <3>1, BuildIsRecent
  <2>3. outcome # "none" => phase = "done"
    BY DEF Inv, Typed
  <2>4. ASSUME outcome = "failed", sent = <<>>
        PROVE  Available <= 0 \/ Chars(Newest(messages, 1, toolLimit)) > Available
    <3>1. messages # <<>> /\ Made(messages, sent, outcome, toolLimit)
      BY <2>1, <2>3, <2>4 DEF RequestHolds
    <3>2. CASE Exceeded(messages, toolLimit)
      BY <2>1, <3>1, <3>2, ExceededIsLong
    <3>3. CASE /\ ~Panicked(messages, toolLimit) /\ ~Exceeded(messages, toolLimit)
               /\ Build(messages, toolLimit) = <<>>
      BY <2>1, <3>1, <3>3, BuildIsRecent
    <3> QED
      BY <2>4, <3>1, <3>2, <3>3 DEF Made
  <2>5. ASSUME outcome = "panicked"
        PROVE  toolLimit = 32 /\ \E i \in DOMAIN messages : TooLong(messages[i], toolLimit)
    <3>1. Made(messages, sent, outcome, toolLimit)
      BY <2>1, <2>3, <2>5 DEF RequestHolds
    <3>2. Panicked(messages, toolLimit)
      BY <2>5, <3>1 DEF Made
    <3> QED
      BY <2>1, <3>2, PanicIsAtLimit
  <2> QED
    BY <2>2, <2>4, <2>5 DEF ContextIsRecent
<1> QED
  BY <1>1, InvAlways, PTL

\* A round that ends with its calls run has run each of them once, also when
\* ids repeat and the edges between them make a cycle.
THEOREM OnceCorrect == Spec => []EachCallRunsOnce
<1>1. Inv => EachCallRunsOnce
  <2> SUFFICES ASSUME Inv, outcome = "ran", NEW i \in DOMAIN batch
               PROVE  runs[i] = 1
    BY DEF EachCallRunsOnce
  <2>1. /\ IsLayering(batch, layers) /\ Reached(layers, layer, pending, flying, runs)
        /\ pending = {} /\ layer = Len(layers)
    BY DEF Inv, RunHolds, Started
  <2>2. PICK k \in DOMAIN layers : i \in layers[k]
    BY <2>1 DEF IsLayering
  <2>3. k < layer \/ k = layer
    BY <2>1, <2>2 DEF IsLayering
  <2> QED
    BY <2>1, <2>2, <2>3 DEF Reached
<1> QED
  BY <1>1, InvAlways, PTL

\* An edge that the planner was granted holds in the run.
THEOREM GrantedCorrect == Spec => []GrantedEdgesHold
<1>1. Inv => GrantedEdgesHold
  <2> SUFFICES ASSUME Inv, Started, NEW e \in extra, runs[IndexOf(batch, e[2])] > 0
               PROVE  runs[IndexOf(batch, e[1])] = 1 /\ IndexOf(batch, e[1]) \notin flying
    BY DEF GrantedEdgesHold
  <2> DEFINE from == IndexOf(batch, e[1])
             to == IndexOf(batch, e[2])
  <2>1. /\ IsLayering(batch, layers) /\ Reached(layers, layer, pending, flying, runs)
        /\ layer \in DOMAIN layers /\ Keeps(batch, layers, extra)
    BY DEF Inv, RunHolds
  <2>2. from \in DOMAIN batch /\ to \in DOMAIN batch /\ Before(layers, from, to)
    BY <2>1 DEF Keeps
  <2> HIDE DEF from, to
  <2>3. PICK k \in DOMAIN layers : from \in layers[k]
    BY <2>1, <2>2 DEF IsLayering
  <2>4. PICK l \in DOMAIN layers : to \in layers[l]
    BY <2>1, <2>2 DEF IsLayering
  <2>5. k < l /\ k \in Int /\ l \in Int /\ layer \in Int
    BY <2>1, <2>2, <2>3, <2>4 DEF Before, IsLayering
  <2>6. l < layer \/ l = layer
    <3>1. runs[to] > 0
      BY DEF to
    <3>2. runs[to] = IF l < layer \/ (l = layer /\ to \notin pending) THEN 1 ELSE 0
      BY <2>1, <2>4 DEF Reached
    <3> QED
      BY <3>1, <3>2
  <2>7. k < layer
    BY <2>5, <2>6
  <2>8. runs[from] = 1 /\ from \notin flying
    <3>1. from \notin layers[layer]
      BY <2>1, <2>3, <2>5, <2>7 DEF IsLayering
    <3> QED
      BY <2>1, <2>3, <2>7, <3>1 DEF Reached
  <2> QED
    BY <2>8 DEF from
<1> QED
  BY <1>1, InvAlways, PTL

\* No call with an id of its own runs on a part of its arguments, also when the
\* answer is cut or the turn is being cancelled; of the messages protocol, as
\* long as no fragment is lost.
THEOREM WholeCorrect == Spec => []NothingPartialRuns
<1>1. Inv => NothingPartialRuns
  <2> SUFFICES ASSUME Inv, phase = "stream", protocol = "anthropic" => ~lossy,
                      NEW i \in DOMAIN batch, NEW k \in DOMAIN wire, batch[i].path # NoPath,
                      wire[k].call.id = batch[i].id, OwnId(k)
               PROVE  wire[k].pieces = Pieces /\ wire[k].call = batch[i]
    BY DEF NothingPartialRuns
  <2>1. Complete(batch, wire)
    BY DEF Inv, StreamHolds, Safe
  <2>2. Own(wire, k)
    BY DEF Own, OwnId
  <2> QED
    BY <2>1, <2>2 DEF Complete
<1> QED
  BY <1>1, InvAlways, PTL

----------------------------------------------------------------------------
(* The run of the layers is a run of the batch.                            *)

Progress(calls, fly, rs) ==
  [i \in DOMAIN calls |-> IF i \in fly THEN "running"
                          ELSE IF rs[i] > 0 THEN "returned" ELSE "waiting"]
AbsBatch == IF Started THEN batch ELSE <<>>
AbsProgress == IF ~Started THEN <<>> ELSE Progress(batch, flying, runs)

AbsStay == AbsBatch' = AbsBatch /\ AbsProgress' = AbsProgress
AbsReceive ==
  /\ AbsBatch = <<>> /\ AbsBatch' # <<>>
  /\ AbsProgress' = [i \in DOMAIN AbsBatch' |-> "waiting"]
AbsStart(i) ==
  /\ AbsProgress[i] = "waiting"
  /\ \A j \in 1..(i - 1) : Conflict(AbsBatch, j, i) => AbsProgress[j] = "returned"
  /\ AbsProgress' = [AbsProgress EXCEPT ![i] = "running"]
  /\ AbsBatch' = AbsBatch
AbsReturn(i) ==
  /\ AbsProgress[i] = "running"
  /\ AbsProgress' = [AbsProgress EXCEPT ![i] = "returned"]
  /\ AbsBatch' = AbsBatch
AbsNext == AbsReceive \/ \E i \in DOMAIN AbsProgress : AbsStart(i) \/ AbsReturn(i)

LEMMA AbsIsBatch ==
  /\ AbsBatch = <<>> /\ AbsProgress = <<>> => B!Init
  /\ AbsStay => UNCHANGED B!vars
  /\ AbsNext => B!Next
BY DEF AbsBatch, AbsProgress, Progress, AbsStay, AbsReceive, AbsStart, AbsReturn, AbsNext,
   B!Init, B!vars, B!Next, B!Receive, B!Start, B!Return

\* A call waits until everything it conflicts with has returned.
LEMMA DispatchStarts ==
  ASSUME Inv, NEW i \in DOMAIN batch, Dispatch(i)
  PROVE  i \in DOMAIN AbsProgress /\ AbsStart(i)
<1>1. /\ Started /\ Started' /\ batch' = batch
      /\ runs[i] = 0 /\ i \notin flying /\ i \in layers[layer]
      /\ runs' = [runs EXCEPT ![i] = 1] /\ flying' = flying \cup {i}
      /\ Running(batch, layers, extra, layer, pending, flying, runs)
  BY DispatchRuns DEF Inv
<1>2. /\ AbsBatch = batch /\ AbsBatch' = batch
      /\ AbsProgress = Progress(batch, flying, runs)
      /\ AbsProgress' = Progress(batch, flying \cup {i}, [runs EXCEPT ![i] = 1])
  BY <1>1 DEF AbsBatch, AbsProgress
<1>3. batch \in Seq(Call) /\ i \in Nat /\ DOMAIN batch = 1..Len(batch) /\ Len(batch) \in Nat
  BY DEF Inv, Typed
<1>4. ASSUME NEW j \in 1..(i - 1), Conflict(batch, j, i)
      PROVE  AbsProgress[j] = "returned"
  <2>1. j \in DOMAIN batch /\ j < i
    BY <1>3
  <2>2. Before(layers, j, i)
    BY <1>1, <1>4, <2>1 DEF Running, Keeps
  <2>3. PICK k \in DOMAIN layers : j \in layers[k]
    BY <1>1, <2>1 DEF Running, IsLayering
  <2>4. layer \in DOMAIN layers /\ k < layer /\ k \in Int /\ layer \in Int
    BY <1>1, <2>2, <2>3 DEF Running, Before, IsLayering
  <2>5. j \notin layers[layer]
    BY <1>1, <2>3, <2>4 DEF Running, IsLayering
  <2>6. runs[j] = 1 /\ j \notin flying
    BY <1>1, <2>3, <2>4, <2>5 DEF Running, Reached
  <2> QED
    BY <1>2, <2>1, <2>6 DEF Progress
<1>5. AbsProgress[i] = "waiting" /\ DOMAIN AbsProgress = DOMAIN batch
  BY <1>1, <1>2 DEF Progress
<1>6. AbsProgress' = [AbsProgress EXCEPT ![i] = "running"]
  <2>1. runs \in [DOMAIN batch -> {0, 1}]
    BY <1>1 DEF Running
  <2> QED
    BY <1>1, <1>2, <2>1 DEF Progress
<1> QED
  BY <1>2, <1>4, <1>5, <1>6 DEF AbsStart

LEMMA ReturnReturns ==
  ASSUME Inv, NEW i \in DOMAIN batch, Return(i)
  PROVE  i \in DOMAIN AbsProgress /\ AbsReturn(i)
<1>1. /\ Started /\ Started' /\ batch' = batch /\ runs' = runs
      /\ i \in flying /\ runs[i] = 1 /\ flying' = flying \ {i}
  BY ReturnRuns DEF Inv
<1>2. /\ AbsBatch = batch /\ AbsBatch' = batch
      /\ AbsProgress = Progress(batch, flying, runs)
      /\ AbsProgress' = Progress(batch, flying \ {i}, runs)
  BY <1>1 DEF AbsBatch, AbsProgress
<1>3. AbsProgress[i] = "running" /\ DOMAIN AbsProgress = DOMAIN batch
  BY <1>1, <1>2 DEF Progress
<1>4. AbsProgress' = [AbsProgress EXCEPT ![i] = "returned"]
  BY <1>1, <1>2 DEF Progress
<1> QED
  BY <1>2, <1>3, <1>4 DEF AbsReturn

LEMMA EnterReceives ==
  ASSUME Inv, NEW planned, NEW taken, Enter(planned, taken),
         IsLayering(batch, planned), Keeps(batch, planned, taken)
  PROVE  AbsReceive
<1>1. Typed /\ StreamHolds /\ RunHolds /\ phase = "plan"
  BY DEF Inv, Enter
<1>2. batch # <<>> /\ ~Started
  BY <1>1 DEF StreamHolds, Typed, Started
<1>3. Unplanned
  BY <1>1, <1>2 DEF RunHolds, Unplanned
<1>4. Started' /\ batch' = batch /\ flying' = {} /\ runs' = [i \in DOMAIN batch |-> 0]
  BY <1>1, <1>3, EnterRuns DEF Unplanned
<1>5. /\ AbsBatch = <<>> /\ AbsBatch' = batch
      /\ AbsProgress' = Progress(batch, {}, [i \in DOMAIN batch |-> 0])
  BY <1>2, <1>4 DEF AbsBatch, AbsProgress
<1>6. Progress(batch, {}, [i \in DOMAIN batch |-> 0]) = [i \in DOMAIN batch |-> "waiting"]
  BY DEF Progress
<1> QED
  BY <1>2, <1>5, <1>6 DEF AbsReceive

LEMMA StepImplements == Inv /\ [Next]_vars => AbsStay \/ AbsNext
<1> SUFFICES ASSUME Inv, [Next]_vars
             PROVE  AbsStay \/ AbsNext
  OBVIOUS
<1>0. Typed /\ RunHolds
  BY DEF Inv
<1>1. CASE \/ BuildContext \/ RequestSucceeds \/ RequestFails \/ RequestRefused \/ Cancel
           \/ RequestCancelled \/ ConsumeCancelled
           \/ \E ask \in Asks, id \in Ids, heard \in BOOLEAN : Announce(ask, id, heard)
           \/ \E i \in DOMAIN wire : EndCall(i) \/ \E arrives \in BOOLEAN : Fragment(i, arrives)
           \/ AnswerDone \/ AnswerCut \/ AnswerConsumed
  <2>1. Unplanned /\ Unplanned'
    BY <1>0, <1>1, EarlyRuns
  <2> QED
    BY <2>1 DEF Unplanned, AbsStay, AbsBatch, AbsProgress
<1>2. CASE \E config \in Configs :
             \/ PlannerFails(config)
             \/ phase = "plan" /\ \E proposed \in Proposals : Plan(config, proposed)
  BY <1>0, <1>2, PlansAre, EnterReceives DEF AbsNext
<1>3. ASSUME NEW i \in DOMAIN batch, Dispatch(i) \/ Return(i)
      PROVE  AbsNext
  BY <1>3, DispatchStarts, ReturnReturns DEF AbsNext
<1>4. ASSUME Started' = Started, batch' = batch, flying' = flying, runs' = runs
      PROVE  AbsStay
  <2>1. Progress(batch, flying, runs)' = Progress(batch, flying, runs)
    BY <1>4 DEF Progress
  <2> QED
    BY <1>4, <2>1 DEF AbsStay, AbsBatch, AbsProgress
<1>5. CASE NextLayer
  BY <1>0, <1>4, <1>5, NextLayerRuns
<1>6. CASE UNCHANGED vars
  <2>1. batch' = batch /\ flying' = flying /\ runs' = runs /\ phase' = phase /\ outcome' = outcome
    BY <1>6 DEF vars, stream, run
  <2> QED
    BY <1>4, <2>1 DEF Started
<1> QED
  BY <1>1, <1>2, <1>3, <1>5, <1>6, Zenon DEF Next

\* Running the layers is running the batch: whatever the planner proposes, no
\* call starts before the earlier calls it conflicts with have returned, and
\* none starts twice.
THEOREM BatchCorrect == Spec => ImplementsBatch
<1>1. Init => B!Init
  <2> SUFFICES ASSUME Init
               PROVE  AbsBatch = <<>> /\ AbsProgress = <<>>
    BY AbsIsBatch
  <2>1. phase = "context" /\ outcome = "none"
    BY Zenon DEF Init
  <2> QED
    BY <2>1 DEF AbsBatch, AbsProgress, Started
<1>2. Inv /\ [Next]_vars => [B!Next]_(B!vars)
  BY StepImplements, AbsIsBatch
<1> QED
  BY <1>1, <1>2, InvAlways, PTL DEF Spec, ImplementsBatch, B!Spec

=============================================================================
