-------------------------- MODULE TimerQueueProofs --------------------------
(***************************************************************************)
(* Proofs about the timer queue, for any number of timers, any length of a *)
(* millisecond and any bounds.                                             *)
(***************************************************************************)
EXTENDS TimerQueue, SequenceLemmas, SequenceTheorems

(* A loop that breaks at the first index of I stops at an index of I with  *)
(* none of I before it, and at n when I is empty.                          *)
LEMMA FirstOrIsLeast ==
    ASSUME NEW n \in Nat, NEW I \in SUBSET (1..n)
    PROVE  /\ FirstOr(I, n + 1) \in 1..(n + 1)
           /\ \A i \in I : FirstOr(I, n + 1) <= i
           /\ I # {} => FirstOr(I, n + 1) \in I
           /\ I = {} => FirstOr(I, n + 1) = n + 1
<1>1. CASE I = {}
  BY <1>1 DEF FirstOr
<1>2. CASE I # {}
  <2> DEFINE R == OpToRel(<, Nat)
  <2>1. IsWellFoundedOn(R, Nat)
    BY NatLessThanWellFounded, Zenon
  <2>2. I \subseteq Nat
    OBVIOUS
  <2>3. \A x, y \in Nat : y < x => <<y, x>> \in R
    BY DEF OpToRel
  <2> HIDE DEF R
  <2>4. \E x \in I : \A y \in I : ~ (<<y, x>> \in R)
    BY <1>2, <2>1, <2>2, WFMin, Zenon
  <2>5. PICK x \in I : \A y \in I : ~ (<<y, x>> \in R)
    BY <2>4
  <2>6. \A j \in I : x \in Nat /\ j \in Nat /\ ~ (j < x)
    BY <2>2, <2>3, <2>5, Zenon
  <2>7. \A j \in I : x <= j
    BY <2>6
  <2>8. /\ FirstOr(I, n + 1) \in I
        /\ \A j \in I : FirstOr(I, n + 1) <= j
    BY <1>2, <2>7, Zenon DEF FirstOr
  <2>9. \A i \in I : i \in 1..(n + 1)
    OBVIOUS
  <2>10. QED
    BY <1>2, <2>8, <2>9, Zenon
<1>3. QED
  BY <1>1, <1>2, ConcatProperties

-----------------------------------------------------------------------------
(* The quotient of timeval_diff() is positive from one millisecond on. *)
LEMMA DivPositive ==
    ASSUME NEW x \in Nat
    PROVE  /\ x \div MS \in Nat
           /\ x \div MS > 0 <=> x >= MS
<1>1. MS \in Nat /\ MS > 0
  BY TimerQueueAssumption
<1>2. /\ x \div MS \in Int
      /\ x % MS \in 0..(MS - 1)
      /\ x = MS * (x \div MS) + (x % MS)
  BY <1>1
<1>3. QED
  BY <1>1, <1>2

(* timeval_diff() tells two instants apart from one millisecond on. *)
LEMMA DiffSign ==
    ASSUME NEW a \in Int, NEW b \in Int
    PROVE  /\ timeval_diff(a, b) < 0 <=> a <= b - MS
           /\ timeval_diff(a, b) > 0 <=> a >= b + MS
<1>1. MS \in Nat /\ MS > 0
  BY TimerQueueAssumption
<1>2. CASE a >= b
  <2>1. a - b \in Nat
    BY <1>2
  <2>2. /\ (a - b) \div MS \in Nat
        /\ (a - b) \div MS > 0 <=> a - b >= MS
    BY <2>1, DivPositive
  <2>3. QED
    BY <1>1, <1>2, <2>2 DEF timeval_diff
<1>3. CASE ~(a >= b)
  <2>1. b - a \in Nat
    BY <1>3
  <2>2. /\ (b - a) \div MS \in Nat
        /\ (b - a) \div MS > 0 <=> b - a >= MS
    BY <2>1, DivPositive
  <2>3. QED
    BY <1>1, <1>3, <2>2 DEF timeval_diff
<1>4. QED
  BY <1>2, <1>3

-----------------------------------------------------------------------------
(* list_detach() takes out t and nothing else, and keeps the order. *)
LEMMA DetachProperties ==
    ASSUME NEW q \in Seq(Timer), Once(q), NEW t \in Timer
    PROVE  /\ list_detach(q, t) \in Seq(Timer)
           /\ \A x \in Timer : On(x, list_detach(q, t)) <=> On(x, q) /\ x # t
           /\ Once(list_detach(q, t))
           /\ \A i, j \in DOMAIN list_detach(q, t) : i < j =>
                \E k, l \in DOMAIN q : /\ k < l
                                       /\ list_detach(q, t)[i] = q[k]
                                       /\ list_detach(q, t)[j] = q[l]
<1>1. CASE ~ On(t, q)
  <2>1. list_detach(q, t) = q
    BY <1>1 DEF On, list_detach
  <2>2. QED
    BY <2>1, <1>1 DEF On
<1>2. CASE On(t, q)
  <2> DEFINE k == CHOOSE i \in DOMAIN q : q[i] = t
             r == RemoveAt(q, k)
  <2>1. k \in DOMAIN q /\ q[k] = t
    BY <1>2 DEF On
  <2>2. k \in 1..Len(q) /\ Len(q) \in Nat
    BY <2>1
  <2>3. list_detach(q, t) = r
    BY <1>2 DEF On, list_detach
  <2> HIDE DEF k
  <2>4. /\ r \in Seq(Timer)
        /\ Len(r) = Len(q) - 1
        /\ \A i \in 1..(Len(q) - 1) : r[i] = IF i < k THEN q[i] ELSE q[i + 1]
    BY <2>2, RemoveAtElements
  <2> HIDE DEF r
  <2>5. DOMAIN r = 1..(Len(q) - 1) /\ DOMAIN q = 1..Len(q)
    BY <2>4
  <2>6. ASSUME NEW x \in Timer
        PROVE  On(x, r) <=> On(x, q) /\ x # t
    <3>1. ASSUME On(x, r)
          PROVE  On(x, q) /\ x # t
      <4>1. PICK i \in 1..(Len(q) - 1) : r[i] = x
        BY <3>1, <2>5 DEF On
      <4>2. CASE i < k
        BY <4>1, <4>2, <2>1, <2>2, <2>4, <2>5 DEF On, Once
      <4>3. CASE ~(i < k)
        <5>1. i + 1 \in 1..Len(q) /\ i + 1 # k /\ q[i + 1] = x
          BY <4>1, <4>3, <2>2, <2>4
        <5>2. QED
          BY <5>1, <2>1, <2>5 DEF On, Once
      <4>4. QED
        BY <4>2, <4>3
    <3>2. ASSUME On(x, q), x # t
          PROVE  On(x, r)
      <4>1. PICK i \in 1..Len(q) : q[i] = x
        BY <3>2, <2>5 DEF On
      <4>2. i # k
        BY <4>1, <3>2, <2>1
      <4>3. CASE i < k
        <5>1. i \in 1..(Len(q) - 1) /\ r[i] = x
          BY <4>1, <4>3, <2>2, <2>4
        <5>2. QED
          BY <5>1, <2>5 DEF On
      <4>4. CASE ~(i < k)
        <5>1. i - 1 \in 1..(Len(q) - 1) /\ ~(i - 1 < k) /\ (i - 1) + 1 = i
          BY <4>2, <4>4, <2>2
        <5>2. r[i - 1] = x
          BY <5>1, <4>1, <2>4
        <5>3. QED
          BY <5>1, <5>2, <2>5 DEF On
      <4>5. QED
        BY <4>3, <4>4
    <3>3. QED
      BY <3>1, <3>2
  <2>7. ASSUME NEW i \in DOMAIN r, NEW j \in DOMAIN r, i < j
        PROVE  \E m, l \in DOMAIN q : m < l /\ r[i] = q[m] /\ r[j] = q[l]
    <3>1. CASE j < k
      BY <3>1, <2>7, <2>2, <2>4, <2>5
    <3>2. CASE i < k /\ ~(j < k)
      <4>1. i \in DOMAIN q /\ j + 1 \in DOMAIN q /\ i < j + 1
        BY <2>7, <2>5, <2>2
      <4>2. r[i] = q[i] /\ r[j] = q[j + 1]
        BY <3>2, <2>4, <2>5
      <4>3. QED
        BY <4>1, <4>2
    <3>3. CASE ~(i < k) /\ ~(j < k)
      <4>1. i + 1 \in DOMAIN q /\ j + 1 \in DOMAIN q /\ i + 1 < j + 1
        BY <2>7, <2>5, <2>2
      <4>2. r[i] = q[i + 1] /\ r[j] = q[j + 1]
        BY <3>3, <2>4, <2>5
      <4>3. QED
        BY <4>1, <4>2
    <3>4. QED
      BY <3>1, <3>2, <3>3, <2>7, <2>2, <2>5
  <2>8. Once(r)
    <3> SUFFICES ASSUME NEW i \in DOMAIN r, NEW j \in DOMAIN r, i < j
                 PROVE  r[i] # r[j]
      BY <2>5, <2>2 DEF Once
    <3>1. PICK m, l \in DOMAIN q : m < l /\ r[i] = q[m] /\ r[j] = q[l]
      BY <2>7
    <3>2. m # l
      BY <3>1, <2>5
    <3>3. QED
      BY <3>1, <3>2 DEF Once
  <2>9. QED
    BY <2>3, <2>4, <2>6, <2>7, <2>8
<1>3. QED
  BY <1>1, <1>2

(* timer_add() links t into q once and keeps the queue ordered to the      *)
(* millisecond: the timers it passes expire less than a millisecond after  *)
(* t, and the first one it does not pass expires a millisecond or more     *)
(* after it, hence all behind that one expire after t.                     *)
LEMMA AddProperties ==
    ASSUME NEW q \in Seq(Timer), Once(q),
           NEW t \in Timer, ~ On(t, q),
           NEW to \in [Timer -> Int], Ordered(q, to),
           NEW at \in Int
    PROVE  /\ timer_add(q, t, at, to) \in Seq(Timer)
           /\ \A x \in Timer : On(x, timer_add(q, t, at, to)) <=> On(x, q) \/ x = t
           /\ Once(timer_add(q, t, at, to))
           /\ Ordered(timer_add(q, t, at, to), [to EXCEPT ![t] = at])
<1> DEFINE later == {i \in DOMAIN q : timeval_diff(at, to[q[i]]) < 0}
           k == FirstOr(later, Len(q) + 1)
           r == InsertAt(q, k, t)
           to2 == [to EXCEPT ![t] = at]
<1>1. timer_add(q, t, at, to) = r
  BY DEF timer_add
<1>2. MS \in Nat /\ MS > 0 /\ Len(q) \in Nat /\ DOMAIN q = 1..Len(q)
  BY TimerQueueAssumption
<1>3. \A i \in DOMAIN q : q[i] \in Timer /\ to[q[i]] \in Int
  OBVIOUS
<1>4. \A i \in DOMAIN q : i \in later <=> at <= to[q[i]] - MS
  BY <1>3, DiffSign
<1>5. later \in SUBSET (1..Len(q))
  BY <1>2
<1> HIDE DEF later
<1>6. /\ k \in 1..(Len(q) + 1)
      /\ \A i \in later : k <= i
      /\ later # {} => k \in later
      /\ later = {} => k = Len(q) + 1
  BY <1>2, <1>5, FirstOrIsLeast, Zenon
<1> HIDE DEF k
<1>7. ASSUME NEW i \in 1..Len(q), i < k
      PROVE  to[q[i]] < at + MS
  <2>1. i \notin later
    BY <1>7, <1>6, <1>2, <1>5
  <2>2. QED
    BY <2>1, <1>2, <1>3, <1>4
<1>8. ASSUME NEW i \in 1..Len(q), ~(i < k)
      PROVE  at < to[q[i]]
  <2>1. k \in later
    BY <1>8, <1>6, <1>2
  <2>2. at <= to[q[k]] - MS /\ k \in DOMAIN q
    BY <2>1, <1>4, <1>5, <1>2, SMTT(30)
  <2>3. i = k \/ to[q[k]] < to[q[i]] + MS
    <3>1. i \in DOMAIN q /\ (i = k \/ k < i)
      BY <1>8, <1>2, <1>6
    <3>2. QED
      BY <3>1, <2>2 DEF Ordered
  <2>4. QED
    BY <2>2, <2>3, <1>2, <1>3
<1>9. /\ r \in Seq(Timer)
      /\ Len(r) = Len(q) + 1
      /\ \A i \in 1..(Len(q) + 1) :
           r[i] = IF i < k THEN q[i] ELSE IF i = k THEN t ELSE q[i - 1]
  BY <1>6, InsertAtElements
<1> HIDE DEF r
<1>10. DOMAIN r = 1..(Len(q) + 1)
  BY <1>9
<1>11. ASSUME NEW x \in Timer
       PROVE  On(x, r) <=> On(x, q) \/ x = t
  <2>1. ASSUME On(x, r)
        PROVE  On(x, q) \/ x = t
    <3>1. PICK i \in 1..(Len(q) + 1) : r[i] = x
      BY <2>1, <1>10 DEF On
    <3>2. CASE i < k
      <4>1. i \in 1..Len(q) /\ q[i] = x
        BY <3>1, <3>2, <1>6, <1>9, <1>2, SMTT(30)
      <4>2. QED
        BY <4>1, <1>2 DEF On
    <3>3. CASE i = k
      BY <3>1, <3>3, <1>6, <1>9, <1>2
    <3>4. CASE ~(i < k) /\ i # k
      <4>1. i - 1 \in 1..Len(q) /\ q[i - 1] = x
        BY <3>1, <3>4, <1>6, <1>9, <1>2, SMTT(30)
      <4>2. QED
        BY <4>1, <1>2 DEF On
    <3>5. QED
      BY <3>2, <3>3, <3>4
  <2>2. ASSUME On(x, q)
        PROVE  On(x, r)
    <3>1. PICK i \in 1..Len(q) : q[i] = x
      BY <2>2, <1>2 DEF On
    <3>2. CASE i < k
      <4>1. i \in DOMAIN r
        BY <1>2, <1>10
      <4>2. r[i] = x
        BY <3>1, <3>2, <4>1, <1>9, <1>10
      <4>3. QED
        BY <4>1, <4>2 DEF On
    <3>3. CASE ~(i < k)
      <4>1. i + 1 \in 1..(Len(q) + 1) /\ ~(i + 1 < k) /\ i + 1 # k /\ (i + 1) - 1 = i
        BY <3>3, <1>2, <1>6
      <4>2. r[i + 1] = x
        BY <4>1, <3>1, <1>9, SMTT(30)
      <4>3. QED
        BY <4>1, <4>2, <1>10, SMTT(30) DEF On
    <3>4. QED
      BY <3>2, <3>3
  <2>3. On(t, r)
    <3>1. k \in DOMAIN r
      BY <1>6, <1>10
    <3>2. r[k] = t
      BY <1>2, <1>6, <1>9
    <3>3. QED
      BY <3>1, <3>2 DEF On
  <2>4. QED
    BY <2>1, <2>2, <2>3
<1>12. ASSUME NEW i \in DOMAIN r, NEW j \in DOMAIN r, i < j
       PROVE  r[i] # r[j] /\ to2[r[i]] < to2[r[j]] + MS
  <2>1. \A m \in 1..Len(q) : q[m] # t /\ to2[q[m]] = to[q[m]]
    BY <1>2, <1>3 DEF On
  <2>2. to2[t] = at
    OBVIOUS
  <2> HIDE DEF to2
  <2>3. CASE j < k
    <3>1. i \in 1..Len(q) /\ j \in 1..Len(q) /\ r[i] = q[i] /\ r[j] = q[j]
      BY <1>12, <2>3, <1>2, <1>6, <1>9, <1>10
    <3>2. QED
      BY <3>1, <2>1, <1>12, <1>2 DEF Once, Ordered
  <2>4. CASE j = k
    <3>1. i \in 1..Len(q) /\ i < k /\ r[i] = q[i] /\ r[j] = t
      BY <1>12, <2>4, <1>2, <1>6, <1>9, <1>10
    <3>2. QED
      BY <3>1, <2>1, <2>2, <1>7
  <2>5. CASE ~(j < k) /\ j # k /\ i = k
    <3>1. j - 1 \in 1..Len(q) /\ ~(j - 1 < k) /\ r[i] = t /\ r[j] = q[j - 1]
      BY <1>12, <2>5, <1>2, <1>6, <1>9, <1>10, SMTT(30)
    <3>2. at < to[q[j - 1]] /\ to[q[j - 1]] \in Int
      BY <3>1, <1>8, <1>3, <1>2
    <3>3. QED
      BY <3>1, <3>2, <2>1, <2>2, <1>2
  <2>6. CASE ~(j < k) /\ j # k /\ i < k
    <3>1. /\ i \in 1..Len(q) /\ j - 1 \in 1..Len(q) /\ i < j - 1
          /\ r[i] = q[i] /\ r[j] = q[j - 1]
      BY <1>12, <2>6, <1>2, <1>6, <1>9, <1>10, SMTT(30)
    <3>2. QED
      BY <3>1, <2>1, <1>2 DEF Once, Ordered
  <2>7. CASE ~(j < k) /\ j # k /\ ~(i < k) /\ i # k
    <3>1. i - 1 \in 1..Len(q) /\ j - 1 \in 1..Len(q) /\ i - 1 < j - 1
      BY <1>12, <2>7, <1>2, <1>6, <1>10, SMTT(30)
    <3>2. r[i] = q[i - 1] /\ r[j] = q[j - 1]
      BY <2>7, <1>9, <1>10
    <3>3. QED
      BY <3>1, <3>2, <2>1, <1>2 DEF Once, Ordered
  <2>8. QED
    BY <2>3, <2>4, <2>5, <2>6, <2>7
<1>13. Once(r) /\ Ordered(r, to2)
  BY <1>12, <1>10, <1>2 DEF Once, Ordered
<1>14. QED
  BY <1>1, <1>9, <1>11, <1>13

(* The scan of timer_timeout() splits the queue: what it takes is due or   *)
(* expires within the millisecond, what it leaves expires after t.         *)
LEMMA ScanProperties ==
    ASSUME TypeOK, Once(TQ), Ordered(TQ, timeout)
    PROVE  LET k == due(TQ, clock)
               e == SubSeq(TQ, 1, k)
               r == SubSeq(TQ, k + 1, Len(TQ))
           IN  /\ e \in Seq(Timer) /\ r \in Seq(Timer)
               /\ Once(e) /\ Once(r) /\ Ordered(r, timeout)
               /\ \A x \in Timer : On(x, TQ) <=> On(x, e) \/ On(x, r)
               /\ \A x \in Timer : ~ (On(x, e) /\ On(x, r))
               /\ \A x \in Timer : On(x, e) => timeout[x] < clock + MS
               /\ \A x \in Timer : On(x, r) => timeout[x] > clock
<1> DEFINE I == {i \in DOMAIN TQ : timeval_diff(timeout[TQ[i]], clock) > 0}
           f == FirstOr(I, Len(TQ) + 1)
           k == f - 1
           e == SubSeq(TQ, 1, k)
           r == SubSeq(TQ, k + 1, Len(TQ))
<1>1. /\ MS \in Nat /\ MS > 0 /\ Len(TQ) \in Nat /\ DOMAIN TQ = 1..Len(TQ)
      /\ TQ \in Seq(Timer) /\ clock \in Int
  BY TimerQueueAssumption DEF TypeOK
<1>2. \A i \in DOMAIN TQ : TQ[i] \in Timer /\ timeout[TQ[i]] \in Int
  BY DEF TypeOK
<1>3. \A i \in DOMAIN TQ : i \in I <=> timeout[TQ[i]] >= clock + MS
  BY <1>1, <1>2, DiffSign
<1>4. I \in SUBSET (1..Len(TQ))
  BY <1>1
<1>5. due(TQ, clock) = k
  BY DEF due
<1> HIDE DEF I
<1>6. /\ f \in 1..(Len(TQ) + 1)
      /\ \A i \in I : f <= i
      /\ I # {} => f \in I
      /\ I = {} => f = Len(TQ) + 1
  BY <1>1, <1>4, FirstOrIsLeast
<1> HIDE DEF f
<1>7. k \in 0..Len(TQ) /\ k + 1 = f
  BY <1>1, <1>6
<1>8. ASSUME NEW i \in 1..Len(TQ), i <= k
      PROVE  timeout[TQ[i]] < clock + MS
  <2>1. i \notin I
    BY <1>8, <1>6, <1>7, <1>1
  <2>2. QED
    BY <2>1, <1>1, <1>2, <1>3
<1>9. ASSUME NEW i \in 1..Len(TQ), i > k
      PROVE  timeout[TQ[i]] > clock
  <2>1. f \in I
    BY <1>9, <1>6, <1>7, <1>1
  <2>2. timeout[TQ[f]] >= clock + MS /\ f \in DOMAIN TQ
    BY <2>1, <1>3, <1>4, <1>1
  <2>3. i = f \/ timeout[TQ[f]] < timeout[TQ[i]] + MS
    <3>1. i \in DOMAIN TQ /\ (i = f \/ f < i)
      BY <1>9, <1>1, <1>7, <1>6
    <3>2. QED
      BY <3>1, <2>2 DEF Ordered
  <2>4. QED
    BY <2>2, <2>3, <1>1, <1>2
<1> HIDE DEF k
<1>10. /\ e \in Seq(Timer) /\ Len(e) = k /\ DOMAIN e = 1..k
       /\ \A i \in 1..k : e[i] = TQ[i]
  BY <1>1, <1>7, SubSeqProperties
<1>11. /\ r \in Seq(Timer) /\ Len(r) = Len(TQ) - k /\ DOMAIN r = 1..(Len(TQ) - k)
       /\ \A i \in 1..(Len(TQ) - k) : r[i] = TQ[i + k]
  <2> DEFINE m == k + 1
             n == Len(TQ)
  <2>1. m \in 1..(Len(TQ) + 1) /\ n \in (m - 1)..Len(TQ)
    BY <1>1, <1>7
  <2>2. n - m + 1 = Len(TQ) - k /\ \A i \in 1..(Len(TQ) - k) : m + i - 1 = i + k
    BY <1>1, <1>7
  <2> HIDE DEF m, n
  <2>3. /\ SubSeq(TQ, m, n) \in Seq(Timer)
        /\ Len(SubSeq(TQ, m, n)) = n - m + 1
        /\ \A i \in 1..(n - m + 1) : SubSeq(TQ, m, n)[i] = TQ[m + i - 1]
    BY <1>1, <2>1, SubSeqProperties
  <2>4. SubSeq(TQ, m, n) = r
    BY DEF m, n
  <2> HIDE DEF r
  <2>5. QED
    BY <2>2, <2>3, <2>4
<1> HIDE DEF e, r
<1>12. \A i \in DOMAIN e : i \in DOMAIN TQ /\ i <= k
  BY <1>1, <1>7, <1>10
<1>13. \A i \in DOMAIN r : i + k \in DOMAIN TQ /\ i + k > k
  BY <1>1, <1>7, <1>11
<1>14. Once(e)
  BY <1>10, <1>12 DEF Once
<1>15. Once(r)
  <2> SUFFICES ASSUME NEW i \in DOMAIN r, NEW j \in DOMAIN r, r[i] = r[j]
               PROVE  i = j
    BY DEF Once
  <2>1. i + k = j + k
    BY <1>11, <1>13 DEF Once
  <2>2. QED
    BY <2>1, <1>7, <1>11
<1>16. Ordered(r, timeout)
  <2> SUFFICES ASSUME NEW i \in DOMAIN r, NEW j \in DOMAIN r, i < j
               PROVE  timeout[r[i]] < timeout[r[j]] + MS
    BY DEF Ordered
  <2>1. i + k < j + k
    BY <1>7, <1>11
  <2>2. QED
    BY <2>1, <1>11, <1>13 DEF Ordered
<1>17. ASSUME NEW x \in Timer, On(x, e)
       PROVE  \E i \in 1..Len(TQ) : i <= k /\ TQ[i] = x
  BY <1>17, <1>10, <1>12, <1>1 DEF On
<1>18. ASSUME NEW x \in Timer, On(x, r)
       PROVE  \E i \in 1..Len(TQ) : i > k /\ TQ[i] = x
  BY <1>18, <1>11, <1>13, <1>1 DEF On
<1>19. ASSUME NEW x \in Timer, On(x, TQ)
       PROVE  On(x, e) \/ On(x, r)
  <2>1. PICK i \in 1..Len(TQ) : TQ[i] = x
    BY <1>19, <1>1 DEF On
  <2>2. CASE i <= k
    <3>1. i \in DOMAIN e /\ e[i] = x
      BY <2>1, <2>2, <1>7, <1>10
    <3>2. QED
      BY <3>1 DEF On
  <2>3. CASE ~(i <= k)
    <3>1. i - k \in DOMAIN r /\ (i - k) + k = i
      BY <2>3, <1>1, <1>7, <1>11
    <3>2. r[i - k] = x
      BY <3>1, <2>1, <1>11
    <3>3. QED
      BY <3>1, <3>2 DEF On
  <2>4. QED
    BY <2>2, <2>3
<1>20. ASSUME NEW x \in Timer, On(x, e) \/ On(x, r)
       PROVE  On(x, TQ)
  BY <1>20, <1>17, <1>18, <1>1 DEF On
<1>21. ASSUME NEW x \in Timer, On(x, e), On(x, r)
       PROVE  FALSE
  <2>1. PICK i \in 1..Len(TQ) : i <= k /\ TQ[i] = x
    BY <1>21, <1>17
  <2>2. PICK j \in 1..Len(TQ) : j > k /\ TQ[j] = x
    BY <1>21, <1>18
  <2>3. i # j
    BY <2>1, <2>2, <1>7
  <2>4. QED
    BY <2>1, <2>2, <2>3, <1>1 DEF Once
<1>22. \A x \in Timer : On(x, e) => timeout[x] < clock + MS
  BY <1>17, <1>8
<1>23. \A x \in Timer : On(x, r) => timeout[x] > clock
  BY <1>18, <1>9
<1>24. QED
  BY <1>5, <1>10, <1>11, <1>14, <1>15, <1>16, <1>19, <1>20, <1>21, <1>22, <1>23 DEF e, r

-----------------------------------------------------------------------------
(* The inductive invariant.  To the properties it adds that the instant    *)
(* the scan read is not in the future, and that the local list expTQ is    *)
(* empty outside timer_timeout().                                          *)
IInv ==
    /\ TypeOK
    /\ UsedIffLinkedOnce
    /\ OrderedToTheMillisecond
    /\ NoOverdueTimerLeft
    /\ NeverEarlyByAMillisecond
    /\ SleepCoversQueue
    /\ now <= clock
    /\ pc \notin {"fire", "handler"} => expTQ = <<>>

(* Nothing is linked into an empty list. *)
LEMMA EmptyList ==
    /\ <<>> \in Seq(Timer)
    /\ \A t : ~ On(t, <<>>)
    /\ Once(<<>>)
    /\ \A to : Ordered(<<>>, to)
BY DEF On, Once, Ordered

LEMMA InitIInv == Init => IInv
<1> SUFFICES ASSUME Init PROVE IInv
  OBVIOUS
<1>1. TypeOK
  BY EmptyList, TimerQueueAssumption DEF Init, TypeOK
<1>2. UsedIffLinkedOnce
  BY EmptyList DEF Init, UsedIffLinkedOnce
<1>3. QED
  BY <1>1, <1>2, EmptyList
     DEF Init, IInv, OrderedToTheMillisecond, NoOverdueTimerLeft,
         NeverEarlyByAMillisecond, SleepCoversQueue

(* timer_set_timeout(): the timer leaves the list it is on and is linked   *)
(* into TQ at an instant that is not in the past of the scan.              *)
LEMMA SetIInv ==
    ASSUME IInv, NEW t \in Timer, NEW msec \in Delays, timer_set_timeout(t, msec)
    PROVE  IInv'
<1> DEFINE at == timeval_add_msec(clock, msec)
           q == IF used[t] THEN list_detach(TQ, t) ELSE TQ
           e == IF used[t] THEN list_detach(expTQ, t) ELSE expTQ
<1>1. /\ TypeOK /\ clock \in Nat /\ now \in Nat /\ now <= clock
      /\ TQ \in Seq(Timer) /\ expTQ \in Seq(Timer) /\ timeout \in [Timer -> Int]
      /\ used \in [Timer -> BOOLEAN]
      /\ Once(TQ) /\ Once(expTQ) /\ Ordered(TQ, timeout)
      /\ MS \in Nat /\ MS > 0 /\ msec \in Nat
  BY TimerQueueAssumption DEF IInv, TypeOK, UsedIffLinkedOnce, OrderedToTheMillisecond
<1>2. /\ \A x \in Timer : used[x] <=> On(x, TQ) \/ On(x, expTQ)
      /\ \A x \in Timer : ~ (On(x, TQ) /\ On(x, expTQ))
  BY DEF IInv, UsedIffLinkedOnce
<1>3. at \in Nat /\ at >= clock /\ at >= now
  <2> DEFINE d == msec * MS
  <2>1. d \in Nat
    BY <1>1
  <2>2. at = clock + d
    BY DEF timeval_add_msec
  <2> HIDE DEF d, at
  <2>3. QED
    BY <1>1, <2>1, <2>2
<1> HIDE DEF at
<1>4. /\ q \in Seq(Timer) /\ Once(q)
      /\ \A x \in Timer : On(x, q) <=> On(x, TQ) /\ x # t
  BY <1>1, <1>2, DetachProperties, Zenon
<1>5. /\ e \in Seq(Timer) /\ Once(e)
      /\ \A x \in Timer : On(x, e) <=> On(x, expTQ) /\ x # t
  BY <1>1, <1>2, DetachProperties, Zenon
<1>6. Ordered(q, timeout)
  <2>1. CASE ~ used[t]
    BY <2>1, <1>1
  <2>2. CASE used[t]
    <3> DEFINE d == list_detach(TQ, t)
    <3>1. \A i, j \in DOMAIN d : i < j =>
            \E k, l \in DOMAIN TQ : k < l /\ d[i] = TQ[k] /\ d[j] = TQ[l]
      BY <1>1, DetachProperties
    <3> HIDE DEF d
    <3>2. Ordered(d, timeout)
      BY <3>1, <1>1 DEF Ordered
    <3>3. QED
      BY <3>2, <2>2 DEF d
  <2>3. QED
    BY <2>1, <2>2
<1>7. /\ TQ' = timer_add(q, t, at, timeout)
      /\ expTQ' = e
      /\ timeout' = [timeout EXCEPT ![t] = at]
      /\ used' = [used EXCEPT ![t] = TRUE]
      /\ sets' = sets + 1
      /\ pc \in {"start", "handler", "callback"}
      /\ UNCHANGED <<clock, now, wait, pc>>
  BY DEF timer_set_timeout, InUserCode, at
<1> HIDE DEF q, e
<1>8. ~ On(t, q)
  BY <1>4
<1>9. /\ TQ' \in Seq(Timer)
      /\ \A x \in Timer : On(x, TQ') <=> On(x, q) \/ x = t
      /\ Once(TQ')
      /\ Ordered(TQ', timeout')
  <2>1. at \in Int
    BY <1>3
  <2>2. QED
    BY <2>1, <1>1, <1>4, <1>6, <1>7, <1>8, AddProperties, Zenon
<1>10. TypeOK'
  BY <1>1, <1>3, <1>5, <1>7, <1>9 DEF TypeOK
<1>11. UsedIffLinkedOnce'
  <2>1. \A x \in Timer : used'[x] <=> used[x] \/ x = t
    BY <1>1, <1>7
  <2>2. QED
    BY <2>1, <1>2, <1>4, <1>5, <1>7, <1>9 DEF UsedIffLinkedOnce
<1>12. OrderedToTheMillisecond'
  BY <1>9 DEF OrderedToTheMillisecond
<1>13. \A x \in Timer : timeout'[x] = IF x = t THEN at ELSE timeout[x]
  BY <1>1, <1>7
<1>14. NoOverdueTimerLeft'
  BY <1>3, <1>4, <1>7, <1>9, <1>13 DEF NoOverdueTimerLeft, IInv
<1>15. NeverEarlyByAMillisecond'
  BY <1>5, <1>7, <1>13 DEF NeverEarlyByAMillisecond, IInv
<1>16. SleepCoversQueue'
  BY <1>7 DEF SleepCoversQueue
<1>17. pc' \notin {"fire", "handler"} => expTQ' = <<>>
  BY <1>5, <1>7, EmptyList DEF IInv, e, list_detach
<1>18. QED
  BY <1>1, <1>7, <1>10, <1>11, <1>12, <1>14, <1>15, <1>16, <1>17 DEF IInv

(* timer_remove() *)
LEMMA RemoveIInv ==
    ASSUME IInv, NEW t \in Timer, timer_remove(t)
    PROVE  IInv'
<1> DEFINE q == list_detach(TQ, t)
           e == list_detach(expTQ, t)
<1>1. /\ TypeOK /\ TQ \in Seq(Timer) /\ expTQ \in Seq(Timer)
      /\ used \in [Timer -> BOOLEAN]
      /\ Once(TQ) /\ Once(expTQ) /\ Ordered(TQ, timeout)
  BY DEF IInv, TypeOK, UsedIffLinkedOnce, OrderedToTheMillisecond
<1>2. /\ \A x \in Timer : used[x] <=> On(x, TQ) \/ On(x, expTQ)
      /\ \A x \in Timer : ~ (On(x, TQ) /\ On(x, expTQ))
  BY DEF IInv, UsedIffLinkedOnce
<1>3. /\ q \in Seq(Timer) /\ Once(q)
      /\ \A x \in Timer : On(x, q) <=> On(x, TQ) /\ x # t
      /\ \A i, j \in DOMAIN q : i < j =>
           \E k, l \in DOMAIN TQ : k < l /\ q[i] = TQ[k] /\ q[j] = TQ[l]
  BY <1>1, DetachProperties
<1>4. /\ e \in Seq(Timer) /\ Once(e)
      /\ \A x \in Timer : On(x, e) <=> On(x, expTQ) /\ x # t
  BY <1>1, DetachProperties
<1>5. /\ TQ' = q /\ expTQ' = e
      /\ used' = [used EXCEPT ![t] = FALSE]
      /\ pc \in {"start", "handler", "callback"}
      /\ UNCHANGED <<clock, timeout, now, wait, pc, sets>>
  BY DEF timer_remove, InUserCode
<1>6. pc' \notin {"fire", "handler"} => expTQ' = <<>>
  BY <1>5, EmptyList DEF IInv, list_detach
<1> HIDE DEF q, e
<1>7. TypeOK'
  BY <1>1, <1>3, <1>4, <1>5 DEF TypeOK
<1>8. UsedIffLinkedOnce'
  <2>1. \A x \in Timer : used'[x] <=> used[x] /\ x # t
    BY <1>1, <1>5
  <2>2. QED
    BY <2>1, <1>2, <1>3, <1>4, <1>5 DEF UsedIffLinkedOnce
<1>9. OrderedToTheMillisecond'
  BY <1>1, <1>3, <1>5 DEF OrderedToTheMillisecond, Ordered
<1>10. NoOverdueTimerLeft' /\ NeverEarlyByAMillisecond'
  BY <1>3, <1>4, <1>5 DEF NoOverdueTimerLeft, NeverEarlyByAMillisecond, IInv
<1>11. SleepCoversQueue'
  BY <1>5 DEF SleepCoversQueue
<1>12. QED
  BY <1>5, <1>6, <1>7, <1>8, <1>9, <1>10, <1>11 DEF IInv

(* timer_age_queue(): the scan. *)
LEMMA AgeIInv ==
    ASSUME IInv, timer_age_queue
    PROVE  IInv'
<1>1. /\ TypeOK /\ clock \in Nat /\ TQ \in Seq(Timer)
      /\ Once(TQ) /\ Ordered(TQ, timeout) /\ expTQ = <<>>
      /\ \A x \in Timer : used[x] <=> On(x, TQ)
  BY EmptyList DEF IInv, TypeOK, UsedIffLinkedOnce, OrderedToTheMillisecond,
                   timer_age_queue
<1>2. CASE TQ = <<>>
  <2>1. /\ now' = clock /\ wait' = NULL /\ pc' = "select"
        /\ UNCHANGED <<TQ, expTQ, clock, timeout, used, sets>>
    BY <1>2 DEF timer_age_queue
  <2>2. TypeOK'
    BY <1>1, <2>1 DEF TypeOK
  <2>3. UsedIffLinkedOnce' /\ OrderedToTheMillisecond'
    BY <2>1 DEF IInv, UsedIffLinkedOnce, OrderedToTheMillisecond
  <2>4. NoOverdueTimerLeft' /\ NeverEarlyByAMillisecond'
    BY <1>1, <2>1, EmptyList DEF NoOverdueTimerLeft, NeverEarlyByAMillisecond
  <2>5. SleepCoversQueue'
    BY <1>2, <2>1 DEF SleepCoversQueue
  <2>6. now' <= clock'
    BY <1>1, <2>1
  <2>7. QED
    BY <1>1, <2>1, <2>2, <2>3, <2>4, <2>5, <2>6 DEF IInv
<1>3. CASE TQ # <<>>
  <2> DEFINE k == due(TQ, clock)
             e == SubSeq(TQ, 1, k)
             r == SubSeq(TQ, k + 1, Len(TQ))
  <2>1. /\ now' = clock /\ pc' = "fire" /\ expTQ' = e /\ TQ' = r
        /\ UNCHANGED <<wait, clock, timeout, used, sets>>
    BY <1>3 DEF timer_age_queue
  <2>2. /\ e \in Seq(Timer) /\ r \in Seq(Timer)
        /\ Once(e) /\ Once(r) /\ Ordered(r, timeout)
        /\ \A x \in Timer : On(x, TQ) <=> On(x, e) \/ On(x, r)
        /\ \A x \in Timer : ~ (On(x, e) /\ On(x, r))
        /\ \A x \in Timer : On(x, e) => timeout[x] < clock + MS
        /\ \A x \in Timer : On(x, r) => timeout[x] > clock
    BY <1>1, ScanProperties
  <2> HIDE DEF k, e, r
  <2>3. TypeOK'
    BY <1>1, <2>1, <2>2 DEF TypeOK
  <2>4. UsedIffLinkedOnce'
    BY <1>1, <2>1, <2>2 DEF UsedIffLinkedOnce
  <2>5. OrderedToTheMillisecond'
    BY <2>1, <2>2 DEF OrderedToTheMillisecond
  <2>6. NoOverdueTimerLeft'
    <3>1. \A x \in Timer : timeout[x] \in Int /\ clock \in Int
      BY <1>1 DEF TypeOK
    <3>2. QED
      BY <3>1, <2>1, <2>2 DEF NoOverdueTimerLeft
  <2>7. NeverEarlyByAMillisecond'
    BY <2>1, <2>2 DEF NeverEarlyByAMillisecond
  <2>8. SleepCoversQueue' /\ now' <= clock'
    BY <1>1, <2>1 DEF SleepCoversQueue
  <2>9. QED
    BY <2>1, <2>3, <2>4, <2>5, <2>6, <2>7, <2>8 DEF IInv
<1>4. QED
  BY <1>2, <1>3

(* timer_timeout(): the head of expTQ leaves the list. *)
LEMMA FireIInv ==
    ASSUME IInv, timer_timeout
    PROVE  IInv'
<1> DEFINE h == Head(expTQ)
           e == Tail(expTQ)
<1>1. /\ TypeOK /\ expTQ \in Seq(Timer) /\ expTQ # <<>> /\ Once(expTQ)
      /\ used \in [Timer -> BOOLEAN]
      /\ \A x \in Timer : used[x] <=> On(x, TQ) \/ On(x, expTQ)
      /\ \A x \in Timer : ~ (On(x, TQ) /\ On(x, expTQ))
  BY DEF IInv, TypeOK, UsedIffLinkedOnce, timer_timeout
<1>2. /\ h = expTQ[1] /\ h \in Timer
      /\ e \in Seq(Timer) /\ Len(e) = Len(expTQ) - 1 /\ Len(expTQ) \in Nat
      /\ DOMAIN e = 1..(Len(expTQ) - 1) /\ DOMAIN expTQ = 1..Len(expTQ)
      /\ \A i \in 1..(Len(expTQ) - 1) : e[i] = expTQ[i + 1]
      /\ 1 \in DOMAIN expTQ
  BY <1>1
<1>3. /\ expTQ' = e /\ used' = [used EXCEPT ![h] = FALSE]
      /\ pc = "fire" /\ pc' = "handler"
      /\ UNCHANGED <<clock, TQ, timeout, now, wait, sets>>
  BY DEF timer_timeout
<1> HIDE DEF h, e
<1>4. \A i \in DOMAIN e : i + 1 \in DOMAIN expTQ /\ i + 1 # 1
  BY <1>2
<1>5. Once(e)
  <2> SUFFICES ASSUME NEW i \in DOMAIN e, NEW j \in DOMAIN e, e[i] = e[j]
               PROVE  i = j
    BY DEF Once
  <2>1. i + 1 = j + 1
    BY <1>1, <1>2, <1>4 DEF Once
  <2>2. QED
    BY <2>1, <1>2
<1>6. ASSUME NEW x \in Timer, On(x, e)
      PROVE  On(x, expTQ) /\ x # h
  BY <1>6, <1>1, <1>2, <1>4 DEF On, Once
<1>7. ASSUME NEW x \in Timer, On(x, expTQ), x # h
      PROVE  On(x, e)
  <2>1. PICK i \in DOMAIN expTQ : expTQ[i] = x
    BY <1>7 DEF On
  <2>2. i - 1 \in DOMAIN e /\ (i - 1) + 1 = i
    BY <2>1, <1>2, <1>7
  <2>3. e[i - 1] = x
    BY <2>1, <2>2, <1>2
  <2>4. QED
    BY <2>2, <2>3 DEF On
<1>8. On(h, expTQ)
  BY <1>2 DEF On
<1>9. TypeOK'
  BY <1>1, <1>2, <1>3 DEF TypeOK
<1>10. UsedIffLinkedOnce'
  <2>1. \A x \in Timer : used'[x] <=> used[x] /\ x # h
    BY <1>1, <1>3
  <2>2. Once(TQ)
    BY DEF IInv, UsedIffLinkedOnce
  <2>3. QED
    BY <2>1, <2>2, <1>1, <1>2, <1>3, <1>5, <1>6, <1>7, <1>8 DEF UsedIffLinkedOnce
<1>11. OrderedToTheMillisecond' /\ NoOverdueTimerLeft' /\ NeverEarlyByAMillisecond'
  BY <1>3, <1>6 DEF IInv, OrderedToTheMillisecond, NoOverdueTimerLeft,
                    NeverEarlyByAMillisecond
<1>12. SleepCoversQueue'
  BY <1>3 DEF SleepCoversQueue
<1>13. QED
  BY <1>3, <1>9, <1>10, <1>11, <1>12 DEF IInv

(* The end of timer_age_queue(): the head of TQ expires within a           *)
(* millisecond of the earliest timer, so sleeping until then oversleeps    *)
(* none by more.                                                           *)
LEMMA RemainingIInv ==
    ASSUME IInv, Remaining
    PROVE  IInv'
<1>1. /\ TypeOK /\ TQ \in Seq(Timer) /\ timeout \in [Timer -> Int] /\ now \in Nat
      /\ Ordered(TQ, timeout) /\ MS \in Nat /\ MS > 0 /\ NULL \notin Int
      /\ pc = "fire" /\ expTQ = <<>>
      /\ \A x \in Timer : On(x, TQ) => timeout[x] >= now
  BY TimerQueueAssumption
     DEF IInv, TypeOK, OrderedToTheMillisecond, NoOverdueTimerLeft, Remaining
<1>2. /\ wait' = IF TQ = <<>> THEN NULL ELSE timeout[Head(TQ)] - now
      /\ pc' = "select"
      /\ UNCHANGED <<clock, TQ, expTQ, timeout, used, now, sets>>
  BY DEF Remaining
<1>3. UsedIffLinkedOnce' /\ OrderedToTheMillisecond' /\ NoOverdueTimerLeft'
        /\ NeverEarlyByAMillisecond'
  BY <1>2 DEF IInv, UsedIffLinkedOnce, OrderedToTheMillisecond,
              NoOverdueTimerLeft, NeverEarlyByAMillisecond
<1>4. CASE TQ = <<>>
  <2>1. TypeOK' /\ SleepCoversQueue'
    BY <1>1, <1>2, <1>4 DEF TypeOK, SleepCoversQueue
  <2>2. QED
    BY <1>1, <1>2, <1>3, <2>1 DEF IInv
<1>5. CASE TQ # <<>>
  <2>1. /\ Head(TQ) = TQ[1] /\ 1 \in DOMAIN TQ /\ TQ[1] \in Timer
        /\ DOMAIN TQ \subseteq Nat \ {0}
    BY <1>1, <1>5
  <2>2. /\ timeout[TQ[1]] \in Int /\ timeout[TQ[1]] >= now
        /\ wait' = timeout[TQ[1]] - now
    BY <1>1, <1>2, <1>5, <2>1 DEF On
  <2>3. ASSUME NEW x \in Timer, On(x, TQ)
        PROVE  now + wait' < timeout[x] + MS
    <3>1. PICK i \in DOMAIN TQ : TQ[i] = x
      BY <2>3 DEF On
    <3>2. timeout[TQ[1]] < timeout[x] + MS
      <4>1. CASE i = 1
        BY <4>1, <3>1, <1>1, <2>2
      <4>2. CASE i # 1
        <5>1. 1 < i
          BY <4>2, <2>1
        <5>2. QED
          BY <5>1, <3>1, <2>1, <1>1 DEF Ordered
      <4>3. QED
        BY <4>1, <4>2
    <3>3. timeout[x] \in Int
      BY <1>1
    <3>4. QED
      BY <3>2, <3>3, <2>2, <1>1
  <2>4. wait' \in Int /\ wait' >= 0 /\ wait' # NULL
    BY <2>2, <1>1
  <2>5. TypeOK'
    BY <1>1, <1>2, <2>4 DEF TypeOK
  <2>6. SleepCoversQueue'
    BY <1>2, <2>3, <2>4 DEF SleepCoversQueue
  <2>7. QED
    BY <1>1, <1>2, <1>3, <2>5, <2>6 DEF IInv
<1>6. QED
  BY <1>4, <1>5

(* The steps that leave the lists alone: returns, pselect() and the clock. *)
LEMMA LoopIInv ==
    ASSUME IInv, Return \/ pselect \/ Tick
    PROVE  IInv'
<1>1. CASE Return
  BY <1>1 DEF Return, InUserCode, IInv, TypeOK, UsedIffLinkedOnce,
              OrderedToTheMillisecond, NoOverdueTimerLeft,
              NeverEarlyByAMillisecond, SleepCoversQueue
<1>2. CASE pselect
  BY <1>2 DEF pselect, IInv, TypeOK, UsedIffLinkedOnce,
              OrderedToTheMillisecond, NoOverdueTimerLeft,
              NeverEarlyByAMillisecond, SleepCoversQueue
<1>3. CASE Tick
  BY <1>3 DEF Tick, IInv, TypeOK, UsedIffLinkedOnce,
              OrderedToTheMillisecond, NoOverdueTimerLeft,
              NeverEarlyByAMillisecond, SleepCoversQueue
<1>4. QED
  BY <1>1, <1>2, <1>3

LEMMA NextIInv == IInv /\ [Next]_vars => IInv'
<1> SUFFICES ASSUME IInv, [Next]_vars PROVE IInv'
  OBVIOUS
<1>1. CASE UNCHANGED vars
  BY <1>1 DEF vars, IInv, TypeOK, UsedIffLinkedOnce, OrderedToTheMillisecond,
              NoOverdueTimerLeft, NeverEarlyByAMillisecond, SleepCoversQueue
<1>2. CASE Next
  BY <1>2, SetIInv, RemoveIInv, AgeIInv, FireIInv, RemainingIInv, LoopIInv DEF Next
<1>3. QED
  BY <1>1, <1>2

(* The timer queue keeps its invariant in every behaviour of the main loop,*)
(* whatever the handlers and the callbacks do to the timers.               *)
THEOREM TimerQueueInvariant == Spec => []IInv
  BY InitIInv, NextIInv, PTL DEF Spec

(* The type invariant of the timer queue. *)
THEOREM TimerQueueTypeOK == Spec => []TypeOK
<1>1. IInv => TypeOK
  BY DEF IInv
<1>2. QED
  BY <1>1, TimerQueueInvariant, PTL

(* Handlers that set and remove timers while timer_timeout() runs never    *)
(* lose a timer, link one twice or leave a stale mark.                     *)
THEOREM TimersLinkedOnce == Spec => []UsedIffLinkedOnce
<1>1. IInv => UsedIffLinkedOnce
  BY DEF IInv
<1>2. QED
  BY <1>1, TimerQueueInvariant, PTL

(* timer_add() keeps the queue in an order that is right to the            *)
(* millisecond, whatever the handlers and callbacks set and remove.        *)
THEOREM QueueIsOrdered == Spec => []OrderedToTheMillisecond
<1>1. IInv => OrderedToTheMillisecond
  BY DEF IInv
<1>2. QED
  BY <1>1, TimerQueueInvariant, PTL

(* The scan of timer_timeout() leaves no timer behind whose time has       *)
(* passed, although timer_add() orders them to the millisecond only.       *)
THEOREM ScanFindsAllDue == Spec => []NoOverdueTimerLeft
<1>1. IInv => NoOverdueTimerLeft
  BY DEF IInv
<1>2. QED
  BY <1>1, TimerQueueInvariant, PTL

(* timer_timeout() runs no handler a millisecond early.                    *)
THEOREM HandlersNotEarly == Spec => []NeverEarlyByAMillisecond
<1>1. IInv => NeverEarlyByAMillisecond
  BY DEF IInv
<1>2. QED
  BY <1>1, TimerQueueInvariant, PTL

(* pselect() is never told to sleep a negative time, nor past a pending    *)
(* timer by a millisecond or more.                                         *)
THEOREM TimersOnTime == Spec => []SleepCoversQueue
<1>1. IInv => SleepCoversQueue
  BY DEF IInv
<1>2. QED
  BY <1>1, TimerQueueInvariant, PTL
=============================================================================
