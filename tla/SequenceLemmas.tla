--------------------------- MODULE SequenceLemmas ---------------------------
(***************************************************************************)
(* What the operators on lists do, as the proofs about the timer queue,    *)
(* the daemon and the kernel module need it.                               *)
(***************************************************************************)
EXTENDS Integers, Sequences, FiniteSets, SequencesExt, WellFoundedInduction, TLAPS

(* One list behind another.                                                *)
LEMMA ConcatElements ==
    ASSUME NEW S, NEW s1 \in Seq(S), NEW s2 \in Seq(S)
    PROVE  /\ s1 \o s2 \in Seq(S)
           /\ Len(s1 \o s2) = Len(s1) + Len(s2)
           /\ \A i \in 1..(Len(s1) + Len(s2)) :
                (s1 \o s2)[i] = IF i <= Len(s1) THEN s1[i] ELSE s2[i - Len(s1)]
  OBVIOUS

(* RemoveAt closes the gap at index k: the others keep their order.        *)
LEMMA RemoveAtElements ==
    ASSUME NEW S, NEW q \in Seq(S), NEW k \in 1..Len(q)
    PROVE  /\ RemoveAt(q, k) \in Seq(S)
           /\ Len(RemoveAt(q, k)) = Len(q) - 1
           /\ \A i \in 1..(Len(q) - 1) :
                RemoveAt(q, k)[i] = IF i < k THEN q[i] ELSE q[i + 1]
<1>1. /\ SubSeq(q, 1, k-1) \in Seq(S)
      /\ SubSeq(q, k+1, Len(q)) \in Seq(S)
      /\ Len(SubSeq(q, 1, k-1)) = k - 1
      /\ Len(SubSeq(q, k+1, Len(q))) = Len(q) - k
  OBVIOUS
<1>2. /\ \A i \in 1..(k-1) : SubSeq(q, 1, k-1)[i] = q[i]
      /\ \A i \in 1..(Len(q) - k) : SubSeq(q, k+1, Len(q))[i] = q[i + k]
  OBVIOUS
<1> DEFINE a == SubSeq(q, 1, k-1)
           b == SubSeq(q, k+1, Len(q))
<1>3. /\ a \o b \in Seq(S)
      /\ Len(a \o b) = Len(a) + Len(b)
      /\ \A i \in 1..(Len(a) + Len(b)) :
           (a \o b)[i] = IF i <= Len(a) THEN a[i] ELSE b[i - Len(a)]
  BY <1>1, ConcatElements, Zenon
<1>4. RemoveAt(q, k) = a \o b
  BY DEF RemoveAt
<1>5. /\ Len(a) = k - 1
      /\ Len(b) = Len(q) - k
      /\ \A i \in 1..(k-1) : a[i] = q[i]
      /\ \A i \in 1..(Len(q) - k) : b[i] = q[i + k]
  BY <1>1, <1>2
<1> HIDE DEF a, b
<1>6. /\ Len(a \o b) = Len(q) - 1
      /\ \A i \in 1..(Len(q) - 1) :
           (a \o b)[i] = IF i < k THEN q[i] ELSE q[i + 1]
  <2>1. Len(a \o b) = Len(q) - 1
    BY <1>3, <1>5
  <2>2. ASSUME NEW i \in 1..(Len(q) - 1)
        PROVE  (a \o b)[i] = IF i < k THEN q[i] ELSE q[i + 1]
    <3>1. CASE i < k
      BY <3>1, <1>3, <1>5
    <3>2. CASE ~(i < k)
      <4>1. i - (k - 1) \in 1..(Len(q) - k)
        BY <3>2
      <4>2. b[i - (k - 1)] = q[i - (k - 1) + k]
        BY <4>1, <1>5
      <4>3. QED
        BY <3>2, <4>1, <4>2, <1>3, <1>5
    <3>3. QED
      BY <3>1, <3>2, Zenon
  <2>3. QED
    BY <2>1, <2>2
<1>7. QED
  BY <1>3, <1>4, <1>6

(* InsertAt opens a gap at index k for e and keeps the order of the rest. *)
LEMMA InsertAtElements ==
    ASSUME NEW S, NEW q \in Seq(S), NEW k \in 1..(Len(q) + 1), NEW e \in S
    PROVE  /\ InsertAt(q, k, e) \in Seq(S)
           /\ Len(InsertAt(q, k, e)) = Len(q) + 1
           /\ \A i \in 1..(Len(q) + 1) :
                InsertAt(q, k, e)[i] = IF i < k THEN q[i]
                                       ELSE IF i = k THEN e ELSE q[i - 1]
<1> DEFINE a == SubSeq(q, 1, k-1)
           b == SubSeq(q, k, Len(q))
<1>1. /\ a \in Seq(S)
      /\ b \in Seq(S)
      /\ Len(a) = k - 1
      /\ Len(b) = Len(q) - k + 1
  OBVIOUS
<1>2. /\ \A i \in 1..(k-1) : a[i] = q[i]
      /\ \A i \in 1..(Len(q) - k + 1) : b[i] = q[i + k - 1]
  OBVIOUS
<1> DEFINE c == <<e>>
<1>3. c \in Seq(S) /\ Len(c) = 1 /\ c[1] = e
  OBVIOUS
<1>4. InsertAt(q, k, e) = (a \o c) \o b
  BY DEF InsertAt
<1> HIDE DEF a, b, c
<1>5. /\ a \o c \in Seq(S)
      /\ Len(a \o c) = Len(a) + Len(c)
      /\ \A i \in 1..(Len(a) + Len(c)) :
           (a \o c)[i] = IF i <= Len(a) THEN a[i] ELSE c[i - Len(a)]
  BY <1>1, <1>3, ConcatElements, Zenon
<1> DEFINE ac == a \o c
<1>6. /\ ac \in Seq(S)
      /\ Len(ac) = k
      /\ \A i \in 1..(k-1) : ac[i] = q[i]
      /\ ac[k] = e
  <2> HIDE DEF ac
  <2>1. /\ ac \in Seq(S)
        /\ Len(ac) = Len(a) + Len(c)
        /\ \A i \in 1..(Len(a) + Len(c)) :
             ac[i] = IF i <= Len(a) THEN a[i] ELSE c[i - Len(a)]
    BY <1>5, Zenon DEF ac
  <2>2. Len(a) = k - 1 /\ Len(c) = 1 /\ k \in Nat \ {0}
    BY <1>1, <1>3
  <2>3. Len(ac) = k
    BY <2>1, <2>2
  <2>4. ASSUME NEW i \in 1..(k-1) PROVE ac[i] = q[i]
    <3>1. i \in 1..(Len(a) + Len(c)) /\ i <= Len(a)
      BY <2>2
    <3>2. ac[i] = a[i]
      BY <2>1, <3>1
    <3>3. QED
      BY <1>2, <3>2
  <2>5. ac[k] = e
    <3>1. k \in 1..(Len(a) + Len(c)) /\ ~(k <= Len(a)) /\ k - Len(a) = 1
      BY <2>2
    <3>2. ac[k] = c[1]
      BY <2>1, <3>1
    <3>3. QED
      BY <1>3, <3>2
  <2>6. QED
    BY <2>1, <2>3, <2>4, <2>5, Zenon
<1> HIDE DEF ac
<1>7. /\ ac \o b \in Seq(S)
      /\ Len(ac \o b) = Len(ac) + Len(b)
      /\ \A i \in 1..(Len(ac) + Len(b)) :
           (ac \o b)[i] = IF i <= Len(ac) THEN ac[i] ELSE b[i - Len(ac)]
  BY <1>1, <1>6, ConcatElements, Zenon
<1>8. Len(ac \o b) = Len(q) + 1
  BY <1>1, <1>6, <1>7
<1>9. ASSUME NEW i \in 1..(Len(q) + 1)
      PROVE  (ac \o b)[i] = IF i < k THEN q[i] ELSE IF i = k THEN e ELSE q[i - 1]
  <2>1. CASE i <= k
    BY <2>1, <1>1, <1>6, <1>7
  <2>2. CASE ~(i <= k)
    <3>1. i - k \in 1..(Len(q) - k + 1)
      BY <2>2
    <3>2. b[i - k] = q[i - k + k - 1]
      BY <3>1, <1>2
    <3>3. QED
      BY <2>2, <3>1, <3>2, <1>1, <1>6, <1>7
  <2>3. QED
    BY <2>1, <2>2, Zenon
<1>10. QED
  BY <1>4, <1>7, <1>8, <1>9 DEF ac
-----------------------------------------------------------------------------
(* A set of naturals that is not empty has a least element, which Min      *)
(* finds.                                                                  *)
LEMMA MinIsLeast ==
    ASSUME NEW I \in SUBSET Nat, I # {}
    PROVE  Min(I) \in I /\ \A i \in I : Min(I) <= i
<1>. DEFINE R == OpToRel(<, Nat)
<1>1. IsWellFoundedOn(R, Nat)
  BY NatLessThanWellFounded, Zenon
<1>2. \A x, y \in Nat : y < x => <<y, x>> \in R
  BY DEF OpToRel
<1>. HIDE DEF R
<1>3. PICK x \in I : \A y \in I : ~ (<<y, x>> \in R)
  BY <1>1, WFMin, Zenon
<1>4. \A j \in I : x \in Nat /\ j \in Nat /\ ~ (j < x)
  BY <1>2, <1>3, Zenon
<1>5. \A j \in I : x <= j
  BY <1>4
<1>. QED
  BY <1>5, Zenon DEF Min

(* A finite set of naturals has a greatest element, which Max finds: the   *)
(* distances to a bound have a least one.                                  *)
LEMMA MaxIsGreatest ==
    ASSUME NEW n \in Nat, NEW I \in SUBSET (0 .. n), I # {}
    PROVE  Max(I) \in I /\ \A i \in I : i <= Max(I)
<1>. DEFINE J == {n - i : i \in I}
<1>1. J \in SUBSET Nat /\ J # {}
  <2>1. \A i \in I : n - i \in Nat
    OBVIOUS
  <2>2. J \subseteq Nat
    BY <2>1
  <2>3. PICK i \in I : TRUE
    OBVIOUS
  <2>4. n - i \in J
    OBVIOUS
  <2>. QED
    BY <2>2, <2>4
<1>2. Min(J) \in J /\ \A j \in J : Min(J) <= j
  BY <1>1, MinIsLeast
<1>3. PICK x \in I : Min(J) = n - x
  BY <1>2
<1>4. \A i \in I : n - x <= n - i
  BY <1>2, <1>3
<1>5. \A i \in I : x >= i
  BY <1>4
<1>6. Max(I) \in I /\ \A i \in I : Max(I) >= i
  BY <1>5, Zenon DEF Max
<1>. QED
  BY <1>6

(* The first index of I in a list of length n, or 0.                       *)
LEMMA FirstIndex ==
    ASSUME NEW n \in Nat, NEW I \in SUBSET (1 .. n), NEW k,
           k = IF I # {} THEN Min(I) ELSE 0
    PROVE  /\ k \in 0 .. n
           /\ k = 0 <=> I = {}
           /\ k # 0 => k \in I /\ \A i \in I : k <= i
<1>1. CASE I = {}
  BY <1>1
<1>2. CASE I # {}
  <2>1. I \in SUBSET Nat
    OBVIOUS
  <2>2. Min(I) \in I /\ \A i \in I : Min(I) <= i
    BY <1>2, <2>1, MinIsLeast
  <2>3. k = Min(I)
    BY <1>2
  <2>4. k \in I /\ k \in 1 .. n /\ \A i \in I : k <= i
    BY <2>2, <2>3
  <2>. QED
    BY <1>2, <2>4
<1>. QED
  BY <1>1, <1>2

-----------------------------------------------------------------------------
(* Packet buffers                                                          *)

(* A step of PacketBuffer from line l to line m: n of the packets stay,    *)
(* the first n of m, and was says where each of them was.                  *)
Buffered(l, m, n, was) ==
    /\ n \in 0 .. Len(m) /\ was \in [1 .. n -> DOMAIN l]
    /\ \A i \in 1 .. n : m[i] = l[was[i]]
    /\ \A i, j \in 1 .. n : i < j => was[i] < was[j]
    /\ \A i, j \in DOMAIN l :
          i < j /\ l[i].dest = l[j].dest /\ i \in {was[k] : k \in 1 .. n} => j \in {was[k] : k \in 1 .. n}
    /\ \A i, j \in DOMAIN m : i # j => m[i].id # m[j].id
    /\ \A i \in DOMAIN l, j \in n + 1 .. Len(m) : l[i].id # m[j].id

(* A packet joins behind the others. *)
LEMMA LineGrows ==
    ASSUME NEW S, NEW l \in Seq(S), NEW m \in Seq(S), Len(m) = Len(l) + 1,
           \A i \in 1 .. Len(l) : m[i] = l[i],
           \A i, j \in 1 .. Len(l) : i # j => l[i].id # l[j].id,
           \A i \in 1 .. Len(l) : l[i].id # m[Len(m)].id
    PROVE  \E n, was : Buffered(l, m, n, was)
<1>. DEFINE n == Len(l)  was == [i \in 1 .. n |-> i]
<1>1. DOMAIN l = 1 .. n /\ DOMAIN m = 1 .. n + 1 /\ n \in Nat /\ Len(m) = n + 1
  OBVIOUS
<1>2. was \in [1 .. n -> 1 .. n] /\ (\A i \in 1 .. n : was[i] = i) /\ {was[k] : k \in 1 .. n} = 1 .. n
  OBVIOUS
<1>3. /\ \A i, j \in 1 .. n : i # j => l[i].id # l[j].id
      /\ \A i \in 1 .. n : m[i] = l[i] /\ l[i].id # m[n + 1].id
  BY <1>1
<1>. HIDE DEF n, was
<1>4. \A i, j \in 1 .. n + 1 : i # j => m[i].id # m[j].id
  BY <1>1, <1>3
<1>5. Buffered(l, m, n, was)
  BY <1>1, <1>2, <1>3, <1>4 DEF Buffered
<1>. QED
  BY <1>5

(* The packet at k leaves, which no other for its destination precedes. *)
LEMMA LineYields ==
    ASSUME NEW S, NEW l \in Seq(S), NEW k \in 1 .. Len(l),
           \A i, j \in 1 .. Len(l) : i # j => l[i].id # l[j].id,
           \A j \in 1 .. Len(l) : j < k => l[j].dest # l[k].dest
    PROVE  \E n, was : Buffered(l, RemoveAt(l, k), n, was)
<1>. DEFINE m == RemoveAt(l, k)  n == Len(l) - 1
            at(i) == IF i < k THEN i ELSE i + 1  was == [i \in 1 .. n |-> at(i)]
            kept == {was[i] : i \in 1 .. n}
<1>1. m \in Seq(S) /\ Len(m) = n /\ n \in Nat /\ \A i \in 1 .. n : m[i] = l[at(i)]
  <2>1. /\ m \in Seq(S) /\ Len(m) = Len(l) - 1
        /\ \A i \in 1 .. (Len(l) - 1) : m[i] = IF i < k THEN l[i] ELSE l[i + 1]
    BY RemoveAtElements
  <2>2. Len(l) - 1 \in Nat
    OBVIOUS
  <2>. HIDE DEF m
  <2>. QED
    BY <2>1, <2>2
<1>. HIDE DEF n
<1>2. /\ \A i \in 1 .. n : at(i) \in 1 .. n + 1 /\ at(i) # k
      /\ \A i, j \in 1 .. n : i < j => at(i) < at(j)
      /\ \A i, j \in 1 .. n : i # j => at(i) # at(j)
  BY <1>1 DEF n
<1>3. ASSUME NEW j \in 1 .. n + 1, j # k PROVE \E i \in 1 .. n : at(i) = j
  <2>1. CASE j < k
    <3>1. j \in 1 .. n /\ at(j) = j
      BY <1>1, <2>1 DEF n
    <3>. QED
      BY <3>1
  <2>2. CASE j > k
    <3>1. j - 1 \in 1 .. n /\ at(j - 1) = j
      BY <1>1, <2>2 DEF n
    <3>. QED
      BY <3>1
  <2>. QED
    BY <1>3, <2>1, <2>2
<1>4. was \in [1 .. n -> 1 .. n + 1] /\ \A i \in 1 .. n : was[i] = at(i)
  BY <1>2
<1>5. \A j \in 1 .. n + 1 : j \in kept <=> j # k
  BY <1>2, <1>3, <1>4
<1>6. /\ DOMAIN l = 1 .. n + 1 /\ DOMAIN m = 1 .. n /\ n \in 0 .. Len(m) /\ n + 1 .. Len(m) = {}
      /\ \A i, j \in 1 .. n + 1 : i # j => l[i].id # l[j].id
      /\ \A j \in 1 .. n + 1 : j < k => l[j].dest # l[k].dest
  BY <1>1 DEF n
<1>. HIDE DEF m, was, at, kept
<1>7. \A i, j \in 1 .. n : i # j => m[i].id # m[j].id
  <2>. TAKE i, j \in 1 .. n
  <2>1. m[i] = l[at(i)] /\ m[j] = l[at(j)] /\ at(i) \in 1 .. n + 1 /\ at(j) \in 1 .. n + 1
        /\ (i # j => at(i) # at(j))
    BY <1>1, <1>2
  <2>. QED
    BY <1>6, <2>1
<1>8. \A i, j \in 1 .. n + 1 : i < j /\ l[i].dest = l[j].dest /\ i \in kept => j \in kept
  BY <1>5, <1>6
<1>9. /\ \A i \in 1 .. n : m[i] = l[was[i]]
      /\ \A i, j \in 1 .. n : i < j => was[i] < was[j]
  BY <1>1, <1>2, <1>4
<1>10. Buffered(l, m, n, was)
  BY <1>4, <1>6, <1>7, <1>8, <1>9 DEF Buffered, kept
<1>. QED
  BY <1>10 DEF m

(* All packets leave. *)
LEMMA LineEmpties ==
    ASSUME NEW l
    PROVE  \E n, was : Buffered(l, <<>>, n, was)
<1>. DEFINE was == [i \in 1 .. 0 |-> i]
<1>1. was \in [1 .. 0 -> DOMAIN l]
  OBVIOUS
<1>. HIDE DEF was
<1>2. Buffered(l, <<>>, 0, was)
  BY <1>1 DEF Buffered
<1>. QED
  BY <1>2
=============================================================================
