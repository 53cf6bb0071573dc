----------------------------- MODULE ListLemmas -----------------------------
(***************************************************************************)
(* What the operators of Lists do, for every sequence.  Without is defined *)
(* by recursion over a sequence: no prover here takes the library's        *)
(* induction theorems, which have an operator as a parameter, so induction *)
(* is by the least counterexample, over sets of numbers.                   *)
(***************************************************************************)
EXTENDS Lists, WellFoundedInduction, SequenceTheorems, TLAPS

(* A set of numbers that is not empty has a least one. *)
LEMMA LeastNatural ==
  ASSUME NEW T \in SUBSET Nat, T # {}
  PROVE  \E m \in T : \A k \in T : m <= k
<1> DEFINE R == OpToRel(<, Nat)
<1>1. IsWellFoundedOn(R, Nat)
  BY NatLessThanWellFounded
<1>2. \A x, y \in Nat : <<x, y>> \in R <=> x < y
  BY DEF OpToRel
<1> HIDE DEF R
<1>3. PICK m \in T : \A y \in T : ~(<<y, m>> \in R)
  BY <1>1, WFMin
<1>4. \A k \in T : m <= k
  <2> TAKE k \in T
  <2>1. k \in Nat /\ m \in Nat
    OBVIOUS
  <2>2. ~(k < m)
    BY <1>2, <1>3, <2>1
  <2> QED
    BY <2>1, <2>2
<1> QED
  BY <1>4

(* Induction, for a set of numbers rather than for a predicate, which no prover
   here takes as an argument *)
LEMMA Induction ==
  ASSUME NEW S, 0 \in S, \A n \in Nat : n \in S => n + 1 \in S
  PROVE  Nat \subseteq S
<1> SUFFICES ASSUME NEW x \in Nat, x \notin S PROVE FALSE
  OBVIOUS
<1>1. PICK m \in Nat \ S : \A k \in Nat \ S : m <= k
  BY LeastNatural
<1>2. m # 0 /\ m - 1 \in Nat
  BY <1>1
<1>3. m - 1 \in S
  BY <1>1, <1>2
<1> QED
  BY <1>1, <1>2, <1>3

Left(w, list, gone, n) ==
  w = [i \in 0 .. n |->
         IF i = 0 THEN <<>> ELSE IF list[i] \in gone THEN w[i - 1] ELSE Append(w[i - 1], list[i])]

(* The recursion that defines Without has a solution. *)
LEMMA LeftExists ==
  ASSUME NEW list, NEW gone, NEW n \in Nat
  PROVE  \E w : Left(w, list, gone, n)
<1> DEFINE S == {k \in Nat : \E w : Left(w, list, gone, k)}
<1>1. 0 \in S
  <2> DEFINE w == [i \in 0 .. 0 |-> <<>>]
  <2>1. Left(w, list, gone, 0)
    BY DEF Left
  <2> QED
    BY <2>1
<1>2. ASSUME NEW k \in Nat, k \in S
      PROVE  k + 1 \in S
  <2>1. PICK v : Left(v, list, gone, k)
    BY <1>2
  <2> DEFINE w == [i \in 0 .. k + 1 |->
                     IF i <= k THEN v[i] ELSE IF list[k + 1] \in gone THEN v[k] ELSE Append(v[k], list[k + 1])]
  <2>2. ASSUME NEW i \in 0 .. k + 1
        PROVE  w[i] = IF i = 0 THEN <<>> ELSE IF list[i] \in gone THEN w[i - 1] ELSE Append(w[i - 1], list[i])
    <3>1. CASE i = 0
      BY <2>1, <3>1 DEF Left
    <3>2. CASE i # 0 /\ i <= k
      <4>1. i - 1 \in 0 .. k + 1 /\ i - 1 <= k /\ i \in 0 .. k
        BY <3>2
      <4>2. w[i - 1] = v[i - 1] /\ w[i] = v[i]
        BY <4>1, <3>2
      <4>3. v[i] = IF list[i] \in gone THEN v[i - 1] ELSE Append(v[i - 1], list[i])
        BY <2>1, <3>2, <4>1 DEF Left
      <4> QED
        BY <4>2, <4>3, <3>2
    <3>3. CASE i = k + 1
      <4>1. w[k] = v[k] /\ w[k + 1] = IF list[k + 1] \in gone THEN v[k] ELSE Append(v[k], list[k + 1])
        OBVIOUS
      <4> HIDE DEF w
      <4> QED
        BY <4>1, <3>3
    <3> QED
      BY <3>1, <3>2, <3>3
  <2>3. Left(w, list, gone, k + 1)
    BY <2>2 DEF Left
  <2> QED
    BY <2>3
<1>3. Nat \subseteq S
  <2> HIDE DEF S
  <2> QED
    BY <1>1, <1>2, Induction
<1> QED
  BY <1>3

(* And Without is the last value of one. *)
LEMMA WithoutLeft ==
  ASSUME NEW M, NEW list \in Seq(M), NEW gone
  PROVE  \E w : Left(w, list, gone, Len(list)) /\ Without(list, gone) = w[Len(list)]
<1> DEFINE W == CHOOSE w : Left(w, list, gone, Len(list))
<1>1. Left(W, list, gone, Len(list))
  <2>1. Len(list) \in Nat
    OBVIOUS
  <2> QED
    BY <2>1, LeftExists
<1>2. Without(list, gone) = W[Len(list)]
  BY DEF Without, Left
<1> QED
  BY <1>1, <1>2

(* e shows where the elements of part, which are those of list that are not in
   gone, are in list. *)
Selects(e, part, list, gone, n) ==
  /\ e \in [1 .. Len(part) -> 1 .. n]
  /\ \A k \in 1 .. Len(part) : part[k] = list[e[k]] /\ part[k] \notin gone
  /\ \A k, l \in 1 .. Len(part) : k < l => e[k] < e[l]
  /\ \A i \in 1 .. n : list[i] \notin gone => \E k \in 1 .. Len(part) : e[k] = i

(* One step of that recursion selects one element more, or none. *)
LEMMA SelectsMore ==
  ASSUME NEW M, NEW list \in Seq(M), NEW gone, NEW n \in Nat, n + 1 <= Len(list), NEW part \in Seq(M),
         NEW e, Selects(e, part, list, gone, n)
  PROVE  LET more == IF list[n + 1] \in gone THEN part ELSE Append(part, list[n + 1])
         IN  more \in Seq(M) /\ \E f : Selects(f, more, list, gone, n + 1)
<1>1. list[n + 1] \in M
  OBVIOUS
<1>2. CASE list[n + 1] \in gone
  <2>1. Selects(e, part, list, gone, n + 1)
    <3>1. e \in [1 .. Len(part) -> 1 .. n + 1]
      BY DEF Selects
    <3>2. ASSUME NEW i \in 1 .. n + 1, list[i] \notin gone
          PROVE  \E k \in 1 .. Len(part) : e[k] = i
      <4>1. i \in 1 .. n
        BY <1>2, <3>2
      <4> QED
        BY <4>1, <3>2 DEF Selects
    <3> QED
      BY <3>1, <3>2 DEF Selects
  <2> QED
    BY <1>2, <2>1
<1>3. CASE list[n + 1] \notin gone
  <2> DEFINE more == Append(part, list[n + 1])
             f == [k \in 1 .. Len(part) + 1 |-> IF k <= Len(part) THEN e[k] ELSE n + 1]
  <2>1. /\ more \in Seq(M) /\ Len(more) = Len(part) + 1 /\ Len(part) \in Nat
        /\ \A k \in 1 .. Len(part) : more[k] = part[k]
        /\ more[Len(part) + 1] = list[n + 1]
    BY <1>1, AppendProperties
  <2>2. /\ e \in [1 .. Len(part) -> 1 .. n]
        /\ \A k \in 1 .. Len(part) : part[k] = list[e[k]] /\ part[k] \notin gone
        /\ \A k, l \in 1 .. Len(part) : k < l => e[k] < e[l]
        /\ \A i \in 1 .. n : list[i] \notin gone => \E k \in 1 .. Len(part) : e[k] = i
    BY DEF Selects
  <2>3. /\ f \in [1 .. Len(part) + 1 -> 1 .. n + 1]
        /\ \A k \in 1 .. Len(part) : f[k] = e[k] /\ f[k] \in 1 .. n
        /\ f[Len(part) + 1] = n + 1
    BY <2>1, <2>2
  <2> HIDE DEF more, f
  <2>4. ASSUME NEW k \in 1 .. Len(part) + 1
        PROVE  more[k] = list[f[k]] /\ more[k] \notin gone
    BY <1>3, <2>1, <2>2, <2>3
  <2>5. ASSUME NEW k \in 1 .. Len(part) + 1, NEW l \in 1 .. Len(part) + 1, k < l
        PROVE  f[k] < f[l]
    <3>1. k \in 1 .. Len(part)
      BY <2>1, <2>5
    <3> QED
      BY <2>1, <2>2, <2>3, <2>5, <3>1
  <2>6. ASSUME NEW i \in 1 .. n + 1, list[i] \notin gone
        PROVE  \E k \in 1 .. Len(part) + 1 : f[k] = i
    <3>1. CASE i = n + 1
      BY <2>1, <2>3, <3>1
    <3>2. CASE i # n + 1
      <4>1. PICK k \in 1 .. Len(part) : e[k] = i
        BY <2>2, <2>6, <3>2
      <4> QED
        BY <2>1, <2>3, <4>1
    <3> QED
      BY <3>1, <3>2
  <2>7. Selects(f, more, list, gone, n + 1)
    BY <2>1, <2>3, <2>4, <2>5, <2>6 DEF Selects
  <2> QED
    BY <1>3, <2>1, <2>7 DEF more
<1> QED
  BY <1>2, <1>3

(* Without selects, in their order, the elements that are not removed. *)
LEMMA WithoutSelects ==
  ASSUME NEW M, NEW list \in Seq(M), NEW gone
  PROVE  /\ Without(list, gone) \in Seq(M)
         /\ \E e : Selects(e, Without(list, gone), list, gone, Len(list))
<1>1. PICK w : Left(w, list, gone, Len(list)) /\ Without(list, gone) = w[Len(list)]
  BY WithoutLeft
<1> DEFINE S == {n \in Nat : n <= Len(list) => w[n] \in Seq(M) /\ \E e : Selects(e, w[n], list, gone, n)}
<1>2. 0 \in S
  <2>1. w[0] = <<>>
    BY <1>1 DEF Left
  <2>2. Selects([k \in 1 .. 0 |-> 0], <<>>, list, gone, 0)
    BY DEF Selects
  <2>3. w[0] \in Seq(M) /\ \E e : Selects(e, w[0], list, gone, 0)
    BY <2>1, <2>2
  <2> QED
    BY <2>3
<1>3. ASSUME NEW n \in Nat, n \in S
      PROVE  n + 1 \in S
  <2> SUFFICES ASSUME n + 1 <= Len(list)
               PROVE  w[n + 1] \in Seq(M) /\ \E e : Selects(e, w[n + 1], list, gone, n + 1)
    OBVIOUS
  <2>1. w[n] \in Seq(M)
    BY <1>3
  <2>2. PICK e : Selects(e, w[n], list, gone, n)
    BY <1>3
  <2>3. w[n + 1] = IF list[n + 1] \in gone THEN w[n] ELSE Append(w[n], list[n + 1])
    <3>1. n + 1 \in 0 .. Len(list) /\ n + 1 # 0 /\ (n + 1) - 1 = n
      OBVIOUS
    <3>2. Left(w, list, gone, Len(list))
      BY <1>1
    <3> HIDE DEF S
    <3> QED
      BY <3>1, <3>2 DEF Left
  <2> QED
    BY <2>1, <2>2, <2>3, SelectsMore
<1>4. Nat \subseteq S
  <2> HIDE DEF S
  <2> QED
    BY <1>2, <1>3, Induction
<1> QED
  BY <1>1, <1>4

-----------------------------------------------------------------------------
(* What removing entries leaves: the others, in the order they had. *)
LEMMA WithoutProperties ==
  ASSUME NEW M, NEW list \in Seq(M), NEW gone
  PROVE  /\ Without(list, gone) \in Seq(M)
         /\ ToSet(Without(list, gone)) = ToSet(list) \ gone
         /\ IsInjective(list) => IsInjective(Without(list, gone))
         /\ \A a, b : Before(Without(list, gone), a, b) <=>
                        Before(list, a, b) /\ a \notin gone /\ b \notin gone
<1> DEFINE part == Without(list, gone)
<1>1. part \in Seq(M)
  BY WithoutSelects
<1>2. PICK e : Selects(e, part, list, gone, Len(list))
  BY WithoutSelects
<1> HIDE DEF part
<1>3. /\ e \in [1..Len(part) -> 1..Len(list)]
      /\ \A k \in 1..Len(part) : part[k] = list[e[k]] /\ part[k] \notin gone
      /\ \A k, l \in 1..Len(part) : k < l => e[k] < e[l]
      /\ \A i \in 1..Len(list) : list[i] \notin gone => \E k \in 1..Len(part) : e[k] = i
  BY <1>2 DEF Selects
<1>4. /\ DOMAIN part = 1..Len(part) /\ Len(part) \in Nat
      /\ DOMAIN list = 1..Len(list) /\ Len(list) \in Nat
  BY <1>1
<1>5. ToSet(part) = ToSet(list) \ gone
  <2>1. ASSUME NEW x \in ToSet(part)
        PROVE  x \in ToSet(list) \ gone
    <3>1. PICK k \in 1..Len(part) : part[k] = x
      BY <1>4, <2>1 DEF ToSet
    <3>2. e[k] \in 1..Len(list) /\ list[e[k]] = x /\ x \notin gone
      BY <1>3, <3>1
    <3> QED
      BY <1>4, <3>2 DEF ToSet
  <2>2. ASSUME NEW x \in ToSet(list) \ gone
        PROVE  x \in ToSet(part)
    <3>1. PICK i \in 1..Len(list) : list[i] = x
      BY <1>4, <2>2 DEF ToSet
    <3>2. PICK k \in 1..Len(part) : e[k] = i
      BY <1>3, <2>2, <3>1
    <3> QED
      BY <1>3, <1>4, <3>1, <3>2 DEF ToSet
  <2> QED
    BY <2>1, <2>2
<1>6. ASSUME IsInjective(list)
      PROVE  IsInjective(part)
  <2> SUFFICES ASSUME NEW k \in 1..Len(part), NEW l \in 1..Len(part), part[k] = part[l]
               PROVE  k = l
    BY <1>4 DEF IsInjective
  <2>1. e[k] = e[l]
    BY <1>3, <1>4, <1>6, SMTT(30) DEF IsInjective
  <2>2. ~(k < l) /\ ~(l < k)
    BY <1>3, <2>1
  <2> QED
    BY <1>4, <2>2
<1>7. ASSUME NEW a, NEW b
      PROVE  Before(part, a, b) <=> Before(list, a, b) /\ a \notin gone /\ b \notin gone
  <2>1. ASSUME Before(part, a, b)
        PROVE  Before(list, a, b) /\ a \notin gone /\ b \notin gone
    <3>1. PICK k \in 1..Len(part), l \in 1..Len(part) : k < l /\ part[k] = a /\ part[l] = b
      BY <2>1 DEF Before
    <3>2. e[k] \in 1..Len(list) /\ e[l] \in 1..Len(list) /\ e[k] < e[l]
          /\ list[e[k]] = a /\ list[e[l]] = b /\ a \notin gone /\ b \notin gone
      BY <1>3, <3>1
    <3> QED
      BY <3>2 DEF Before
  <2>2. ASSUME Before(list, a, b), a \notin gone, b \notin gone
        PROVE  Before(part, a, b)
    <3>1. PICK i \in 1..Len(list), j \in 1..Len(list) : i < j /\ list[i] = a /\ list[j] = b
      BY <2>2 DEF Before
    <3>2. PICK k \in 1..Len(part) : e[k] = i
      BY <1>3, <2>2, <3>1
    <3>3. PICK l \in 1..Len(part) : e[l] = j
      BY <1>3, <2>2, <3>1
    <3>4. part[k] = a /\ part[l] = b
      BY <1>3, <3>1, <3>2, <3>3
    <3>5. ~(l < k) /\ l # k
      BY <1>3, <1>4, <3>1, <3>2, <3>3
    <3>6. k < l
      BY <1>4, <3>5
    <3> QED
      BY <3>4, <3>6 DEF Before
  <2> QED
    BY <2>1, <2>2
<1>8. \A a, b : Before(part, a, b) <=> Before(list, a, b) /\ a \notin gone /\ b \notin gone
  BY <1>7
<1> QED
  BY <1>1, <1>5, <1>6, <1>8 DEF part

(* An entry that is added at the end is behind all the others. *)
LEMMA AppendedProperties ==
  ASSUME NEW M, NEW list \in Seq(M), NEW x \in M
  PROVE  /\ Append(list, x) \in Seq(M)
         /\ ToSet(Append(list, x)) = ToSet(list) \cup {x}
         /\ IsInjective(list) /\ x \notin ToSet(list) => IsInjective(Append(list, x))
         /\ \A a, b : Before(Append(list, x), a, b) <=>
                        Before(list, a, b) \/ (a \in ToSet(list) /\ b = x)
<1> DEFINE more == Append(list, x)
<1>1. /\ more \in Seq(M) /\ Len(more) = Len(list) + 1
      /\ \A k \in 1..Len(list) : more[k] = list[k]
      /\ more[Len(list) + 1] = x
  BY AppendProperties
<1> HIDE DEF more
<1>2. /\ DOMAIN more = 1..Len(list) + 1 /\ DOMAIN list = 1..Len(list) /\ Len(list) \in Nat
  BY <1>1
<1>3. \A k \in 1..Len(list) + 1 : k \in 1..Len(list) \/ k = Len(list) + 1
  BY <1>2
<1>4. \A k \in 1..Len(list) : k \in 1..Len(list) + 1 /\ k < Len(list) + 1
  BY <1>2
<1>5. Len(list) + 1 \in 1..Len(list) + 1
  BY <1>2
<1>6. ToSet(more) = ToSet(list) \cup {x}
  BY <1>1, <1>2, <1>3, <1>4, <1>5 DEF ToSet
<1>7. IsInjective(list) /\ x \notin ToSet(list) => IsInjective(more)
  BY <1>1, <1>2, <1>3, <1>4 DEF ToSet, IsInjective
<1>8. ASSUME NEW a, NEW b
      PROVE  Before(more, a, b) <=> Before(list, a, b) \/ (a \in ToSet(list) /\ b = x)
  <2>1. ASSUME Before(more, a, b)
        PROVE  Before(list, a, b) \/ (a \in ToSet(list) /\ b = x)
    <3>1. PICK i \in 1..Len(more), j \in 1..Len(more) : i < j /\ more[i] = a /\ more[j] = b
      BY <2>1 DEF Before
    <3>2. i \in 1..Len(list) /\ list[i] = a
      BY <1>1, <1>2, <3>1
    <3>3. CASE j \in 1..Len(list)
      BY <1>1, <3>1, <3>2, <3>3 DEF Before
    <3>4. CASE j = Len(list) + 1
      BY <1>1, <1>2, <3>1, <3>2, <3>4 DEF ToSet
    <3> QED
      BY <1>1, <1>3, <3>1, <3>3, <3>4
  <2>2. ASSUME Before(list, a, b)
        PROVE  Before(more, a, b)
    <3>1. PICK i \in 1..Len(list), j \in 1..Len(list) : i < j /\ list[i] = a /\ list[j] = b
      BY <2>2 DEF Before
    <3> QED
      BY <1>1, <1>4, <3>1 DEF Before
  <2>3. ASSUME a \in ToSet(list), b = x
        PROVE  Before(more, a, b)
    <3>1. PICK i \in 1..Len(list) : list[i] = a
      BY <1>2, <2>3 DEF ToSet
    <3> QED
      BY <1>1, <1>4, <1>5, <2>3, <3>1 DEF Before
  <2> QED
    BY <2>1, <2>2, <2>3
<1>9. \A a, b : Before(more, a, b) <=> Before(list, a, b) \/ (a \in ToSet(list) /\ b = x)
  BY <1>8
<1> QED
  BY <1>1, <1>6, <1>7, <1>9 DEF more

(* more is list with x inserted at i. *)
IsInserted(more, list, i, x) ==
  /\ Len(more) = Len(list) + 1
  /\ \A j \in 1..Len(list) + 1 :
       more[j] = IF j < i THEN list[j] ELSE IF j = i THEN x ELSE list[j - 1]

(* Where the entries are once x is inserted at i *)
LEMMA InsertedAt ==
  ASSUME NEW M, NEW list \in Seq(M), NEW x \in M, NEW i \in 1..Len(list) + 1
  PROVE  InsertAt(list, i, x) \in Seq(M) /\ IsInserted(InsertAt(list, i, x), list, i, x)
<1> DEFINE front == SubSeq(list, 1, i - 1)
           back == SubSeq(list, i, Len(list))
<1>1. front \in Seq(M) /\ Len(front) = i - 1 /\ \A j \in 1..i - 1 : front[j] = list[j]
  BY SubSeqProperties
<1>2. back \in Seq(M) /\ Len(back) = Len(list) - i + 1 /\ \A j \in 1..Len(list) - i + 1 : back[j] = list[i + j - 1]
  BY SubSeqProperties
<1> HIDE DEF front, back
<1> DEFINE half == front \o <<x>>
<1>3. half \in Seq(M) /\ Len(half) = i /\ \A j \in 1..i : half[j] = IF j < i THEN list[j] ELSE x
  BY <1>1
<1> HIDE DEF half
<1> DEFINE all == half \o back
<1>4. all \in Seq(M) /\ Len(all) = Len(list) + 1
  BY <1>2, <1>3
<1>5. \A j \in 1..Len(list) + 1 : all[j] = IF j <= i THEN half[j] ELSE back[j - i]
  BY <1>2, <1>3
<1> HIDE DEF all
<1>6. ASSUME NEW j \in 1..Len(list) + 1
      PROVE  all[j] = IF j < i THEN list[j] ELSE IF j = i THEN x ELSE list[j - 1]
  <2>1. CASE j <= i
    BY <1>3, <1>5, <2>1
  <2>2. CASE j > i
    <3>1. j - i \in 1..Len(list) - i + 1 /\ i + (j - i) - 1 = j - 1
      BY <2>2
    <3> QED
      BY <1>2, <1>5, <2>2, <3>1
  <2> QED
    BY <2>1, <2>2
<1>7. InsertAt(list, i, x) = all
  BY DEF InsertAt, all, half, front, back
<1> QED
  BY <1>4, <1>6, <1>7 DEF IsInserted

(* An entry that is inserted at i is ahead of those that were from i on and
   behind those that were before i; the others keep their order. *)
LEMMA InsertedProperties ==
  ASSUME NEW M, NEW list \in Seq(M), NEW x \in M, NEW i \in 1..Len(list) + 1
  PROVE  /\ InsertAt(list, i, x) \in Seq(M)
         /\ ToSet(InsertAt(list, i, x)) = ToSet(list) \cup {x}
         /\ IsInjective(list) /\ x \notin ToSet(list) => IsInjective(InsertAt(list, i, x))
         /\ \A a, b : Before(InsertAt(list, i, x), a, b) <=>
                        \/ Before(list, a, b)
                        \/ a = x /\ \E j \in i..Len(list) : list[j] = b
                        \/ b = x /\ \E j \in 1..i - 1 : list[j] = a
<1> DEFINE more == InsertAt(list, i, x)
           from(j) == IF j < i THEN j ELSE j + 1
<1>0. more \in Seq(M) /\ IsInserted(more, list, i, x)
  BY InsertedAt
<1> HIDE DEF more
<1>1. /\ more \in Seq(M) /\ Len(more) = Len(list) + 1
      /\ \A j \in 1..Len(list) + 1 : more[j] = IF j < i THEN list[j] ELSE IF j = i THEN x ELSE list[j - 1]
  BY <1>0 DEF IsInserted
<1>2. DOMAIN more = 1..Len(list) + 1 /\ DOMAIN list = 1..Len(list) /\ Len(list) \in Nat
  BY <1>1
<1>3. more[i] = x
  BY <1>1
<1>4. \A j \in 1..Len(list) : from(j) \in 1..Len(list) + 1 /\ more[from(j)] = list[j] /\ from(j) # i
  BY <1>1, <1>2
<1>5. \A k \in 1..Len(list) + 1 : k = i \/ \E j \in 1..Len(list) : k = from(j)
  <2> TAKE k \in 1..Len(list) + 1
  <2>1. CASE k < i
    BY <1>2, <2>1
  <2>2. CASE k > i
    <3>1. k - 1 \in 1..Len(list) /\ ~(k - 1 < i) /\ k = from(k - 1)
      BY <1>2, <2>2
    <3> QED
      BY <3>1
  <2> QED
    BY <1>2, <2>1, <2>2
<1>6. \A j, k \in 1..Len(list) : from(j) < from(k) <=> j < k
  BY <1>2
<1>7. \A j \in 1..Len(list) : (from(j) < i <=> j \in 1..i - 1) /\ (i < from(j) <=> j \in i..Len(list))
  BY <1>2
<1>8. \A j, k \in 1..Len(list) : from(j) = from(k) => j = k
  BY <1>2
<1> HIDE DEF from
<1>9. ToSet(more) = ToSet(list) \cup {x}
  <2>1. ASSUME NEW e \in ToSet(more)
        PROVE  e \in ToSet(list) \cup {x}
    BY <1>2, <1>3, <1>4, <1>5, SMTT(30) DEF ToSet
  <2>2. ASSUME NEW e \in ToSet(list) \cup {x}
        PROVE  e \in ToSet(more)
    BY <1>2, <1>3, <1>4 DEF ToSet
  <2> QED
    BY <2>1, <2>2
<1>10. ASSUME IsInjective(list), x \notin ToSet(list)
       PROVE  IsInjective(more)
  <2> SUFFICES ASSUME NEW k \in 1..Len(list) + 1, NEW l \in 1..Len(list) + 1, more[k] = more[l]
               PROVE  k = l
    BY <1>2 DEF IsInjective
  <2>1. \A j \in 1..Len(list) : list[j] # x
    BY <1>2, <1>10 DEF ToSet
  <2>2. \A j, m \in 1..Len(list) : list[j] = list[m] => j = m
    BY <1>2, <1>10 DEF IsInjective
  <2>3. CASE k = i /\ l = i
    BY <2>3
  <2>4. CASE k = i /\ l # i
    <3>1. PICK j \in 1..Len(list) : l = from(j)
      BY <1>5, <2>4
    <3> QED
      BY <1>3, <1>4, <2>1, <2>4, <3>1
  <2>5. CASE k # i /\ l = i
    <3>1. PICK j \in 1..Len(list) : k = from(j)
      BY <1>5, <2>5
    <3> QED
      BY <1>3, <1>4, <2>1, <2>5, <3>1
  <2>6. CASE k # i /\ l # i
    <3>1. PICK j \in 1..Len(list) : k = from(j)
      BY <1>5, <2>6
    <3>2. PICK m \in 1..Len(list) : l = from(m)
      BY <1>5, <2>6
    <3> QED
      BY <1>4, <2>2, <3>1, <3>2
  <2> QED
    BY <2>3, <2>4, <2>5, <2>6
<1>11. ASSUME NEW a, NEW b
       PROVE  Before(more, a, b) <=> \/ Before(list, a, b)
                                     \/ a = x /\ \E j \in i..Len(list) : list[j] = b
                                     \/ b = x /\ \E j \in 1..i - 1 : list[j] = a
  <2>1. ASSUME Before(more, a, b)
        PROVE  \/ Before(list, a, b)
               \/ a = x /\ \E j \in i..Len(list) : list[j] = b
               \/ b = x /\ \E j \in 1..i - 1 : list[j] = a
    <3>1. PICK k \in 1..Len(list) + 1, l \in 1..Len(list) + 1 : k < l /\ more[k] = a /\ more[l] = b
      BY <1>1, <2>1 DEF Before
    <3>2. CASE k = i
      <4>1. PICK j \in 1..Len(list) : l = from(j)
        BY <1>5, <3>1, <3>2
      <4> QED
        BY <1>3, <1>4, <1>7, <3>1, <3>2, <4>1
    <3>3. CASE l = i
      <4>1. PICK j \in 1..Len(list) : k = from(j)
        BY <1>5, <3>1, <3>3
      <4> QED
        BY <1>3, <1>4, <1>7, <3>1, <3>3, <4>1
    <3>4. CASE k # i /\ l # i
      <4>1. PICK j \in 1..Len(list) : k = from(j)
        BY <1>5, <3>4
      <4>2. PICK m \in 1..Len(list) : l = from(m)
        BY <1>5, <3>4
      <4>3. j < m /\ list[j] = a /\ list[m] = b
        BY <1>4, <1>6, <3>1, <4>1, <4>2
      <4> QED
        BY <4>3 DEF Before
    <3> QED
      BY <3>2, <3>3, <3>4
  <2>2. ASSUME Before(list, a, b)
        PROVE  Before(more, a, b)
    <3>1. PICK j \in 1..Len(list), m \in 1..Len(list) : j < m /\ list[j] = a /\ list[m] = b
      BY <2>2 DEF Before
    <3>2. from(j) \in 1..Len(more) /\ from(m) \in 1..Len(more) /\ from(j) < from(m)
          /\ more[from(j)] = a /\ more[from(m)] = b
      BY <1>1, <1>4, <1>6, <3>1
    <3> QED
      BY <3>2 DEF Before
  <2>3. ASSUME a = x, NEW j \in i..Len(list), list[j] = b
        PROVE  Before(more, a, b)
    <3>1. j \in 1..Len(list)
      OBVIOUS
    <3>2. i \in 1..Len(more) /\ from(j) \in 1..Len(more) /\ i < from(j)
          /\ more[i] = a /\ more[from(j)] = b
      BY <1>1, <1>3, <1>4, <1>7, <2>3, <3>1
    <3> QED
      BY <3>2 DEF Before
  <2>4. ASSUME b = x, NEW j \in 1..i - 1, list[j] = a
        PROVE  Before(more, a, b)
    <3>1. j \in 1..Len(list)
      BY <1>2
    <3>2. i \in 1..Len(more) /\ from(j) \in 1..Len(more) /\ from(j) < i
          /\ more[i] = b /\ more[from(j)] = a
      BY <1>1, <1>3, <1>4, <1>7, <2>4, <3>1
    <3> QED
      BY <3>2 DEF Before
  <2> QED
    BY <2>1, <2>2, <2>3, <2>4
<1>12. \A a, b : Before(more, a, b) <=> \/ Before(list, a, b)
                                        \/ a = x /\ \E j \in i..Len(list) : list[j] = b
                                        \/ b = x /\ \E j \in 1..i - 1 : list[j] = a
  BY <1>11
<1> QED
  BY <1>1, <1>9, <1>10, <1>12 DEF more

-----------------------------------------------------------------------------
(* The order of the entries of a list is a strict total order. *)
LEMMA OrderProperties ==
  ASSUME NEW M, NEW list \in Seq(M), IsInjective(list)
  PROVE  /\ \A a, b : Before(list, a, b) => /\ a \in ToSet(list) /\ b \in ToSet(list)
                                            /\ a # b /\ ~Before(list, b, a)
         /\ \A a, b, c : Before(list, a, b) /\ Before(list, b, c) => Before(list, a, c)
         /\ \A a, b \in ToSet(list) : a = b \/ Before(list, a, b) \/ Before(list, b, a)
<1>1. DOMAIN list = 1..Len(list) /\ Len(list) \in Nat
  OBVIOUS
<1>2. \A i, j \in 1..Len(list) : list[i] = list[j] => i = j
  BY <1>1 DEF IsInjective
<1>3. \A a, b : Before(list, a, b) <=> \E i, j \in 1..Len(list) : i < j /\ list[i] = a /\ list[j] = b
  BY DEF Before
<1>4. ASSUME NEW a, NEW b, Before(list, a, b)
      PROVE  a \in ToSet(list) /\ b \in ToSet(list) /\ a # b /\ ~Before(list, b, a)
  <2>1. PICK i \in 1..Len(list), j \in 1..Len(list) : i < j /\ list[i] = a /\ list[j] = b
    BY <1>3, <1>4
  <2>2. a # b
    BY <1>2, <2>1
  <2>3. ASSUME Before(list, b, a) PROVE FALSE
    <3>1. PICK k \in 1..Len(list), l \in 1..Len(list) : k < l /\ list[k] = b /\ list[l] = a
      BY <1>3, <2>3
    <3>2. k = j /\ l = i
      BY <1>2, <2>1, <3>1
    <3> QED
      BY <1>1, <2>1, <3>1, <3>2
  <2> QED
    BY <1>1, <2>1, <2>2, <2>3 DEF ToSet
<1>5. ASSUME NEW a, NEW b, NEW c, Before(list, a, b), Before(list, b, c)
      PROVE  Before(list, a, c)
  <2>1. PICK i \in 1..Len(list), j \in 1..Len(list) : i < j /\ list[i] = a /\ list[j] = b
    BY <1>3, <1>5
  <2>2. PICK k \in 1..Len(list), l \in 1..Len(list) : k < l /\ list[k] = b /\ list[l] = c
    BY <1>3, <1>5
  <2>3. k = j
    BY <1>2, <2>1, <2>2
  <2>4. i < l
    BY <1>1, <2>1, <2>2, <2>3
  <2> QED
    BY <1>3, <2>1, <2>2, <2>4
<1>6. ASSUME NEW a \in ToSet(list), NEW b \in ToSet(list)
      PROVE  a = b \/ Before(list, a, b) \/ Before(list, b, a)
  <2>1. PICK i \in 1..Len(list) : list[i] = a
    BY <1>1 DEF ToSet
  <2>2. PICK j \in 1..Len(list) : list[j] = b
    BY <1>1 DEF ToSet
  <2>3. i < j \/ j < i \/ i = j
    BY <1>1
  <2> QED
    BY <1>3, <2>1, <2>2, <2>3
<1>7. \A a, b : Before(list, a, b) => /\ a \in ToSet(list) /\ b \in ToSet(list)
                                      /\ a # b /\ ~Before(list, b, a)
  BY <1>4
<1>8. \A a, b, c : Before(list, a, b) /\ Before(list, b, c) => Before(list, a, c)
  BY <1>5
<1> QED
  BY <1>6, <1>7, <1>8

(* The first entry of a list is ahead of all the others. *)
LEMMA FirstProperties ==
  ASSUME NEW M, NEW list \in Seq(M), NEW none, none \notin M
  PROVE  /\ ToSet(list) \subseteq M
         /\ list = <<>> <=> ToSet(list) = {}
         /\ FirstOf(list, none) = none <=> list = <<>>
         /\ list # <<>> => /\ FirstOf(list, none) = Head(list)
                           /\ Head(list) \in ToSet(list)
                           /\ \A b \in ToSet(list) : b = Head(list) \/ Before(list, Head(list), b)
<1>1. DOMAIN list = 1..Len(list) /\ Len(list) \in Nat /\ \A i \in 1..Len(list) : list[i] \in M
  OBVIOUS
<1>2. ToSet(list) \subseteq M
  BY <1>1 DEF ToSet
<1>3. CASE list = <<>>
  BY <1>2, <1>3 DEF ToSet, FirstOf
<1>4. CASE list # <<>>
  <2>1. Len(list) >= 1 /\ Head(list) = list[1] /\ 1 \in 1..Len(list)
    BY <1>1, <1>4
  <2>2. Head(list) \in ToSet(list) /\ Head(list) \in M
    BY <1>1, <2>1 DEF ToSet
  <2>3. ASSUME NEW b \in ToSet(list)
        PROVE  b = Head(list) \/ Before(list, Head(list), b)
    <3>1. PICK j \in 1..Len(list) : list[j] = b
      BY <1>1 DEF ToSet
    <3>2. j = 1 \/ 1 < j
      BY <1>1
    <3> QED
      BY <2>1, <3>1, <3>2 DEF Before
  <2> QED
    BY <1>2, <1>4, <2>2, <2>3 DEF FirstOf
<1> QED
  BY <1>3, <1>4

(* The index of an entry *)
LEMMA IndexOf ==
  ASSUME NEW M, NEW list \in Seq(M), NEW e \in ToSet(list)
  PROVE  /\ (CHOOSE i \in 1..Len(list) : list[i] = e) \in 1..Len(list)
         /\ list[CHOOSE i \in 1..Len(list) : list[i] = e] = e
<1>1. \E i \in 1..Len(list) : list[i] = e
  BY DEF ToSet
<1> QED
  BY <1>1

(* What follows an entry is the next one: there is none between them. *)
LEMMA AfterProperties ==
  ASSUME NEW M, NEW list \in Seq(M), IsInjective(list), NEW e \in ToSet(list), NEW none, none \notin M
  PROVE  /\ After(list, e, none) \in ToSet(list) \cup {none}
         /\ After(list, e, none) = none => \A b : ~Before(list, e, b)
         /\ After(list, e, none) # none =>
              /\ Before(list, e, After(list, e, none))
              /\ \A b : Before(list, e, b) =>
                          b = After(list, e, none) \/ Before(list, After(list, e, none), b)
<1> DEFINE at == CHOOSE i \in 1..Len(list) : list[i] = e
<1>1. at \in 1..Len(list) /\ list[at] = e
  BY IndexOf
<1>2. After(list, e, none) = IF at = Len(list) THEN none ELSE list[at + 1]
  BY DEF After
<1> HIDE DEF at
<1>3. DOMAIN list = 1..Len(list) /\ Len(list) \in Nat /\ \A i \in 1..Len(list) : list[i] \in M
  OBVIOUS
<1>4. \A i, j \in 1..Len(list) : list[i] = list[j] => i = j
  BY <1>3 DEF IsInjective
<1>5. ASSUME NEW b, Before(list, e, b)
      PROVE  \E j \in 1..Len(list) : at < j /\ list[j] = b
  <2>1. PICK i \in 1..Len(list), j \in 1..Len(list) : i < j /\ list[i] = e /\ list[j] = b
    BY <1>5 DEF Before
  <2>2. i = at
    BY <1>1, <1>4, <2>1
  <2> QED
    BY <2>1, <2>2
<1>6. CASE at = Len(list)
  <2>1. \A b : ~Before(list, e, b)
    BY <1>3, <1>5, <1>6
  <2> QED
    BY <1>2, <1>6, <2>1
<1>7. CASE at # Len(list)
  <2>1. at + 1 \in 1..Len(list) /\ at < at + 1
    <3>1. at \in 1..Len(list) /\ Len(list) \in Nat
      BY <1>1, <1>3
    <3>2. \A n \in Nat : \A k \in 1..n : k # n => k + 1 \in 1..n /\ k < k + 1
      OBVIOUS
    <3> QED
      BY <1>7, <3>1, <3>2
  <2>2. list[at + 1] \in ToSet(list) /\ list[at + 1] # none
    BY <1>3, <2>1 DEF ToSet
  <2>3. Before(list, e, list[at + 1])
    BY <1>1, <2>1 DEF Before
  <2>4. ASSUME NEW b, Before(list, e, b)
        PROVE  b = list[at + 1] \/ Before(list, list[at + 1], b)
    <3>1. PICK j \in 1..Len(list) : at < j /\ list[j] = b
      BY <1>5, <2>4
    <3>2. j = at + 1 \/ at + 1 < j
      BY <1>1, <1>3, <3>1
    <3> QED
      BY <2>1, <3>1, <3>2 DEF Before
  <2> QED
    BY <1>2, <1>7, <2>2, <2>3, <2>4
<1> QED
  BY <1>6, <1>7

(* From an entry on: that entry and those behind it, in their order *)
LEMMA RestProperties ==
  ASSUME NEW M, NEW list \in Seq(M), IsInjective(list), NEW at \in 1..Len(list)
  PROVE  /\ SubSeq(list, at, Len(list)) \in Seq(M)
         /\ \A b : b \in ToSet(SubSeq(list, at, Len(list))) <=>
                     b = list[at] \/ Before(list, list[at], b)
         /\ \A a, b : Before(SubSeq(list, at, Len(list)), a, b) => Before(list, a, b)
<1> DEFINE rest == SubSeq(list, at, Len(list))
<1>1. /\ rest \in Seq(M) /\ Len(rest) = Len(list) - at + 1
      /\ \A j \in 1..Len(list) - at + 1 : rest[j] = list[at + j - 1]
  BY SubSeqProperties
<1> HIDE DEF rest
<1>2. /\ DOMAIN rest = 1..Len(rest) /\ Len(rest) \in Nat
      /\ DOMAIN list = 1..Len(list) /\ Len(list) \in Nat
  BY <1>1
<1>3. \A j \in 1..Len(rest) : at + j - 1 \in 1..Len(list) /\ rest[j] = list[at + j - 1]
  BY <1>1, <1>2
<1>4. \A i, j \in 1..Len(list) : list[i] = list[j] => i = j
  BY <1>2 DEF IsInjective
<1>5. ASSUME NEW b, b \in ToSet(rest)
      PROVE  b = list[at] \/ Before(list, list[at], b)
  <2>1. PICK j \in 1..Len(rest) : rest[j] = b
    BY <1>2, <1>5 DEF ToSet
  <2>2. at + j - 1 = at \/ at < at + j - 1
    BY <1>2
  <2> QED
    BY <1>3, <2>1, <2>2 DEF Before
<1>6. ASSUME NEW b, b = list[at] \/ Before(list, list[at], b)
      PROVE  b \in ToSet(rest)
  <2>1. PICK k \in 1..Len(list) : at <= k /\ list[k] = b
    <3>1. CASE b = list[at]
      BY <3>1
    <3>2. CASE Before(list, list[at], b)
      <4>1. PICK i \in 1..Len(list), j \in 1..Len(list) : i < j /\ list[i] = list[at] /\ list[j] = b
        BY <3>2 DEF Before
      <4>2. i = at
        BY <1>4, <4>1
      <4> QED
        BY <4>1, <4>2
    <3> QED
      BY <1>6, <3>1, <3>2
  <2>2. k - at + 1 \in 1..Len(rest) /\ at + (k - at + 1) - 1 = k
    BY <1>1, <1>2, <2>1
  <2>3. rest[k - at + 1] = b
    BY <1>3, <2>1, <2>2
  <2> QED
    BY <1>2, <2>2, <2>3 DEF ToSet
<1>7. ASSUME NEW a, NEW b, Before(rest, a, b)
      PROVE  Before(list, a, b)
  <2>1. PICK i \in 1..Len(rest), j \in 1..Len(rest) : i < j /\ rest[i] = a /\ rest[j] = b
    BY <1>7 DEF Before
  <2>2. at + i - 1 < at + j - 1
    BY <1>2, <2>1
  <2> QED
    BY <1>3, <2>1, <2>2 DEF Before
<1>8. \A b : b \in ToSet(rest) <=> b = list[at] \/ Before(list, list[at], b)
  BY <1>5, <1>6
<1>9. \A a, b : Before(rest, a, b) => Before(list, a, b)
  BY <1>7
<1> QED
  BY <1>1, <1>8, <1>9 DEF rest

(* A safe iterator steps past the entries that are removed and past no other. *)
LEMMA SteppedProperties ==
  ASSUME NEW M, NEW list \in Seq(M), IsInjective(list), NEW e \in ToSet(list), NEW gone,
         NEW none, none \notin M
  PROVE  LET next == Stepped(list, e, gone, none)
             ahead(a, b) == b = a \/ Before(list, a, b)
         IN  /\ next \in (ToSet(list) \ gone) \cup {none}
             /\ next = none => \A b : ahead(e, b) => b \in gone
             /\ next # none =>
                  ahead(e, next) /\ \A b : ahead(e, b) => b \in gone \/ ahead(next, b)
<1> DEFINE at == CHOOSE i \in 1..Len(list) : list[i] = e
           rest == SubSeq(list, at, Len(list))
           left == Without(rest, gone)
<1>1. at \in 1..Len(list) /\ list[at] = e
  BY IndexOf
<1>2. Stepped(list, e, gone, none) = FirstOf(left, none)
  BY DEF Stepped
<1> HIDE DEF at
<1>3. /\ rest \in Seq(M)
      /\ \A b : b \in ToSet(rest) <=> b = e \/ Before(list, e, b)
      /\ \A a, b : Before(rest, a, b) => Before(list, a, b)
  BY <1>1, RestProperties
<1> HIDE DEF rest
<1>4. /\ left \in Seq(M)
      /\ ToSet(left) = ToSet(rest) \ gone
      /\ \A a, b : Before(left, a, b) => Before(rest, a, b)
  BY <1>3, WithoutProperties
<1> HIDE DEF left
<1>5. \A b : b \in ToSet(rest) => b \in ToSet(list)
  BY <1>3, OrderProperties
<1>6. CASE left = <<>>
  <2>1. FirstOf(left, none) = none /\ ToSet(left) = {}
    BY <1>4, <1>6, FirstProperties
  <2> QED
    BY <1>2, <1>3, <1>4, <2>1
<1>7. CASE left # <<>>
  <2> DEFINE h == Head(left)
  <2>1. /\ FirstOf(left, none) = h /\ h \in ToSet(left) /\ h # none
        /\ \A b \in ToSet(left) : b = h \/ Before(left, h, b)
    BY <1>4, <1>7, FirstProperties
  <2> HIDE DEF h
  <2>2. h \in ToSet(list) \ gone /\ (h = e \/ Before(list, e, h))
    BY <1>3, <1>4, <1>5, <2>1
  <2>3. ASSUME NEW b, b = e \/ Before(list, e, b)
        PROVE  b \in gone \/ b = h \/ Before(list, h, b)
    BY <1>3, <1>4, <2>1, <2>3
  <2>4. Stepped(list, e, gone, none) = h
    BY <1>2, <2>1
  <2> QED
    BY <2>1, <2>2, <2>3, <2>4
<1> QED
  BY <1>6, <1>7

(* Two lists read as one *)
LEMMA JoinedProperties ==
  ASSUME NEW M, NEW s \in Seq(M), NEW t \in Seq(M)
  PROVE  /\ ToSet(s \o t) = ToSet(s) \cup ToSet(t)
         /\ IsInjective(s \o t) <=>
              IsInjective(s) /\ IsInjective(t) /\ ToSet(s) \cap ToSet(t) = {}
<1> DEFINE both == s \o t
<1>1. /\ both \in Seq(M) /\ Len(both) = Len(s) + Len(t)
      /\ \A i \in 1..Len(s) : both[i] = s[i]
      /\ \A i \in Len(s) + 1..Len(s) + Len(t) : both[i] = t[i - Len(s)]
  BY ConcatProperties
<1> HIDE DEF both
<1>2. /\ DOMAIN both = 1..Len(s) + Len(t) /\ DOMAIN s = 1..Len(s) /\ DOMAIN t = 1..Len(t)
      /\ Len(s) \in Nat /\ Len(t) \in Nat
  BY <1>1
<1>3. \A i \in 1..Len(s) : i \in 1..Len(s) + Len(t) /\ both[i] = s[i]
  BY <1>1, <1>2
<1>4. \A i \in 1..Len(t) : Len(s) + i \in 1..Len(s) + Len(t) /\ both[Len(s) + i] = t[i]
  <2> TAKE i \in 1..Len(t)
  <2>1. Len(s) + i \in Len(s) + 1..Len(s) + Len(t) /\ (Len(s) + i) - Len(s) = i
    BY <1>2
  <2> QED
    BY <1>1, <1>2, <2>1
<1>5. \A i \in 1..Len(s) + Len(t) : i \in 1..Len(s) \/ \E j \in 1..Len(t) : i = Len(s) + j
  <2> TAKE i \in 1..Len(s) + Len(t)
  <2>1. i \in 1..Len(s) \/ (i - Len(s) \in 1..Len(t) /\ i = Len(s) + (i - Len(s)))
    BY <1>2
  <2> QED
    BY <2>1
<1>6. ToSet(both) = ToSet(s) \cup ToSet(t)
  <2>1. ASSUME NEW x \in ToSet(both) PROVE x \in ToSet(s) \cup ToSet(t)
    <3>1. PICK i \in 1..Len(s) + Len(t) : both[i] = x
      BY <1>2 DEF ToSet
    <3>2. CASE i \in 1..Len(s)
      BY <1>2, <1>3, <3>1, <3>2 DEF ToSet
    <3>3. CASE i \notin 1..Len(s)
      <4>1. PICK j \in 1..Len(t) : i = Len(s) + j
        BY <1>5, <3>3
      <4> QED
        BY <1>2, <1>4, <3>1, <4>1 DEF ToSet
    <3> QED
      BY <3>2, <3>3
  <2>2. ASSUME NEW x \in ToSet(s) \cup ToSet(t) PROVE x \in ToSet(both)
    BY <1>2, <1>3, <1>4 DEF ToSet
  <2> QED
    BY <2>1, <2>2
<1>7. ASSUME IsInjective(both)
      PROVE  IsInjective(s) /\ IsInjective(t) /\ ToSet(s) \cap ToSet(t) = {}
  <2>1. \A i, j \in 1..Len(s) + Len(t) : both[i] = both[j] => i = j
    BY <1>2, <1>7 DEF IsInjective
  <2>2. IsInjective(s)
    BY <1>2, <1>3, <2>1 DEF IsInjective
  <2>3. \A i, j \in 1..Len(t) : t[i] = t[j] => Len(s) + i = Len(s) + j
    BY <1>4, <2>1
  <2>4. IsInjective(t)
    <3>1. \A i, j \in 1..Len(t) : t[i] = t[j] => i = j
      BY <1>2, <2>3
    <3> QED
      BY <1>2, <3>1 DEF IsInjective
  <2>5. ASSUME NEW x, x \in ToSet(s), x \in ToSet(t) PROVE FALSE
    <3>1. PICK i \in 1..Len(s) : s[i] = x
      BY <1>2, <2>5 DEF ToSet
    <3>2. PICK j \in 1..Len(t) : t[j] = x
      BY <1>2, <2>5 DEF ToSet
    <3>3. i = Len(s) + j
      BY <1>3, <1>4, <2>1, <3>1, <3>2
    <3> QED
      BY <1>2, <3>3
  <2> QED
    BY <2>2, <2>4, <2>5
<1>8. ASSUME IsInjective(s), IsInjective(t), ToSet(s) \cap ToSet(t) = {}
      PROVE  IsInjective(both)
  <2> SUFFICES ASSUME NEW k \in 1..Len(s) + Len(t), NEW l \in 1..Len(s) + Len(t), both[k] = both[l]
               PROVE  k = l
    BY <1>2 DEF IsInjective
  <2>1. \A i, j \in 1..Len(s) : s[i] = s[j] => i = j
    BY <1>2, <1>8 DEF IsInjective
  <2>2. \A i, j \in 1..Len(t) : t[i] = t[j] => i = j
    BY <1>2, <1>8 DEF IsInjective
  <2>3. \A i \in 1..Len(s), j \in 1..Len(t) : s[i] # t[j]
    BY <1>2, <1>8 DEF ToSet
  <2>4. CASE k \in 1..Len(s) /\ l \in 1..Len(s)
    BY <1>3, <2>1, <2>4
  <2>5. CASE k \in 1..Len(s) /\ l \notin 1..Len(s)
    BY <1>3, <1>4, <1>5, <2>3, <2>5, SMTT(30)
  <2>6. CASE k \notin 1..Len(s) /\ l \in 1..Len(s)
    BY <1>3, <1>4, <1>5, <2>3, <2>6, SMTT(30)
  <2>7. CASE k \notin 1..Len(s) /\ l \notin 1..Len(s)
    <3>1. PICK i \in 1..Len(t) : k = Len(s) + i
      BY <1>5, <2>7
    <3>2. PICK j \in 1..Len(t) : l = Len(s) + j
      BY <1>5, <2>7
    <3> QED
      BY <1>4, <2>2, <3>1, <3>2
  <2> QED
    BY <2>4, <2>5, <2>6, <2>7
<1> QED
  BY <1>6, <1>7, <1>8 DEF both

-----------------------------------------------------------------------------
(* Safe iterators *)

(* A safe iterator is past the end, or at an entry of its list. *)
Iterates(list, at, none) == at = none \/ at \in ToSet(list)

(* What it is still to return *)
Rest(list, at, none) == {x \in ToSet(list) : at # none /\ (x = at \/ Before(list, at, x))}

(* A new iterator is to return everything. *)
LEMMA RestFirst ==
  ASSUME NEW M, NEW list \in Seq(M), NEW none, none \notin M
  PROVE  /\ Iterates(list, FirstOf(list, none), none)
         /\ Rest(list, FirstOf(list, none), none) = ToSet(list)
<1>1. CASE list = <<>>
  BY <1>1, FirstProperties DEF Iterates, Rest
<1>2. CASE list # <<>>
  BY <1>2, FirstProperties DEF Iterates, Rest
<1> QED
  BY <1>1, <1>2

(* An entry that is added last is the only one it gets to return. *)
LEMMA RestAppend ==
  ASSUME NEW M, NEW list \in Seq(M), NEW x \in M, NEW none, NEW at, Iterates(list, at, none)
  PROVE  /\ Iterates(Append(list, x), at, none)
         /\ Rest(list, at, none) \subseteq Rest(Append(list, x), at, none)
         /\ Rest(Append(list, x), at, none) \subseteq Rest(list, at, none) \cup {x}
<1>1. /\ ToSet(Append(list, x)) = ToSet(list) \cup {x}
      /\ \A a, b : Before(Append(list, x), a, b) <=> Before(list, a, b) \/ (a \in ToSet(list) /\ b = x)
  BY AppendedProperties
<1> QED
  BY <1>1 DEF Iterates, Rest

(* Of what is removed it returns nothing, and of the rest all. *)
LEMMA RestWithout ==
  ASSUME NEW M, NEW list \in Seq(M), IsInjective(list), NEW gone, NEW none, none \notin M,
         NEW at, Iterates(list, at, none)
  PROVE  LET next == IF at = none THEN none ELSE Stepped(list, at, gone, none)
         IN  /\ Iterates(Without(list, gone), next, none)
             /\ Rest(Without(list, gone), next, none) = Rest(list, at, none) \ gone
<1> DEFINE left == Without(list, gone)
           next == Stepped(list, at, gone, none)
<1>1. /\ ToSet(left) = ToSet(list) \ gone
      /\ \A a, b : Before(left, a, b) <=> Before(list, a, b) /\ a \notin gone /\ b \notin gone
  BY WithoutProperties
<1>2. CASE at = none
  BY <1>2 DEF Iterates, Rest
<1>3. CASE at # none
  <2>1. at \in ToSet(list)
    BY <1>3 DEF Iterates
  <2>2. /\ next \in (ToSet(list) \ gone) \cup {none}
        /\ next = none => \A b : b = at \/ Before(list, at, b) => b \in gone
        /\ next # none => /\ next = at \/ Before(list, at, next)
                          /\ \A b : b = at \/ Before(list, at, b) => b \in gone \/ b = next \/ Before(list, next, b)
    BY <2>1, SteppedProperties
  <2> HIDE DEF left, next
  <2>3. Iterates(left, next, none)
    BY <1>1, <2>2 DEF Iterates
  <2>4. \A a, b, c : Before(list, a, b) /\ Before(list, b, c) => Before(list, a, c)
    BY OrderProperties
  <2>5. ASSUME NEW x \in Rest(left, next, none) PROVE x \in Rest(list, at, none) \ gone
    BY <1>1, <1>3, <2>2, <2>4, <2>5 DEF Rest
  <2>6. ASSUME NEW x \in Rest(list, at, none) \ gone PROVE x \in Rest(left, next, none)
    BY <1>1, <1>3, <2>2, <2>6 DEF Rest
  <2>7. Rest(left, next, none) = Rest(list, at, none) \ gone
    BY <2>5, <2>6
  <2> QED
    BY <1>3, <2>3, <2>7 DEF left, next
<1> QED
  BY <1>2, <1>3

(* GetAndStep *)
LEMMA RestAfter ==
  ASSUME NEW M, NEW list \in Seq(M), IsInjective(list), NEW none, none \notin M, NEW at \in ToSet(list)
  PROVE  LET next == After(list, at, none)
         IN  /\ Iterates(list, next, none)
             /\ Rest(list, at, none) = {at} \cup Rest(list, next, none)
             /\ at \notin Rest(list, next, none)
<1> DEFINE next == After(list, at, none)
<1>1. /\ next \in ToSet(list) \cup {none}
      /\ next = none => \A b : ~Before(list, at, b)
      /\ next # none => /\ Before(list, at, next)
                        /\ \A b : Before(list, at, b) => b = next \/ Before(list, next, b)
  BY AfterProperties
<1>2. /\ \A a, b : Before(list, a, b) => a \in ToSet(list) /\ b \in ToSet(list) /\ a # b /\ ~Before(list, b, a)
      /\ \A a, b, c : Before(list, a, b) /\ Before(list, b, c) => Before(list, a, c)
  BY OrderProperties
<1>3. at # none
  BY FirstProperties
<1> HIDE DEF next
<1>4. Iterates(list, next, none)
  BY <1>1 DEF Iterates
<1>5. Rest(list, at, none) = {at} \cup Rest(list, next, none)
  <2>1. CASE next = none
    BY <1>1, <1>3, <2>1 DEF Rest
  <2>2. CASE next # none
    BY <1>1, <1>2, <1>3, <2>2 DEF Rest
  <2> QED
    BY <2>1, <2>2
<1>6. at \notin Rest(list, next, none)
  BY <1>1, <1>2 DEF Rest
<1> QED
  BY <1>4, <1>5, <1>6 DEF next

-----------------------------------------------------------------------------
(* Stacks *)

(* All of a stack but its top *)
LEMMA PopProperties ==
  ASSUME NEW F, NEW s \in Seq(F), s # <<>>
  PROVE  /\ Len(s) \in Nat /\ Len(s) \in 1..Len(s) /\ s[Len(s)] \in F
         /\ SubSeq(s, 1, Len(s) - 1) \in Seq(F)
         /\ Len(SubSeq(s, 1, Len(s) - 1)) = Len(s) - 1
         /\ \A i \in 1..Len(s) - 1 : i \in 1..Len(s) /\ SubSeq(s, 1, Len(s) - 1)[i] = s[i]
<1>1. Len(s) \in Nat /\ Len(s) # 0
  OBVIOUS
<1>2. 1 \in Int /\ Len(s) - 1 \in Int /\ \A i \in 1..Len(s) - 1 : s[i] \in F
  BY <1>1
<1>3. /\ SubSeq(s, 1, Len(s) - 1) \in Seq(F)
      /\ Len(SubSeq(s, 1, Len(s) - 1)) = IF 1 <= Len(s) - 1 THEN Len(s) - 1 - 1 + 1 ELSE 0
      /\ \A i \in 1..Len(s) - 1 - 1 + 1 : SubSeq(s, 1, Len(s) - 1)[i] = s[1 + i - 1]
  BY ONLY <1>2, s \in Seq(F), SubSeqProperties
<1>4. \A i \in 1..Len(s) - 1 : i \in 1..Len(s) /\ 1 + i - 1 = i
  BY <1>1
<1>5. ASSUME NEW i \in 1..Len(s) - 1
      PROVE  i \in 1..Len(s) /\ SubSeq(s, 1, Len(s) - 1)[i] = s[i]
  <2>1. i \in 1..Len(s) - 1 - 1 + 1
    BY <1>1
  <2> QED
    BY <2>1, <1>3, <1>4
<1>6. (IF 1 <= Len(s) - 1 THEN Len(s) - 1 - 1 + 1 ELSE 0) = Len(s) - 1
  <2>1. \A n \in Nat : n # 0 => (IF 1 <= n - 1 THEN n - 1 - 1 + 1 ELSE 0) = n - 1
    OBVIOUS
  <2> QED
    BY ONLY <1>1, <2>1
<1>7. Len(s) \in 1..Len(s) /\ s[Len(s)] \in F
  BY <1>1
<1>8. Len(SubSeq(s, 1, Len(s) - 1)) = Len(s) - 1
  BY ONLY <1>3, <1>6
<1> QED
  BY ONLY <1>1, <1>3, <1>5, <1>7, <1>8

-----------------------------------------------------------------------------
(* Recursion over naturals, and least members *)

(* Recursion over the first numbers, with a step of its own for each, has a
   solution. *)
LEMMA Recursion ==
  ASSUME NEW M, NEW base \in M, NEW n \in Nat, NEW step \in [1..n -> [M -> M]]
  PROVE  \E f \in [0..n -> M] : f[0] = base /\ \A i \in 1..n : f[i] = step[i][f[i - 1]]
<1> DEFINE Solves(f, k) == f \in [0..k -> M] /\ f[0] = base /\ \A i \in 1..k : f[i] = step[i][f[i - 1]]
           S == {k \in Nat : k <= n => \E f : Solves(f, k)}
<1>1. 0 \in S
  <2>1. Solves([i \in 0..0 |-> base], 0)
    OBVIOUS
  <2> QED
    BY <2>1, ZenonT(20)
<1>2. ASSUME NEW k \in Nat, k \in S
      PROVE  k + 1 \in S
  <2> SUFFICES ASSUME k + 1 <= n
               PROVE  \E f : Solves(f, k + 1)
    OBVIOUS
  <2>1. PICK f : Solves(f, k)
    BY <1>2
  <2> DEFINE g == [i \in 0..k + 1 |-> IF i <= k THEN f[i] ELSE step[k + 1][f[k]]]
  <2>2. f[k] \in M /\ step[k + 1] \in [M -> M]
    BY <2>1
  <2>3. step[k + 1][f[k]] \in M
    BY <2>2
  <2>4. g \in [0..k + 1 -> M]
    BY <2>1, <2>3
  <2>5. g[0] = base
    BY <2>1
  <2>6. ASSUME NEW i \in 1..k + 1
        PROVE  g[i] = step[i][g[i - 1]]
    <3>1. g[i - 1] = f[i - 1]
      OBVIOUS
    <3>2. CASE i <= k
      BY <2>1, <3>1, <3>2
    <3>3. CASE i = k + 1
      <4>1. g[k + 1] = step[k + 1][f[k]] /\ i - 1 = k
        BY <3>3
      <4> HIDE DEF g
      <4> QED
        BY <3>1, <3>3, <4>1
    <3> QED
      BY <3>2, <3>3
  <2> QED
    BY <2>4, <2>5, <2>6, ZenonT(20)
<1>3. Nat \subseteq S
  <2> HIDE DEF S
  <2> QED
    BY <1>1, <1>2, Induction
<1> QED
  BY <1>3

(* Min is the least. *)
LEMMA MinIsLeast ==
  ASSUME NEW T \in SUBSET Nat, T # {}
  PROVE  Min(T) \in T /\ \A k \in T : Min(T) <= k
<1>1. \E m \in T : \A k \in T : m <= k
  BY LeastNatural
<1> QED
  BY <1>1, ZenonT(20) DEF Min
=============================================================================
