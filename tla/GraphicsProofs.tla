--------------------------- MODULE GraphicsProofs ---------------------------
(***************************************************************************)
(* Proofs about the two components that own what is drawn, for any values  *)
(* of their constants.                                                     *)
(*                                                                         *)
(* BitmapFragments: from the spaces of a row up to the maps of all         *)
(* managers, every operation keeps its data structure in order; Inv is     *)
(* what they say together of gfx and the glyph cache, and every call is    *)
(* made of such operations.                                                *)
(*                                                                         *)
(* Images, for any images, files and addresses: images and the reps they   *)
(* refer to agree.  Each operation is made of Hold and Drop, which keep    *)
(* the invariant one by one, also while GetImage's image is on its way.    *)
(***************************************************************************)
EXTENDS BitmapFragments, Images, ListLemmas, FiniteSetTheorems

-----------------------------------------------------------------------------
(* What removal leaves *)

(* What RemoveAt leaves *)
LEMMA RemovedAt ==
  ASSUME NEW M, NEW list \in Seq(M), NEW i \in 1..Len(list)
  PROVE  /\ RemoveAt(list, i) \in Seq(M) /\ Len(RemoveAt(list, i)) = Len(list) - 1
         /\ \A j \in 1..Len(list) - 1 : RemoveAt(list, i)[j] = IF j < i THEN list[j] ELSE list[j + 1]
<1> DEFINE front == SubSeq(list, 1, i - 1)
           back == SubSeq(list, i + 1, Len(list))
<1>1. front \in Seq(M) /\ Len(front) = i - 1 /\ \A j \in 1..i - 1 : front[j] = list[j]
  BY SubSeqProperties
<1>2. back \in Seq(M) /\ Len(back) = Len(list) - i /\ \A j \in 1..Len(list) - i : back[j] = list[i + j]
  BY SubSeqProperties
<1>3. RemoveAt(list, i) = front \o back
  BY DEF RemoveAt
<1> HIDE DEF front, back
<1>4. Len(list) \in Nat /\ i \in Nat
  OBVIOUS
<1>5. /\ front \o back \in Seq(M) /\ Len(front \o back) = Len(front) + Len(back)
      /\ \A j \in 1..Len(front) + Len(back) :
           (front \o back)[j] = IF j <= Len(front) THEN front[j] ELSE back[j - Len(front)]
  BY <1>1, <1>2, ConcatProperties, ZenonT(20)
<1>6. Len(front) + Len(back) = Len(list) - 1
  BY <1>1, <1>2, <1>4
<1>7. ASSUME NEW j \in 1..Len(list) - 1
      PROVE  (front \o back)[j] = IF j < i THEN list[j] ELSE list[j + 1]
  <2>1. CASE j < i
    <3>1. j \in 1..i - 1 /\ j <= Len(front)
      BY <1>1, <1>4, <2>1
    <3> QED
      BY <1>1, <1>5, <1>6, <2>1, <3>1
  <2>2. CASE ~(j < i)
    <3>1. j - (i - 1) \in 1..Len(list) - i /\ i + (j - (i - 1)) = j + 1 /\ ~(j <= i - 1)
      BY <1>4, <2>2
    <3> QED
      BY <1>1, <1>2, <1>5, <1>6, <2>2, <3>1, ZenonT(20)
  <2> QED
    BY <2>1, <2>2, ZenonT(20)
<1> QED
  BY <1>3, <1>5, <1>6, <1>7

-----------------------------------------------------------------------------
(* Spaces and the columns they cover *)

Spaces == [x : Nat, width : Nat \ {0}]

(* s is left of t, and both are apart. *)
LeftOf(s, t) == s.x + s.width <= t.x

(* From left to right and without a common pixel *)
Ordered(list) == \A i, j \in 1..Len(list) : i < j => LeftOf(list[i], list[j])

(* and with a pixel at least between one and the next *)
Gapped(list) == \A i, j \in 1..Len(list) : i < j => list[i].x + list[i].width < list[j].x

Allocators == [available : Nat, free : Seq(Spaces), used : SUBSET Spaces]

(* The pixels of a space, and those of a width that no used one has *)
Cells(s) == s.x .. s.x + s.width - 1
Open(used, width) == (0..width - 1) \ Columns(used)

(* The inductive invariant of an allocator of a width *)
AllocatorOK(a, width) ==
  /\ a \in Allocators
  /\ \A s, t \in a.used : s = t \/ LeftOf(s, t) \/ LeftOf(t, s)
  /\ \A s \in a.used : s.x + s.width <= width
  /\ Gapped(a.free)
  /\ a.available = Cardinality(Open(a.used, width))
  /\ (a.free = <<>> /\ a.used = {}) \/ Columns(ToSet(a.free)) = Open(a.used, width)

(* Columns, one by one *)
LEMMA ColumnsMembers ==
  ASSUME NEW S \in SUBSET Spaces
  PROVE  /\ Columns(S) \subseteq Nat
         /\ \A c : c \in Columns(S) <=> c \in Nat /\ \E s \in S : s.x <= c /\ c < s.x + s.width
<1>1. \A s \in S : s.x \in Nat /\ s.width \in Nat
  BY DEF Spaces
<1>2. \A c : c \in Columns(S) <=> \E s \in S : c \in s.x .. s.x + s.width - 1
  BY DEF Columns
<1>3. ASSUME NEW s \in S, NEW c
      PROVE  c \in s.x .. s.x + s.width - 1 <=> c \in Nat /\ s.x <= c /\ c < s.x + s.width
  BY <1>1
<1> QED
  BY <1>2, <1>3

(* The columns of a list of spaces are those of one of them. *)
LEMMA ColumnsOfSequence ==
  ASSUME NEW list \in Seq(Spaces)
  PROVE  /\ ToSet(list) \subseteq Spaces
         /\ \A c : c \in Columns(ToSet(list)) <=>
                     c \in Nat /\ \E i \in 1..Len(list) : list[i].x <= c /\ c < list[i].x + list[i].width
<1>1. \A s : s \in ToSet(list) <=> \E i \in 1..Len(list) : list[i] = s
  BY DEF ToSet
<1>2. ToSet(list) \subseteq Spaces
  BY <1>1
<1> QED
  BY <1>1, <1>2, ColumnsMembers

(* Columns of two sets of spaces that lie apart, and of all spaces but one *)
LEMMA ColumnsWithout ==
  ASSUME NEW S \in SUBSET Spaces, NEW s \in S,
         \A t \in S : s = t \/ LeftOf(s, t) \/ LeftOf(t, s)
  PROVE  Columns(S \ {s}) = Columns(S) \ (s.x .. s.x + s.width - 1)
<1>1. \A t \in S : t.x \in Nat /\ t.width \in Nat \ {0}
  BY DEF Spaces
<1>2. /\ \A c : c \in Columns(S) <=> c \in Nat /\ \E t \in S : t.x <= c /\ c < t.x + t.width
      /\ \A c : c \in Columns(S \ {s}) <=> c \in Nat /\ \E t \in S \ {s} : t.x <= c /\ c < t.x + t.width
  <2>1. S \ {s} \in SUBSET Spaces
    OBVIOUS
  <2> QED
    BY <2>1, ColumnsMembers
<1>3. ASSUME NEW c
      PROVE  c \in Columns(S \ {s}) <=> c \in Columns(S) \ (s.x .. s.x + s.width - 1)
  <2>1. ASSUME NEW t \in S \ {s}, c \in Nat, t.x <= c, c < t.x + t.width
        PROVE  c \notin s.x .. s.x + s.width - 1
    BY <1>1, <2>1 DEF LeftOf
  <2>2. c \in Nat => (c \in s.x .. s.x + s.width - 1 <=> s.x <= c /\ c < s.x + s.width)
    BY <1>1
  <2>3. CASE c \in Nat
    BY <1>2, <2>1, <2>2, <2>3, ZenonT(20)
  <2>4. CASE c \notin Nat
    BY <1>2, <2>4, ZenonT(20)
  <2> QED
    BY <2>3, <2>4
<1> QED
  BY <1>3, ZenonT(20)

(* A space adds its own columns. *)
LEMMA ColumnsWith ==
  ASSUME NEW S \in SUBSET Spaces, NEW s \in Spaces
  PROVE  Columns(S \cup {s}) = Columns(S) \cup (s.x .. s.x + s.width - 1)
BY DEF Columns

(* A space whose pixels the spaces of a gapped list have is inside one of them. *)
LEMMA InsideOne ==
  ASSUME NEW list \in Seq(Spaces), Gapped(list), NEW s \in Spaces,
         s.x .. s.x + s.width - 1 \subseteq Columns(ToSet(list))
  PROVE  \E i \in 1..Len(list) : list[i].x <= s.x /\ s.x + s.width <= list[i].x + list[i].width
<1>1. s.x \in Nat /\ s.width \in Nat \ {0}
  BY DEF Spaces
<1>2. \A i \in 1..Len(list) : list[i].x \in Nat /\ list[i].width \in Nat \ {0}
  <2> TAKE i \in 1..Len(list)
  <2>1. list[i] \in Spaces
    OBVIOUS
  <2> QED
    BY <2>1, ZenonT(20) DEF Spaces
<1>3. ASSUME NEW c \in Nat, s.x <= c, c < s.x + s.width
      PROVE  \E i \in 1..Len(list) : list[i].x <= c /\ c < list[i].x + list[i].width
  <2>1. c \in s.x .. s.x + s.width - 1
    BY <1>1, <1>3
  <2> QED
    BY <2>1, ColumnsOfSequence
<1>4. PICK i \in 1..Len(list) : list[i].x <= s.x /\ s.x < list[i].x + list[i].width
  BY <1>1, <1>3
<1>5. SUFFICES ASSUME list[i].x + list[i].width < s.x + s.width
               PROVE  FALSE
  BY <1>1, <1>2, <1>4
<1> DEFINE end == list[i].x + list[i].width
<1>6. end \in Nat /\ s.x <= end /\ end < s.x + s.width
  BY <1>1, <1>2, <1>4, <1>5
<1>7. PICK j \in 1..Len(list) : list[j].x <= end /\ end < list[j].x + list[j].width
  BY <1>3, <1>6
<1>8. CASE i < j
  BY <1>2, <1>7, <1>8 DEF Gapped
<1>9. CASE j < i
  <2>1. list[j].x + list[j].width < list[i].x
    BY <1>9 DEF Gapped
  <2> QED
    BY <1>2, <1>7, <2>1, SMTT(20)
<1>10. CASE i = j
  BY <1>2, <1>7, <1>10
<1> QED
  BY <1>8, <1>9, <1>10

(* The free space left of an interval, in all or in part taken off *)
LEMMA WidthOf ==
  ASSUME NEW x \in Nat, NEW w \in Nat
  PROVE  IsFiniteSet(x .. x + w - 1) /\ Cardinality(x .. x + w - 1) = w
<1>1. x \in Int /\ x + w - 1 \in Int
  OBVIOUS
<1>2. IsFiniteSet(x .. x + w - 1) /\ Cardinality(x .. x + w - 1) = IF x > x + w - 1 THEN 0 ELSE x + w - 1 - x + 1
  BY <1>1, FS_Interval
<1> QED
  BY <1>2

-----------------------------------------------------------------------------
(* SpaceAllocator: the list of free spaces *)

(* The first of those with the least value is one of them. *)
LEMMA FirstLeast ==
  ASSUME NEW n \in Nat, NEW T \in SUBSET (1..n), T # {}, NEW value \in [T -> Nat]
  PROVE  Min({i \in T : \A j \in T : value[i] <= value[j]}) \in T
<1> DEFINE V == {value[i] : i \in T}
           L == {i \in T : \A j \in T : value[i] <= value[j]}
<1>1. V \in SUBSET Nat /\ V # {}
  BY ZenonT(20)
<1>2. PICK v \in V : \A k \in V : v <= k
  <2> HIDE DEF V
  <2> QED
    BY <1>1, LeastNatural
<1>3. L # {}
  BY <1>2
<1>4. L \in SUBSET Nat
  <2>1. \A i \in T : i \in Nat
    OBVIOUS
  <2> QED
    BY <2>1, ZenonT(20)
<1>5. Min(L) \in L
  <2> HIDE DEF L
  <2> QED
    BY <1>3, <1>4, MinIsLeast
<1> QED
  BY <1>5

(* GetSmallestAvailableSpace finds a space that is large enough, if one is. *)
LEMMA SmallestSpace ==
  ASSUME NEW free \in Seq(Spaces), NEW w \in Nat
  PROVE  LET i == GetSmallestAvailableSpace(free, w)
         IN  /\ i # 0 => i \in 1..Len(free) /\ w <= free[i].width
             /\ i = 0 => \A j \in 1..Len(free) : ~(w <= free[j].width)
<1> DEFINE fits == {i \in DOMAIN free : w <= free[i].width}
           value == [i \in fits |-> free[i].width]
           least == {i \in fits : \A j \in fits : free[i].width <= free[j].width}
<1>1. Len(free) \in Nat /\ DOMAIN free = 1..Len(free)
  OBVIOUS
<1>2. \A i \in 1..Len(free) : free[i].width \in Nat
  <2> TAKE i \in 1..Len(free)
  <2>1. free[i] \in Spaces
    OBVIOUS
  <2> QED
    BY <2>1 DEF Spaces
<1>3. GetSmallestAvailableSpace(free, w) = IF fits = {} THEN 0 ELSE Min(least)
  BY DEF GetSmallestAvailableSpace
<1>4. CASE fits = {}
  BY <1>1, <1>3, <1>4
<1>5. CASE fits # {}
  <2>1. fits \in SUBSET (1..Len(free)) /\ value \in [fits -> Nat]
    BY <1>1, <1>2
  <2>2. least = {i \in fits : \A j \in fits : value[i] <= value[j]}
    BY ZenonT(20)
  <2>3. Min({i \in fits : \A j \in fits : value[i] <= value[j]}) \in fits
    <3> HIDE DEF fits, value
    <3> QED
      BY <1>1, <1>5, <2>1, FirstLeast, ZenonT(20)
  <2>4. Min(least) \in fits
    BY <2>2, <2>3, ZenonT(20)
  <2>5. Min(least) \in 1..Len(free) /\ w <= free[Min(least)].width /\ Min(least) # 0
    BY <1>1, <2>4
  <2> HIDE DEF fits, least
  <2> QED
    BY <1>3, <1>5, <2>5
<1> QED
  BY <1>4, <1>5

(* A list with one space less *)
LEMMA GappedRemoved ==
  ASSUME NEW free \in Seq(Spaces), Gapped(free), NEW i \in 1..Len(free)
  PROVE  /\ RemoveAt(free, i) \in Seq(Spaces) /\ Gapped(RemoveAt(free, i))
         /\ Columns(ToSet(RemoveAt(free, i))) = Columns(ToSet(free)) \ (free[i].x .. free[i].x + free[i].width - 1)
<1> DEFINE left == RemoveAt(free, i)
           old(j) == IF j < i THEN j ELSE j + 1
<1>0. /\ left \in Seq(Spaces) /\ Len(left) = Len(free) - 1
      /\ \A j \in 1..Len(free) - 1 : left[j] = IF j < i THEN free[j] ELSE free[j + 1]
  BY RemovedAt
<1>1. Len(free) \in Nat /\ i \in Nat /\ i <= Len(free)
  OBVIOUS
<1>2. \A j \in 1..Len(free) : free[j].x \in Nat /\ free[j].width \in Nat
  <2> TAKE j \in 1..Len(free)
  <2>1. free[j] \in Spaces
    OBVIOUS
  <2> QED
    BY <2>1, ZenonT(20) DEF Spaces
<1>3. \A j \in 1..Len(left) : old(j) \in 1..Len(free) /\ old(j) # i /\ left[j] = free[old(j)]
  BY <1>0, <1>1
<1>4. \A j, k \in 1..Len(left) : j < k => old(j) < old(k)
  BY <1>0, <1>1
<1>5. \A j \in 1..Len(free) : j # i => \E k \in 1..Len(left) : old(k) = j
  <2> TAKE j \in 1..Len(free)
  <2>1. CASE j < i
    <3>1. j \in 1..Len(left) /\ old(j) = j
      BY <1>0, <1>1, <2>1
    <3> QED
      BY <3>1
  <2>2. CASE j > i
    <3>1. j - 1 \in 1..Len(left) /\ old(j - 1) = j
      BY <1>0, <1>1, <2>2
    <3> QED
      BY <3>1
  <2> QED
    BY <1>1, <2>1, <2>2
<1> HIDE DEF old
<1>6. Gapped(left)
  <2> HIDE DEF left
  <2> QED
    BY <1>3, <1>4, ZenonT(20) DEF Gapped
<1>7. ASSUME NEW j \in 1..Len(free), j # i, NEW c \in Nat, free[j].x <= c, c < free[j].x + free[j].width
      PROVE  ~(free[i].x <= c /\ c < free[i].x + free[i].width)
  <2>1. CASE j < i
    <3>1. free[j].x + free[j].width < free[i].x
      BY <2>1 DEF Gapped
    <3> QED
      BY <1>2, <1>7, <3>1
  <2>2. CASE i < j
    <3>1. free[i].x + free[i].width < free[j].x
      BY <2>2 DEF Gapped
    <3> QED
      BY <1>2, <1>7, <3>1
  <2> QED
    BY <1>1, <1>7, <2>1, <2>2
<1> HIDE DEF left
<1>8. \A c : c \in Columns(ToSet(left)) <=>
               c \in Nat /\ \E j \in 1..Len(left) : left[j].x <= c /\ c < left[j].x + left[j].width
  BY <1>0, ColumnsOfSequence, ZenonT(20)
<1>9. \A c : c \in Columns(ToSet(free)) <=>
               c \in Nat /\ \E j \in 1..Len(free) : free[j].x <= c /\ c < free[j].x + free[j].width
  BY ColumnsOfSequence
<1>10. \A c : c \in Nat => (c \in free[i].x .. free[i].x + free[i].width - 1 <=>
                              free[i].x <= c /\ c < free[i].x + free[i].width)
  BY <1>2
<1>11. ASSUME NEW c
       PROVE  c \in Columns(ToSet(left)) <=> c \in Columns(ToSet(free)) \ (free[i].x .. free[i].x + free[i].width - 1)
  <2>1. c \in Columns(ToSet(left)) <=>
          c \in Nat /\ \E j \in 1..Len(free) : j # i /\ free[j].x <= c /\ c < free[j].x + free[j].width
    BY <1>3, <1>5, <1>8, ZenonT(20)
  <2> QED
    BY <1>7, <1>9, <1>10, <2>1
<1> QED
  BY <1>0, <1>6, <1>11 DEF left

(* A list whose space is narrower, taken from its left *)
LEMMA GappedNarrowed ==
  ASSUME NEW free \in Seq(Spaces), Gapped(free), NEW i \in 1..Len(free),
         NEW w \in Nat \ {0}, w < free[i].width
  PROVE  LET left == [free EXCEPT ![i] = Space(free[i].x + w, free[i].width - w)]
         IN  /\ left \in Seq(Spaces) /\ Gapped(left)
             /\ Columns(ToSet(left)) = Columns(ToSet(free)) \ (free[i].x .. free[i].x + w - 1)
<1> DEFINE t == Space(free[i].x + w, free[i].width - w)
           left == [free EXCEPT ![i] = t]
<1>1. \A j \in 1..Len(free) : free[j].x \in Nat /\ free[j].width \in Nat
  <2> TAKE j \in 1..Len(free)
  <2>1. free[j] \in Spaces
    OBVIOUS
  <2> QED
    BY <2>1, ZenonT(20) DEF Spaces
<1>2. t \in Spaces /\ t.x = free[i].x + w /\ t.width = free[i].width - w
  <2>1. free[i].x + w \in Nat /\ free[i].width - w \in Nat \ {0}
    BY <1>1
  <2> QED
    BY <2>1 DEF Space, Spaces
<1> HIDE DEF t
<1>3. left \in Seq(Spaces) /\ Len(left) = Len(free) /\ \A j \in 1..Len(free) : left[j] = IF j = i THEN t ELSE free[j]
  BY <1>2
<1> HIDE DEF left
<1>4. left[i].x = free[i].x + w /\ left[i].width = free[i].width - w
  BY <1>2, <1>3
<1>5. left[i].x + left[i].width = free[i].x + free[i].width
  <2>1. free[i].x \in Nat /\ free[i].width \in Nat
    BY <1>1
  <2>2. free[i].x + w + (free[i].width - w) = free[i].x + free[i].width
    BY <2>1
  <2> QED
    BY <1>4, <2>2
<1>6. Gapped(left)
  <2> SUFFICES ASSUME NEW j \in 1..Len(free), NEW k \in 1..Len(free), j < k
               PROVE  left[j].x + left[j].width < left[k].x
    BY <1>3 DEF Gapped
  <2>1. free[j].x + free[j].width < free[k].x
    BY DEF Gapped
  <2>2. CASE j = i
    BY <1>5, <1>3, <2>1, <2>2
  <2>3. CASE k = i
    BY <1>4, <1>1, <1>3, <2>1, <2>3, SMTT(20)
  <2>4. CASE j # i /\ k # i
    BY <1>3, <2>1, <2>4
  <2> QED
    BY <2>2, <2>3, <2>4
<1>7. \A c : c \in Columns(ToSet(left)) <=>
               c \in Nat /\ \E j \in 1..Len(free) : left[j].x <= c /\ c < left[j].x + left[j].width
  BY <1>3, ColumnsOfSequence
<1>8. \A c : c \in Columns(ToSet(free)) <=>
               c \in Nat /\ \E j \in 1..Len(free) : free[j].x <= c /\ c < free[j].x + free[j].width
  BY ColumnsOfSequence
<1>9. \A c \in Nat : c \in free[i].x .. free[i].x + w - 1 <=> free[i].x <= c /\ c < free[i].x + w
  BY <1>1
<1>10. ASSUME NEW j \in 1..Len(free), j # i, NEW c \in Nat, free[j].x <= c, c < free[j].x + free[j].width
      PROVE  ~(free[i].x <= c /\ c < free[i].x + free[i].width)
  <2>1. CASE j < i
    <3>1. free[j].x + free[j].width < free[i].x
      BY <2>1 DEF Gapped
    <3> QED
      BY <1>1, <1>10, <3>1
  <2>2. CASE i < j
    <3>1. free[i].x + free[i].width < free[j].x
      BY <2>2 DEF Gapped
    <3> QED
      BY <1>1, <1>10, <3>1
  <2> QED
    BY <1>10, <2>1, <2>2
<1>11. ASSUME NEW c \in Nat
      PROVE  c \in Columns(ToSet(left)) <=> c \in Columns(ToSet(free)) \ (free[i].x .. free[i].x + w - 1)
  <2>1. (left[i].x <= c /\ c < left[i].x + left[i].width) <=>
          (free[i].x <= c /\ c < free[i].x + free[i].width) /\ ~(c < free[i].x + w)
    BY <1>4, <1>5, <1>1
  <2>2. \A j \in 1..Len(free) : j # i => left[j] = free[j]
    BY <1>3
  <2>3. ASSUME NEW j \in 1..Len(free), j # i, free[j].x <= c, c < free[j].x + free[j].width
        PROVE  ~(free[i].x <= c /\ c < free[i].x + w)
    BY <1>1, <1>10, <2>3
  <2>4. ASSUME c \in Columns(ToSet(left))
        PROVE  c \in Columns(ToSet(free)) \ (free[i].x .. free[i].x + w - 1)
    <3>1. PICK j \in 1..Len(free) : left[j].x <= c /\ c < left[j].x + left[j].width
      BY <1>7, <2>4
    <3>2. CASE j = i
      BY <1>8, <1>9, <2>1, <3>1, <3>2
    <3>3. CASE j # i
      BY <1>8, <1>9, <2>2, <2>3, <3>1, <3>3, ZenonT(20)
    <3> QED
      BY <3>2, <3>3
  <2>5. ASSUME c \in Columns(ToSet(free)), c \notin free[i].x .. free[i].x + w - 1
        PROVE  c \in Columns(ToSet(left))
    <3>1. PICK j \in 1..Len(free) : free[j].x <= c /\ c < free[j].x + free[j].width
      BY <1>8, <2>5
    <3>2. CASE j = i
      BY <1>7, <1>9, <2>1, <2>5, <3>1, <3>2
    <3>3. CASE j # i
      BY <1>7, <2>2, <3>1, <3>3
    <3> QED
      BY <3>2, <3>3
  <2> QED
    BY <2>4, <2>5
<1>12. Columns(ToSet(left)) = Columns(ToSet(free)) \ (free[i].x .. free[i].x + w - 1)
  <2>1. \A c : c \in Columns(ToSet(left)) => c \in Nat
    BY <1>7
  <2>2. \A c : c \in Columns(ToSet(free)) => c \in Nat
    BY <1>8
  <2> QED
    BY <1>11, <2>1, <2>2
<1> QED
  BY <1>3, <1>6, <1>12, ZenonT(20) DEF left, t

-----------------------------------------------------------------------------
(* SpaceAllocator::AllocSpace *)

(* An allocator that is used for nothing has all its width available. *)
LEMMA AllAvailable ==
  ASSUME NEW width \in Nat, NEW a, AllocatorOK(a, width), a.used = {}
  PROVE  a.available = width
<1>1. Columns({}) = {}
  BY DEF Columns
<1>2. (0..width - 1) \ Columns({}) = 0..0 + width - 1
  BY <1>1
<1>3. Cardinality(0..0 + width - 1) = width
  BY WidthOf
<1> QED
  BY <1>2, <1>3, ZenonT(20) DEF AllocatorOK, Open

(* The list of free spaces, left empty until the first call, describes an unused row. *)
LEMMA FilledOK ==
  ASSUME NEW width \in Nat \ {0}, NEW a, AllocatorOK(a, width)
  PROVE  /\ AllocatorOK(Filled(a), width)
         /\ Filled(a).used = a.used /\ Filled(a).available = a.available
         /\ Columns(ToSet(Filled(a).free)) = Open(a.used, width)
<1>1. CASE a.free = <<>> /\ a.used = {}
  <2>1. a.available = width
    BY <1>1, AllAvailable
  <2> DEFINE s == Space(0, a.available)
             b == [a EXCEPT !.free = <<s>>]
  <2>2. s \in Spaces /\ s.x = 0 /\ s.width = width
    BY <2>1 DEF Space, Spaces
  <2> HIDE DEF s
  <2>3. Filled(a) = b
    BY <1>1 DEF Filled, empty, s
  <2>4. a \in Allocators
    BY DEF AllocatorOK
  <2>5. b \in Allocators /\ b.used = {} /\ b.available = a.available /\ b.free = <<s>>
    <3> DEFINE one == <<s>>
    <3>1. one \in Seq(Spaces)
      BY <2>2
    <3> HIDE DEF one
    <3>2. [a EXCEPT !.free = one] \in Allocators
      BY <2>4, <3>1 DEF Allocators
    <3>3. a = [available |-> a.available, free |-> a.free, used |-> a.used]
      BY <2>4 DEF Allocators
    <3> QED
      BY <1>1, <3>2, <3>3 DEF one
  <2>6. ToSet(<<s>>) = {s}
    BY DEF ToSet
  <2>7. Columns({}) = {} /\ Columns({s}) = 0..width - 1
    <3>1. Columns({s}) = s.x .. s.x + s.width - 1
      BY DEF Columns
    <3>2. 0 + width - 1 = width - 1
      OBVIOUS
    <3> QED
      BY <2>2, <3>1, <3>2 DEF Columns
  <2>8. Columns(ToSet(b.free)) = Open(a.used, width)
    BY <1>1, <2>5, <2>6, <2>7, ZenonT(20) DEF Open
  <2>9. Gapped(b.free)
    BY <2>5 DEF Gapped
  <2>10. b.available = Cardinality(Open(b.used, width))
    BY <1>1, <2>5, ZenonT(20) DEF AllocatorOK
  <2> HIDE DEF b
  <2>11. AllocatorOK(b, width)
    BY <1>1, <2>5, <2>8, <2>9, <2>10 DEF AllocatorOK
  <2> QED
    BY <1>1, <2>3, <2>5, <2>8, <2>11
<1>2. CASE ~(a.free = <<>> /\ a.used = {})
  <2>1. Filled(a) = a
    BY <1>2 DEF Filled, empty
  <2> QED
    BY <1>2, <2>1 DEF AllocatorOK
<1> QED
  BY <1>1, <1>2

(* What a space taken from the free ones leaves available *)
LEMMA LessAvailable ==
  ASSUME NEW width \in Nat, NEW used \in SUBSET Spaces, NEW s \in Spaces,
         Cells(s) \subseteq Open(used, width)
  PROVE  /\ Open(used \cup {s}, width) = Open(used, width) \ Cells(s)
         /\ Cardinality(Open(used, width)) \in Nat
         /\ Cardinality(Open(used \cup {s}, width)) = Cardinality(Open(used, width)) - s.width
<1> DEFINE cells == Cells(s)
           open == Open(used, width)
<1>1. Open(used \cup {s}, width) = open \ cells
  BY ColumnsWith DEF Open, Cells
<1>2. IsFiniteSet(open)
  <2>1. IsFiniteSet(0..width - 1)
    BY FS_Interval
  <2> QED
    BY <2>1, FS_Difference, ZenonT(20) DEF Open
<1>3. Cardinality(cells) = s.width
  <2>1. s.x \in Nat /\ s.width \in Nat
    BY DEF Spaces
  <2> QED
    BY <2>1, WidthOf, ZenonT(20) DEF Cells
<1>4. open \cap cells = cells
  OBVIOUS
<1>5. Cardinality(open \ cells) = Cardinality(open) - Cardinality(open \cap cells) /\ Cardinality(open) \in Nat
  <2> HIDE DEF open, cells
  <2> QED
    BY <1>2, FS_Difference, FS_CardinalityType, ZenonT(20)
<1> QED
  BY <1>1, <1>3, <1>4, <1>5, ZenonT(20)

(* AllocSpace, once it has found a free space *)
LEMMA TakenFromFree ==
  ASSUME NEW width \in Nat \ {0}, NEW a, AllocatorOK(a, width),
         Columns(ToSet(a.free)) = Open(a.used, width),
         NEW i \in 1..Len(a.free), NEW w \in Nat \ {0}, w <= a.free[i].width
  PROVE  LET from == a.free[i]
             s == Space(from.x, w)
             left == IF from.width = w THEN RemoveAt(a.free, i)
                     ELSE [a.free EXCEPT ![i] = Space(from.x + w, from.width - w)]
         IN  /\ AllocatorOK([available |-> a.available - w, free |-> left, used |-> a.used \cup {s}], width)
             /\ s \in Spaces /\ s.width = w /\ s \notin a.used /\ s.x + w <= width
             /\ \A t \in a.used : LeftOf(s, t) \/ LeftOf(t, s)
<1> DEFINE from == a.free[i]
           s == Space(from.x, w)
           left == IF from.width = w THEN RemoveAt(a.free, i)
                   ELSE [a.free EXCEPT ![i] = Space(from.x + w, from.width - w)]
           used == a.used \cup {s}
           open == Open(a.used, width)
           b == [available |-> a.available - w, free |-> left, used |-> used]
<1>1. a.free \in Seq(Spaces) /\ a.used \in SUBSET Spaces /\ Gapped(a.free) /\ a.available = Cardinality(open)
  BY DEF AllocatorOK, Allocators
<1>2. from \in Spaces /\ from.x \in Nat /\ from.width \in Nat
  <2>1. from \in Spaces
    BY <1>1
  <2> QED
    BY <2>1 DEF Spaces
<1>3. s \in Spaces /\ s.x = from.x /\ s.width = w
  BY <1>2 DEF Space, Spaces
<1> DEFINE cells == Cells(s)
<1>4. left \in Seq(Spaces) /\ Gapped(left) /\ Columns(ToSet(left)) = Columns(ToSet(a.free)) \ cells
  <2>1. CASE from.width = w
    BY <1>1, <1>3, <2>1, GappedRemoved DEF Cells
  <2>2. CASE from.width # w
    <3>1. w < from.width
      BY <1>2, <2>2
    <3> QED
      BY <1>1, <1>3, <2>2, <3>1, GappedNarrowed DEF Cells
  <2> QED
    BY <2>1, <2>2, ZenonT(20)
<1> HIDE DEF left
<1>5. cells \subseteq open
  <2> SUFFICES ASSUME NEW c \in cells
               PROVE  c \in Columns(ToSet(a.free))
    OBVIOUS
  <2>1. c \in Nat /\ from.x <= c /\ c < from.x + from.width
    BY <1>2, <1>3, SMTT(20) DEF Cells
  <2> QED
    BY <1>1, <2>1, ColumnsOfSequence
<1>6. /\ Open(used, width) = open \ cells
      /\ Cardinality(open) \in Nat
      /\ Cardinality(Open(used, width)) = Cardinality(open) - w
  <2> HIDE DEF s
  <2>1. width \in Nat
    OBVIOUS
  <2> QED
    BY <1>1, <1>3, <1>5, <2>1, LessAvailable, ZenonT(20)
<1>7. s.x + w <= width
  <2>1. s.x + w - 1 \in cells
    BY <1>2, <1>3 DEF Cells
  <2>2. s.x + w - 1 \in 0..width - 1
    BY <1>5, <2>1 DEF Open
  <2> QED
    BY <1>2, <1>3, <2>2
<1>8. ASSUME NEW t \in a.used
      PROVE  LeftOf(s, t) \/ LeftOf(t, s)
  <2>1. t.x \in Nat /\ t.width \in Nat \ {0}
    BY <1>1, ZenonT(20) DEF Spaces
  <2>2. \A c \in Nat : t.x <= c /\ c < t.x + t.width => c \in Columns(a.used)
    BY <1>1, ColumnsMembers
  <2>3. \A c \in Nat : s.x <= c /\ c < s.x + w => c \notin Columns(a.used)
    <3> TAKE c \in Nat
    <3>1. s.x <= c /\ c < s.x + w => c \in cells
      BY <1>2, <1>3 DEF Cells
    <3> QED
      BY <1>5, <3>1 DEF Open
  <2>4. ~(s.x <= t.x /\ t.x < s.x + w)
    BY <2>1, <2>2, <2>3
  <2>5. ~(t.x <= s.x /\ s.x < t.x + t.width)
    BY <1>2, <1>3, <2>2, <2>3
  <2> QED
    BY <1>2, <1>3, <2>1, <2>4, <2>5 DEF LeftOf
<1>9. s \notin a.used
  <2> SUFFICES ASSUME s \in a.used PROVE FALSE
    OBVIOUS
  <2>1. LeftOf(s, s)
    BY <1>8
  <2> QED
    BY <1>2, <1>3, <2>1 DEF LeftOf
<1>10. AllocatorOK(b, width)
  <2>1. Cardinality(Open(used, width)) \in Nat
    <3>1. IsFiniteSet(0..width - 1)
      BY FS_Interval
    <3> QED
      BY <3>1, FS_Difference, FS_CardinalityType, ZenonT(20) DEF Open
  <2>2. a.available - w \in Nat /\ a.available - w = Cardinality(Open(used, width))
    BY <1>1, <1>6, <2>1
  <2>3. b \in Allocators
    BY <1>1, <1>3, <1>4, <2>2 DEF Allocators
  <2>4. \A t, u \in used : t = u \/ LeftOf(t, u) \/ LeftOf(u, t)
    <3>1. \A t, u \in a.used : t = u \/ LeftOf(t, u) \/ LeftOf(u, t)
      BY DEF AllocatorOK
    <3> HIDE DEF s
    <3> QED
      BY <1>8, <3>1
  <2>5. \A t \in used : t.x + t.width <= width
    <3>1. \A t \in a.used : t.x + t.width <= width
      BY DEF AllocatorOK
    <3> HIDE DEF s
    <3> QED
      BY <1>3, <1>7, <3>1
  <2>6. Columns(ToSet(left)) = Open(used, width)
    BY <1>4, <1>6, ZenonT(20)
  <2>7. b.used = used /\ b.free = left /\ b.available = a.available - w
    OBVIOUS
  <2> HIDE DEF b, used
  <2> QED
    BY <1>4, <2>2, <2>3, <2>4, <2>5, <2>6, <2>7 DEF AllocatorOK
<1> QED
  BY <1>3, <1>7, <1>8, <1>9, <1>10 DEF left

(* What AllocSpace does *)
LEMMA AllocSpaceOK ==
  ASSUME NEW width \in Nat \ {0}, NEW a, AllocatorOK(a, width), NEW w \in Nat \ {0}
  PROVE  LET got == AllocSpace(a, w)
         IN  /\ AllocatorOK(got.allocator, width)
             /\ got.space = NoSpace => got.allocator.used = a.used
             /\ got.space # NoSpace =>
                  /\ got.space \in Spaces /\ got.space.width = w /\ got.space.x + w <= width
                  /\ got.space \notin a.used /\ got.allocator.used = a.used \cup {got.space}
                  /\ \A t \in a.used : LeftOf(got.space, t) \/ LeftOf(t, got.space)
             /\ HasSpace(a, w) => got.space # NoSpace
<1> DEFINE b == Filled(a)
           i == GetSmallestAvailableSpace(b.free, w)
           from == b.free[i]
           s == Space(from.x, w)
           left == IF from.width = w THEN RemoveAt(b.free, i)
                   ELSE [b.free EXCEPT ![i] = Space(from.x + w, from.width - w)]
           got == AllocSpace(a, w)
           after == [available |-> b.available - w, free |-> left, used |-> b.used \cup {s}]
<1>1. /\ AllocatorOK(b, width) /\ b.used = a.used /\ b.available = a.available
      /\ Columns(ToSet(b.free)) = Open(b.used, width)
  BY FilledOK
<1>2. got = IF i = 0 THEN [allocator |-> b, space |-> NoSpace] ELSE [allocator |-> after, space |-> s]
  BY DEF AllocSpace
<1>3. b.free \in Seq(Spaces) /\ Gapped(b.free) /\ b.used \in SUBSET Spaces
  BY <1>1 DEF AllocatorOK, Allocators
<1>4. /\ i # 0 => i \in 1..Len(b.free) /\ w <= b.free[i].width
      /\ i = 0 => \A j \in 1..Len(b.free) : ~(w <= b.free[j].width)
  <2> HIDE DEF b
  <2> QED
    BY <1>3, SmallestSpace
<1>5. ASSUME HasSpace(a, w)
      PROVE  i # 0
  <2>1. CASE empty(a)
    <3>1. b.used = {} /\ w <= b.available
      BY <1>1, <1>5, <2>1 DEF HasSpace, empty
    <3>2. b.available = width
      BY <1>1, <3>1, AllAvailable
    <3> DEFINE t == Space(0, w)
    <3>3. t \in Spaces /\ t.x = 0 /\ t.width = w
      BY DEF Space, Spaces
    <3>4. Columns(ToSet(b.free)) = 0..width - 1
      BY <1>1, <3>1 DEF Open, Columns
    <3> HIDE DEF t, b
    <3>5. t.x .. t.x + t.width - 1 \subseteq Columns(ToSet(b.free))
      <4>1. ASSUME NEW c \in t.x .. t.x + t.width - 1
            PROVE  c \in 0..width - 1
        BY <3>1, <3>2, <3>3
      <4> QED
        BY <3>4, <4>1
    <3>6. PICK j \in 1..Len(b.free) : b.free[j].x <= t.x /\ t.x + t.width <= b.free[j].x + b.free[j].width
      BY <1>3, <3>3, <3>5, InsideOne, ZenonT(20)
    <3>7. b.free[j] \in Spaces
      BY <1>3
    <3>8. w <= b.free[j].width
      BY <3>3, <3>6, <3>7 DEF Spaces
    <3> QED
      BY <1>4, <3>8
  <2>2. CASE ~empty(a)
    <3>1. PICK j \in DOMAIN a.free : w <= a.free[j].width
      BY <1>5, <2>2 DEF HasSpace
    <3>2. b = a
      BY <2>2 DEF Filled
    <3>3. j \in 1..Len(b.free) /\ w <= b.free[j].width
      <4>1. DOMAIN b.free = 1..Len(b.free)
        BY <1>3
      <4> QED
        BY <3>1, <3>2, <4>1
    <3> HIDE DEF b, i
    <3> QED
      BY <1>4, <3>3
  <2> QED
    BY <2>1, <2>2
<1>6. CASE i = 0
  <2>1. got.allocator = b /\ got.space = NoSpace
    BY <1>2, <1>6
  <2> QED
    BY <1>1, <1>5, <1>6, <2>1
<1>7. CASE i # 0
  <2>1. got.allocator = after /\ got.space = s
    BY <1>2, <1>7
  <2>2. i \in 1..Len(b.free) /\ w <= b.free[i].width
    BY <1>4, <1>7
  <2>3. /\ AllocatorOK(after, width)
        /\ s \in Spaces /\ s.width = w /\ s \notin b.used /\ s.x + w <= width
        /\ \A t \in b.used : LeftOf(s, t) \/ LeftOf(t, s)
    <3> HIDE DEF b, i
    <3> QED
      BY <1>1, <2>2, TakenFromFree, ZenonT(20)
  <2>4. s # NoSpace
    BY <2>3 DEF NoSpace, Space, Spaces
  <2>5. after.used = b.used \cup {s}
    OBVIOUS
  <2> HIDE DEF b, i, s, after, got
  <2> QED
    BY <1>1, <2>1, <2>3, <2>4, <2>5 DEF got
<1> QED
  BY <1>6, <1>7

(* One step of the pass that joins the free spaces *)
LEMMA JoinedLastGapped ==
  ASSUME NEW list \in Seq(Spaces), Gapped(list), NEW s \in Spaces,
         \A i \in 1..Len(list) : LeftOf(list[i], s)
  PROVE  LET more == JoinedLast(list, s)
         IN  /\ more \in Seq(Spaces) /\ Gapped(more)
             /\ Columns(ToSet(more)) = Columns(ToSet(list)) \cup Cells(s)
             /\ \A i \in 1..Len(more) : more[i].x + more[i].width <= s.x + s.width
<1> DEFINE n == Len(list)
           last == list[n]
           joined == Joined(last, s)
           more == JoinedLast(list, s)
<1>1. n \in Nat /\ s.x \in Nat /\ s.width \in Nat \ {0}
  BY DEF Spaces
<1>2. \A i \in 1..n : list[i] \in Spaces /\ list[i].x \in Nat /\ list[i].width \in Nat \ {0}
  <2> TAKE i \in 1..n
  <2>1. list[i] \in Spaces
    OBVIOUS
  <2> QED
    BY <2>1, ZenonT(20) DEF Spaces
<1>3. \A i, j \in 1..n : i < j => list[i].x + list[i].width < list[j].x
  BY DEF Gapped
<1>4. \A i \in 1..n : list[i].x + list[i].width <= s.x
  BY DEF LeftOf
<1>5. \A c : c \in Columns(ToSet(list)) <=>
               c \in Nat /\ \E j \in 1..n : list[j].x <= c /\ c < list[j].x + list[j].width
  BY ColumnsOfSequence
<1>6. \A c : c \in Cells(s) <=> c \in Nat /\ s.x <= c /\ c < s.x + s.width
  BY <1>1 DEF Cells
<1>7. CASE list # <<>> /\ Touch(Last(list), s)
  <2>1. n \in 1..n /\ Last(list) = last /\ last.x + last.width = s.x
    BY <1>7 DEF Touch, Last
  <2>2. joined \in Spaces /\ joined.x = last.x /\ joined.width = last.width + s.width
    <3>1. last.x \in Nat /\ last.width + s.width \in Nat \ {0}
      BY <1>1, <1>2, <2>1
    <3> QED
      BY <3>1 DEF Joined, Space, Spaces
  <2>3. joined.x + joined.width = s.x + s.width
    <3>1. last.x \in Nat /\ last.width \in Nat
      BY <1>2, <2>1
    <3> QED
      BY <1>1, <2>1, <2>2, <3>1
  <2>4. more = Append(Front(list), joined)
    BY <1>7, <2>1 DEF JoinedLast
  <2>5. Front(list) \in Seq(Spaces) /\ Len(Front(list)) = n - 1 /\ \A j \in 1..n - 1 : Front(list)[j] = list[j]
    <3>1. Front(list) = SubSeq(list, 1, n - 1)
      BY DEF Front
    <3> QED
      BY <1>7, <3>1, PopProperties
  <2>6. more \in Seq(Spaces) /\ Len(more) = n /\ more[n] = joined /\ \A j \in 1..n - 1 : more[j] = list[j]
    <3> HIDE DEF more, joined
    <3> QED
      BY <1>1, <2>2, <2>4, <2>5, AppendProperties
  <2> HIDE DEF more, joined, n
  <2>7. Gapped(more)
    <3> SUFFICES ASSUME NEW i \in 1..n, NEW j \in 1..n, i < j
                 PROVE  more[i].x + more[i].width < more[j].x
      BY <2>6 DEF Gapped
    <3>1. i \in 1..n - 1 /\ more[i] = list[i] /\ list[i].x + list[i].width < list[j].x
      BY <1>1, <1>3, <2>6
    <3>2. more[j].x = list[j].x
      <4>1. CASE j = n
        BY <2>2, <2>6, <4>1
      <4>2. CASE j # n
        BY <1>1, <2>6, <4>2
      <4> QED
        BY <4>1, <4>2
    <3> QED
      BY <3>1, <3>2
  <2>8. ASSUME NEW i \in 1..n
        PROVE  more[i].x + more[i].width <= s.x + s.width
    <3>1. CASE i = n
      BY <1>1, <2>3, <2>6, <3>1
    <3>2. CASE i # n
      <4>1. more[i] = list[i] /\ list[i].x + list[i].width <= s.x
        BY <1>1, <1>4, <2>6, <3>2
      <4> QED
        BY <1>1, <1>2, <4>1
    <3> QED
      BY <3>1, <3>2
  <2>9. \A c : c \in Columns(ToSet(more)) <=>
               c \in Nat /\ \E j \in 1..n : more[j].x <= c /\ c < more[j].x + more[j].width
    BY <2>6, ColumnsOfSequence
  <2>10. ASSUME NEW c \in Nat
         PROVE  c \in Columns(ToSet(more)) <=> c \in Columns(ToSet(list)) \cup Cells(s)
    <3>1. (more[n].x <= c /\ c < more[n].x + more[n].width) <=>
            (list[n].x <= c /\ c < list[n].x + list[n].width) \/ (s.x <= c /\ c < s.x + s.width)
      <4>1. more[n].x = list[n].x /\ more[n].x + more[n].width = s.x + s.width
        BY <2>2, <2>3, <2>6
      <4>2. list[n].x \in Nat /\ list[n].width \in Nat
        BY <1>2, <2>1
      <4> QED
        BY <1>1, <2>1, <4>1, <4>2, SMTT(20)
    <3>2. \A j \in 1..n : j = n \/ (j \in 1..n - 1 /\ more[j] = list[j])
      BY <1>1, <2>6
    <3>3. n \in 1..n
      BY <2>1
    <3>4. (\E j \in 1..n : more[j].x <= c /\ c < more[j].x + more[j].width) <=>
            (\E j \in 1..n : list[j].x <= c /\ c < list[j].x + list[j].width) \/ (s.x <= c /\ c < s.x + s.width)
      BY <3>1, <3>2, <3>3, ZenonT(20)
    <3> QED
      BY <1>5, <1>6, <2>9, <3>4
  <2> QED
    BY <1>5, <1>6, <2>6, <2>7, <2>8, <2>9, <2>10 DEF more
<1>8. CASE ~(list # <<>> /\ Touch(Last(list), s))
  <2>1. more = Append(list, s)
    BY <1>8 DEF JoinedLast
  <2>2. more \in Seq(Spaces) /\ Len(more) = n + 1 /\ more[n + 1] = s /\ \A j \in 1..n : more[j] = list[j]
    BY <2>1, AppendProperties
  <2> HIDE DEF more
  <2>3. \A i \in 1..n : list[i].x + list[i].width < s.x
    <3> SUFFICES ASSUME NEW i \in 1..n
                 PROVE  list[i].x + list[i].width # s.x
      <4>1. \A x, y, z \in Nat : x + y <= z /\ x + y # z => x + y < z
        OBVIOUS
      <4> QED
        BY <1>1, <1>2, <1>4, <4>1, ZenonT(20)
    <3>1. CASE i = n
      <4>1. list # <<>> /\ Last(list) = list[n]
        BY <1>1 DEF Last
      <4> QED
        BY <1>8, <3>1, <4>1 DEF Touch
    <3>2. CASE i # n
      <4>1. list[i].x + list[i].width < list[n].x /\ list[n].x + list[n].width <= s.x /\ n \in 1..n
        BY <1>1, <1>3, <1>4, <3>2
      <4> QED
        BY <1>1, <1>2, <4>1
    <3> QED
      BY <3>1, <3>2
  <2> HIDE DEF n
  <2>4. Gapped(more)
    <3> SUFFICES ASSUME NEW i \in 1..n + 1, NEW j \in 1..n + 1, i < j
                 PROVE  more[i].x + more[i].width < more[j].x
      BY <2>2 DEF Gapped
    <3>1. i \in 1..n /\ more[i] = list[i]
      BY <1>1, <2>2
    <3>2. CASE j = n + 1
      BY <2>2, <2>3, <3>1, <3>2
    <3>3. CASE j # n + 1
      <4>1. j \in 1..n
        BY <1>1, <3>3
      <4> QED
        BY <1>3, <2>2, <3>1, <4>1
    <3> QED
      BY <3>2, <3>3
  <2>5. ASSUME NEW i \in 1..n + 1
        PROVE  more[i].x + more[i].width <= s.x + s.width
    <3>1. CASE i = n + 1
      BY <1>1, <2>2, <3>1
    <3>2. CASE i # n + 1
      <4>1. i \in 1..n
        BY <1>1, <3>2
      <4> QED
        BY <1>1, <1>2, <1>4, <2>2, <4>1, SMTT(20)
    <3> QED
      BY <3>1, <3>2
  <2>6. \A c : c \in Columns(ToSet(more)) <=>
               c \in Nat /\ \E j \in 1..n + 1 : more[j].x <= c /\ c < more[j].x + more[j].width
    BY <2>2, ColumnsOfSequence
  <2>7. ASSUME NEW c
        PROVE  (\E j \in 1..n + 1 : more[j].x <= c /\ c < more[j].x + more[j].width) <=>
                 (\E j \in 1..n : list[j].x <= c /\ c < list[j].x + list[j].width) \/ (s.x <= c /\ c < s.x + s.width)
    <3>1. \A j \in 1..n + 1 : j = n + 1 \/ (j \in 1..n /\ more[j] = list[j])
      BY <1>1, <2>2
    <3>2. \A j \in 1..n : j \in 1..n + 1 /\ more[j] = list[j]
      BY <1>1, <2>2
    <3>3. n + 1 \in 1..n + 1
      BY <1>1
    <3> QED
      BY <2>2, <3>1, <3>2, <3>3
  <2>8. Columns(ToSet(more)) = Columns(ToSet(list)) \cup Cells(s)
    BY <1>5, <1>6, <2>6, <2>7
  <2> QED
    BY <2>2, <2>4, <2>5, <2>8 DEF more
<1> QED
  BY <1>7, <1>8

-----------------------------------------------------------------------------
(* SpaceAllocator::FreeSpace *)

(* A space joined to the last one of a list, or appended *)
LEMMA JoinedLastType ==
  ASSUME NEW list \in Seq(Spaces), NEW s \in Spaces
  PROVE  JoinedLast(list, s) \in Seq(Spaces)
<1>1. CASE list # <<>> /\ Touch(Last(list), s)
  <2>1. Front(list) \in Seq(Spaces)
    BY <1>1, PopProperties DEF Front
  <2>2. Last(list) \in Spaces
    BY <1>1, PopProperties DEF Last
  <2>3. Joined(Last(list), s) \in Spaces
    <3>1. Last(list).x \in Nat /\ Last(list).width + s.width \in Nat \ {0}
      BY <2>2 DEF Spaces
    <3> QED
      BY <3>1 DEF Joined, Space, Spaces
  <2>4. Append(Front(list), Joined(Last(list), s)) \in Seq(Spaces)
    BY <2>1, <2>3, AppendProperties
  <2> QED
    BY <1>1, <2>4 DEF JoinedLast
<1>2. CASE ~(list # <<>> /\ Touch(Last(list), s))
  <2>1. Append(list, s) \in Seq(Spaces)
    BY AppendProperties
  <2> QED
    BY <1>2, <2>1 DEF JoinedLast
<1> QED
  BY <1>1, <1>2

(* The pass over the free spaces, up to each of them *)
Passed(w, free) ==
  w = [i \in 0..Len(free) |-> IF i = 0 THEN <<>> ELSE JoinedLast(w[i - 1], free[i])]

(* Merging passes over the list, and what it has passed is joined by then. *)
LEMMA MergedPassed ==
  ASSUME NEW free \in Seq(Spaces)
  PROVE  \E w : Passed(w, free) /\ Merged(free) = w[Len(free)]
<1> DEFINE n == Len(free)
           M == Seq(Spaces)
           step == [i \in 1..n |-> [list \in M |-> JoinedLast(list, free[i])]]
<1>1. n \in Nat /\ <<>> \in M
  OBVIOUS
<1>2. step \in [1..n -> [M -> M]]
  <2>1. ASSUME NEW i \in 1..n, NEW list \in M
        PROVE  JoinedLast(list, free[i]) \in M
    <3>1. free[i] \in Spaces
      OBVIOUS
    <3> QED
      BY <3>1, JoinedLastType
  <2> HIDE DEF M, n
  <2> QED
    BY <2>1
<1>3. PICK f \in [0..n -> M] : f[0] = <<>> /\ \A i \in 1..n : f[i] = step[i][f[i - 1]]
  <2> HIDE DEF step, M, n
  <2> QED
    BY <1>1, <1>2, Recursion, SMTT(30)
<1>4. \A i \in 1..n : f[i] = JoinedLast(f[i - 1], free[i])
  <2> TAKE i \in 1..n
  <2>1. i - 1 \in 0..n
    BY <1>1
  <2>2. f[i - 1] \in M
    BY <2>1
  <2> HIDE DEF M
  <2> QED
    BY <1>3, <2>2, ZenonT(20)
<1>5. Passed(f, free)
  <2>1. \A i \in 0..n : i # 0 => i \in 1..n
    BY <1>1
  <2>2. f = [i \in 0..n |-> f[i]]
    BY <1>3
  <2>3. \A i \in 0..n : f[i] = IF i = 0 THEN <<>> ELSE JoinedLast(f[i - 1], free[i])
    BY <1>3, <1>4, <2>1
  <2> HIDE DEF M
  <2> QED
    BY <2>2, <2>3 DEF Passed
<1>6. \E w : Passed(w, free)
  BY <1>5
<1> DEFINE W == CHOOSE w : Passed(w, free)
<1>7. Passed(W, free)
  BY <1>6
<1>8. Merged(free) = W[n]
  BY DEF Merged, Passed
<1> QED
  BY <1>7, <1>8, ZenonT(20)

(* Which makes an ordered list a gapped one of the same pixels *)
LEMMA MergedGapped ==
  ASSUME NEW free \in Seq(Spaces), Ordered(free)
  PROVE  /\ Merged(free) \in Seq(Spaces) /\ Gapped(Merged(free))
         /\ Columns(ToSet(Merged(free))) = Columns(ToSet(free))
<1>1. PICK w : Passed(w, free) /\ Merged(free) = w[Len(free)]
  BY MergedPassed
<1> DEFINE n == Len(free)
           First(k) == {free[i] : i \in 1..k}
           Good(k) == /\ w[k] \in Seq(Spaces) /\ Gapped(w[k])
                      /\ Columns(ToSet(w[k])) = Columns(First(k))
                      /\ \A i \in 1..Len(w[k]), j \in k + 1..n : LeftOf(w[k][i], free[j])
           S == {k \in Nat : k <= n => Good(k)}
<1>2. n \in Nat /\ \A i \in 1..n : free[i] \in Spaces
  OBVIOUS
<1>3. w[0] = <<>> /\ \A i \in 1..n : w[i] = JoinedLast(w[i - 1], free[i])
  <2>1. 0 \in 0..n /\ \A i \in 1..n : i \in 0..n /\ i # 0
    BY <1>2
  <2> QED
    BY <1>1, <2>1 DEF Passed
<1>4. 0 \in S
  <2>1. First(0) = {} /\ ToSet(<<>>) = {}
    BY DEF ToSet
  <2>2. Gapped(<<>>)
    BY DEF Gapped
  <2>3. Good(0)
    <3>1. w[0] \in Seq(Spaces) /\ 1..Len(w[0]) = {}
      BY <1>3
    <3>2. Gapped(w[0]) /\ Columns(ToSet(w[0])) = Columns(First(0))
      <4> HIDE DEF First
      <4> QED
        BY <1>3, <2>1, <2>2, ZenonT(20)
    <3> HIDE DEF First
    <3> QED
      BY <3>1, <3>2
  <2> QED
    BY <2>3
<1>5. ASSUME NEW k \in Nat, k \in S
      PROVE  k + 1 \in S
  <2> SUFFICES ASSUME k + 1 <= n
               PROVE  Good(k + 1)
    OBVIOUS
  <2> DEFINE s == free[k + 1]
  <2>1. Good(k)
    BY <1>2, <1>5
  <2>2. k + 1 \in 1..n /\ k + 1 \in k + 1..n /\ s \in Spaces
    BY <1>2
  <2>3. w[k + 1] = JoinedLast(w[k], s)
    <3>1. k + 1 - 1 = k
      OBVIOUS
    <3> QED
      BY <1>3, <2>2, <3>1
  <2>4. \A i \in 1..Len(w[k]) : LeftOf(w[k][i], s)
    BY <2>1, <2>2
  <2>5. /\ w[k + 1] \in Seq(Spaces) /\ Gapped(w[k + 1])
        /\ Columns(ToSet(w[k + 1])) = Columns(ToSet(w[k])) \cup Cells(s)
        /\ \A i \in 1..Len(w[k + 1]) : w[k + 1][i].x + w[k + 1][i].width <= s.x + s.width
    <3> HIDE DEF s, First
    <3> QED
      BY <2>1, <2>2, <2>3, <2>4, JoinedLastGapped, ZenonT(20)
  <2>6. Columns(First(k + 1)) = Columns(First(k)) \cup Cells(s)
    <3>1. 1..k + 1 = (1..k) \cup {k + 1}
      BY <1>5
    <3>2. First(k + 1) = First(k) \cup {s}
      BY <3>1
    <3>3. First(k) \in SUBSET Spaces
      <4>1. \A i \in 1..k : i \in 1..n
        BY <1>2
      <4> QED
        BY <1>2, <4>1
    <3> HIDE DEF First, s
    <3> QED
      BY <2>2, <3>2, <3>3, ColumnsWith DEF Cells
  <2>7. ASSUME NEW i \in 1..Len(w[k + 1]), NEW j \in (k + 1) + 1..n
        PROVE  LeftOf(w[k + 1][i], free[j])
    <3>1. j \in 1..n /\ k + 1 < j
      BY <1>2
    <3>2. s.x + s.width <= free[j].x
      BY <2>2, <3>1 DEF Ordered, LeftOf
    <3>3. w[k + 1][i] \in Spaces /\ free[j] \in Spaces
      BY <1>2, <2>5, <3>1
    <3>4. w[k + 1][i].x + w[k + 1][i].width <= s.x + s.width
      BY <2>5
    <3>5. \A x, y, z \in Nat : x <= y /\ y <= z => x <= z
      OBVIOUS
    <3>6. w[k + 1][i].x + w[k + 1][i].width \in Nat /\ s.x + s.width \in Nat /\ free[j].x \in Nat
      <4>1. \A t \in Spaces : t.x \in Nat /\ t.x + t.width \in Nat
        BY DEF Spaces
      <4> QED
        BY <2>2, <3>3, <4>1, ZenonT(20)
    <3> HIDE DEF s
    <3> QED
      BY <3>2, <3>4, <3>5, <3>6, ZenonT(20) DEF LeftOf
  <2> HIDE DEF s, First
  <2> QED
    BY <2>1, <2>5, <2>6, <2>7
<1>6. Good(n)
  <2> HIDE DEF S, Good
  <2>1. n \in S
    BY <1>2, <1>4, <1>5, Induction
  <2> USE DEF S
  <2> HIDE DEF n
  <2> QED
    BY <1>2, <2>1
<1>7. First(n) = ToSet(free)
  BY DEF ToSet
<1> QED
  BY <1>1, <1>6, <1>7, ZenonT(20)

(* A list one of whose spaces is widened by another that is apart from all *)
LEMMA OrderedWidened ==
  ASSUME NEW free \in Seq(Spaces), Ordered(free), NEW p \in 1..Len(free), NEW t \in Spaces, NEW s \in Spaces,
         Cells(t) = Cells(free[p]) \cup Cells(s),
         \A j \in 1..Len(free) : (j < p => LeftOf(free[j], t)) /\ (p < j => LeftOf(t, free[j]))
  PROVE  LET more == [free EXCEPT ![p] = t]
         IN  /\ more \in Seq(Spaces) /\ Ordered(more)
             /\ Columns(ToSet(more)) = Columns(ToSet(free)) \cup Cells(s)
<1> DEFINE more == [free EXCEPT ![p] = t]
<1>1. more \in Seq(Spaces) /\ Len(more) = Len(free) /\ \A j \in 1..Len(free) : more[j] = IF j = p THEN t ELSE free[j]
  OBVIOUS
<1> HIDE DEF more
<1>2. Ordered(more)
  <2> SUFFICES ASSUME NEW j \in 1..Len(free), NEW k \in 1..Len(free), j < k
               PROVE  LeftOf(more[j], more[k])
    BY <1>1 DEF Ordered
  <2>1. LeftOf(free[j], free[k]) /\ j # k
    BY DEF Ordered
  <2> QED
    BY <1>1, <2>1
<1>3. \A c : c \in Columns(ToSet(free)) <=> \E j \in 1..Len(free) : c \in Cells(free[j])
  BY DEF Columns, ToSet, Cells
<1>4. \A c : c \in Columns(ToSet(more)) <=> \E j \in 1..Len(free) : c \in Cells(more[j])
  BY <1>1 DEF Columns, ToSet, Cells
<1>5. \A c : c \in Columns(ToSet(more)) <=> c \in Columns(ToSet(free)) \cup Cells(s)
  BY <1>1, <1>3, <1>4
<1> QED
  BY <1>1, <1>2, <1>5, ZenonT(20) DEF more

(* Where Inserted puts a space: right of those before, left of those after *)
LEMMA SucceedingSplits ==
  ASSUME NEW free \in Seq(Spaces), Gapped(free), NEW s \in Spaces,
         \A j \in 1..Len(free) : LeftOf(free[j], s) \/ LeftOf(s, free[j])
  PROVE  LET i == Succeeding(free, s)
         IN  /\ i \in 1..Len(free) + 1
             /\ \A j \in 1..Len(free) : IF j < i THEN LeftOf(free[j], s) ELSE LeftOf(s, free[j])
<1> DEFINE n == Len(free)
           right == {j \in DOMAIN free : free[j].x > s.x}
           i == Succeeding(free, s)
<1>1. n \in Nat /\ DOMAIN free = 1..n
  OBVIOUS
<1>2. \A t \in Spaces : t.x \in Nat /\ t.width \in Nat \ {0}
  BY DEF Spaces
<1>3. \A j \in 1..n : free[j] \in Spaces
  OBVIOUS
<1>4. ASSUME NEW j \in 1..n
      PROVE  IF free[j].x > s.x THEN LeftOf(s, free[j]) ELSE LeftOf(free[j], s)
  <2>1. s.x \in Nat /\ s.width \in Nat \ {0} /\ free[j].x \in Nat /\ free[j].width \in Nat \ {0}
    BY <1>2, <1>3
  <2>2. \A x, w, y, v \in Nat : w # 0 /\ v # 0 => ~(x + w <= y /\ y <= x)
    OBVIOUS
  <2> QED
    BY <2>1 DEF LeftOf
<1>5. i = IF right = {} THEN n + 1 ELSE Min(right)
  BY DEF Succeeding
<1>6. CASE right = {}
  <2>1. i = n + 1 /\ \A j \in 1..n : j < i /\ ~(free[j].x > s.x)
    BY <1>1, <1>5, <1>6
  <2> HIDE DEF i
  <2> QED
    BY <1>1, <1>4, <2>1 DEF i
<1>7. CASE right # {}
  <2>1. right \in SUBSET Nat
    <3>1. \A j \in 1..n : j \in Nat
      OBVIOUS
    <3> QED
      BY <1>1, <3>1
  <2>2. i \in right /\ \A k \in right : i <= k
    <3> HIDE DEF right, i
    <3>1. Min(right) \in right /\ \A k \in right : Min(right) <= k
      BY <1>7, <2>1, MinIsLeast
    <3> QED
      BY <1>5, <1>7, <3>1
  <2>3. i \in 1..n /\ free[i].x > s.x
    BY <1>1, <2>2
  <2>4. ASSUME NEW j \in 1..n
        PROVE  j < i <=> ~(free[j].x > s.x)
    <3> HIDE DEF i
    <3>1. CASE j < i
      BY <1>1, <2>2, <2>3, <3>1
    <3>2. CASE j = i
      BY <2>3, <3>2
    <3>3. CASE i < j
      <4>1. free[i].x + free[i].width < free[j].x
        BY <2>3, <3>3 DEF Gapped
      <4>2. s.x \in Nat /\ free[i].x \in Nat /\ free[i].width \in Nat /\ free[j].x \in Nat
        BY <1>2, <1>3, <2>3
      <4> QED
        BY <2>3, <3>3, <4>1, <4>2
    <3> QED
      BY <2>3, <3>1, <3>2, <3>3
  <2> HIDE DEF i
  <2> QED
    BY <1>1, <1>4, <2>3, <2>4 DEF i
<1> QED
  BY <1>6, <1>7

(* The pixels of a space, and of two spaces joined *)
LEMMA CellsMembers ==
  ASSUME NEW s \in Spaces
  PROVE  \A c : c \in Cells(s) <=> c \in Nat /\ s.x <= c /\ c < s.x + s.width
<1>1. s.x \in Nat /\ s.width \in Nat
  BY DEF Spaces
<1> QED
  BY <1>1 DEF Cells

(* Two spaces side by side have the columns of the one they are joined to. *)
LEMMA CellsJoined ==
  ASSUME NEW l \in Spaces, NEW r \in Spaces, NEW s \in Spaces,
         l.x + l.width = r.x, s.x = l.x, s.width = l.width + r.width
  PROVE  Cells(s) = Cells(l) \cup Cells(r)
<1>1. l.x \in Nat /\ l.width \in Nat /\ r.x \in Nat /\ r.width \in Nat
  BY DEF Spaces
<1>2. s.x + s.width = r.x + r.width
  BY <1>1
<1>3. \A c \in Nat : s.x <= c /\ c < s.x + s.width <=>
                    (l.x <= c /\ c < l.x + l.width) \/ (r.x <= c /\ c < r.x + r.width)
  BY <1>1, <1>2
<1> QED
  BY <1>3, CellsMembers

(* FreeSpace, before the pass: the list stays in order. *)
LEMMA InsertedOrdered ==
  ASSUME NEW free \in Seq(Spaces), Gapped(free), NEW s \in Spaces,
         \A j \in 1..Len(free) : LeftOf(free[j], s) \/ LeftOf(s, free[j])
  PROVE  /\ Inserted(free, s) \in Seq(Spaces) /\ Ordered(Inserted(free, s))
         /\ Columns(ToSet(Inserted(free, s))) = Columns(ToSet(free)) \cup Cells(s)
<1> DEFINE n == Len(free)
           i == Succeeding(free, s)
           result == Inserted(free, s)
<1>1. n \in Nat /\ i \in 1..n + 1 /\ \A j \in 1..n : IF j < i THEN LeftOf(free[j], s) ELSE LeftOf(s, free[j])
  BY SucceedingSplits
<1>2. \A t \in Spaces : t.x \in Nat /\ t.width \in Nat \ {0}
  BY DEF Spaces
<1>3. \A j \in 1..n : free[j] \in Spaces
  OBVIOUS
<1>4. Ordered(free)
  <2> SUFFICES ASSUME NEW j \in 1..n, NEW k \in 1..n, j < k
               PROVE  LeftOf(free[j], free[k])
    BY DEF Ordered
  <2>1. free[j].x + free[j].width < free[k].x
    BY DEF Gapped
  <2> QED
    BY <1>2, <1>3, <2>1 DEF LeftOf
<1>5. ASSUME NEW l \in Spaces, NEW r \in Spaces, Touch(l, r)
      PROVE  /\ Joined(l, r) \in Spaces /\ Cells(Joined(l, r)) = Cells(l) \cup Cells(r)
             /\ \A t \in Spaces : (LeftOf(t, l) => LeftOf(t, Joined(l, r))) /\ (LeftOf(r, t) => LeftOf(Joined(l, r), t))
  <2>1. /\ l.x \in Nat /\ l.width \in Nat \ {0} /\ r.x \in Nat /\ r.width \in Nat \ {0}
        /\ l.x + l.width = r.x
    BY <1>2, <1>5 DEF Touch
  <2>2. Joined(l, r).x = l.x /\ Joined(l, r).width = l.width + r.width
    BY DEF Joined, Space
  <2>3. Joined(l, r) \in Spaces
    <3>1. l.width + r.width \in Nat \ {0}
      BY <2>1
    <3> QED
      BY <2>1, <3>1 DEF Joined, Space, Spaces
  <2>4. l.x + (l.width + r.width) = r.x + r.width
    BY <2>1
  <2>6. Cells(Joined(l, r)) = Cells(l) \cup Cells(r)
    BY <2>1, <2>2, <2>3, CellsJoined
  <2>7. \A t : (LeftOf(t, l) => LeftOf(t, Joined(l, r))) /\ (LeftOf(r, t) => LeftOf(Joined(l, r), t))
    BY <2>2, <2>4 DEF LeftOf
  <2> QED
    BY <2>3, <2>6, <2>7
<1> HIDE DEF i
<1>6. result = IF i > 1 /\ Touch(free[i - 1], s) THEN [free EXCEPT ![i - 1] = Joined(free[i - 1], s)]
               ELSE IF i <= n /\ Touch(s, free[i]) THEN [free EXCEPT ![i] = Joined(s, free[i])]
               ELSE InsertAt(free, i, s)
  BY DEF Inserted, i
<1> HIDE DEF result
<1>7. CASE i > 1 /\ Touch(free[i - 1], s)
  <2> DEFINE p == i - 1
             t == Joined(free[p], s)
  <2>1. p \in 1..n /\ p < i /\ free[p] \in Spaces
    BY <1>1, <1>3, <1>7
  <2>2. /\ t \in Spaces /\ Cells(t) = Cells(free[p]) \cup Cells(s)
        /\ \A u \in Spaces : (LeftOf(u, free[p]) => LeftOf(u, t)) /\ (LeftOf(s, u) => LeftOf(t, u))
    BY <1>5, <1>7, <2>1
  <2>3. ASSUME NEW j \in 1..n
        PROVE  (j < p => LeftOf(free[j], t)) /\ (p < j => LeftOf(t, free[j]))
    <3>1. p < j => ~(j < i)
      BY <1>1
    <3>2. j < p => LeftOf(free[j], free[p])
      BY <1>4, <2>1 DEF Ordered
    <3> HIDE DEF p, t
    <3> QED
      BY <1>1, <1>3, <2>2, <3>1, <3>2
  <2>4. result = [free EXCEPT ![p] = t]
    BY <1>6, <1>7
  <2> HIDE DEF p, t
  <2>5. /\ result \in Seq(Spaces) /\ Ordered(result)
        /\ Columns(ToSet(result)) = Columns(ToSet(free)) \cup Cells(s)
    BY <1>4, <2>1, <2>2, <2>3, <2>4, OrderedWidened, ZenonT(20)
  <2> QED
    BY <2>5 DEF result
<1>8. CASE ~(i > 1 /\ Touch(free[i - 1], s)) /\ i <= n /\ Touch(s, free[i])
  <2> DEFINE t == Joined(s, free[i])
  <2>1. i \in 1..n /\ free[i] \in Spaces
    BY <1>1, <1>3, <1>8
  <2>2. /\ t \in Spaces /\ Cells(t) = Cells(free[i]) \cup Cells(s)
        /\ \A u \in Spaces : (LeftOf(u, s) => LeftOf(u, t)) /\ (LeftOf(free[i], u) => LeftOf(t, u))
    BY <1>5, <1>8, <2>1
  <2>3. ASSUME NEW j \in 1..n
        PROVE  (j < i => LeftOf(free[j], t)) /\ (i < j => LeftOf(t, free[j]))
    <3>1. i < j => LeftOf(free[i], free[j])
      BY <1>4, <2>1 DEF Ordered
    <3> HIDE DEF t
    <3> QED
      BY <1>1, <1>3, <2>2, <3>1
  <2>4. result = [free EXCEPT ![i] = t]
    BY <1>6, <1>8
  <2> HIDE DEF t
  <2>5. /\ result \in Seq(Spaces) /\ Ordered(result)
        /\ Columns(ToSet(result)) = Columns(ToSet(free)) \cup Cells(s)
    BY <1>4, <2>1, <2>2, <2>3, <2>4, OrderedWidened, ZenonT(20)
  <2> QED
    BY <2>5 DEF result
<1>9. CASE ~(i > 1 /\ Touch(free[i - 1], s)) /\ ~(i <= n /\ Touch(s, free[i]))
  <2>1. result = InsertAt(free, i, s)
    BY <1>6, <1>9
  <2>2. result \in Seq(Spaces) /\ IsInserted(result, free, i, s)
    BY <1>1, <2>1, InsertedAt
  <2>3. ToSet(result) = ToSet(free) \cup {s}
    BY <1>1, <2>1, InsertedProperties
  <2>4. ToSet(free) \in SUBSET Spaces
    BY ColumnsOfSequence
  <2>5. Columns(ToSet(result)) = Columns(ToSet(free)) \cup Cells(s)
    BY <2>3, <2>4, ColumnsWith, ZenonT(20) DEF Cells
  <2>6. Len(result) = n + 1 /\ \A j \in 1..n + 1 : result[j] = IF j < i THEN free[j] ELSE IF j = i THEN s ELSE free[j - 1]
    BY <2>2 DEF IsInserted
  <2>7. Ordered(result)
    <3> HIDE DEF n
    <3> SUFFICES ASSUME NEW j \in 1..n + 1, NEW k \in 1..n + 1, j < k
                 PROVE  LeftOf(result[j], result[k])
      BY <2>6 DEF Ordered
    <3>1. \A l, m \in 1..n : l < m => LeftOf(free[l], free[m])
      BY <1>4 DEF Ordered, n
    <3>2. CASE k < i
      <4>1. j \in 1..n /\ k \in 1..n /\ j < i
        BY <1>1, <3>2
      <4> QED
        BY <2>6, <3>1, <3>2, <4>1
    <3>3. CASE k = i
      <4>1. j \in 1..n /\ j < i
        BY <1>1, <3>3
      <4> QED
        BY <1>1, <2>6, <3>3, <4>1
    <3>4. CASE i < k /\ j < i
      <4>1. j \in 1..n /\ k - 1 \in 1..n /\ j < k - 1 /\ ~(k < i) /\ k # i
        BY <1>1, <3>4
      <4> QED
        BY <2>6, <3>1, <3>4, <4>1
    <3>5. CASE i < k /\ j = i
      <4>1. k - 1 \in 1..n /\ ~(k - 1 < i) /\ ~(k < i) /\ k # i
        BY <1>1, <3>5
      <4> QED
        BY <1>1, <2>6, <3>5, <4>1
    <3>6. CASE i < k /\ i < j
      <4>1. j - 1 \in 1..n /\ k - 1 \in 1..n /\ j - 1 < k - 1 /\ ~(k < i) /\ k # i /\ ~(j < i) /\ j # i
        BY <1>1, <3>6
      <4> QED
        BY <2>6, <3>1, <4>1
    <3> QED
      BY <1>1, <3>2, <3>3, <3>4, <3>5, <3>6
  <2> QED
    BY <2>2, <2>5, <2>7 DEF result
<1> QED
  BY <1>7, <1>8, <1>9

(* What FreeSpace does: the allocator stays as it should be, and what was freed
   is inside one free space. *)
LEMMA FreeSpaceOK ==
  ASSUME NEW width \in Nat \ {0}, NEW a, AllocatorOK(a, width), NEW s \in a.used
  PROVE  LET b == FreeSpace(a, s)
         IN  /\ AllocatorOK(b, width) /\ b.used = a.used \ {s}
             /\ s.width <= b.available
             /\ \E i \in DOMAIN b.free : s.width <= b.free[i].width
<1> DEFINE b == FreeSpace(a, s)
           used == a.used \ {s}
           free == Merged(Inserted(a.free, s))
<1>1. /\ a.used \in SUBSET Spaces /\ s \in Spaces /\ a.free \in Seq(Spaces) /\ Gapped(a.free)
      /\ a.available \in Nat /\ a.available = Cardinality(Open(a.used, width))
      /\ Columns(ToSet(a.free)) = Open(a.used, width)
  BY DEF AllocatorOK, Allocators
<1>2. s.x \in Nat /\ s.width \in Nat \ {0} /\ s.x + s.width <= width
  BY <1>1 DEF AllocatorOK, Spaces
<1>3. \A c : c \in Cells(s) <=> c \in Nat /\ s.x <= c /\ c < s.x + s.width
  BY <1>2 DEF Cells
<1>4. Cells(s) \subseteq Columns(a.used)
  <2> SUFFICES ASSUME NEW c \in Cells(s) PROVE c \in Columns(a.used)
    OBVIOUS
  <2> QED
    BY <1>1, <1>3, ColumnsMembers
<1>5. ASSUME NEW j \in 1..Len(a.free)
      PROVE  LeftOf(a.free[j], s) \/ LeftOf(s, a.free[j])
  <2> DEFINE t == a.free[j]
  <2>1. t \in Spaces
    BY <1>1
  <2>2. t.x \in Nat /\ t.width \in Nat \ {0}
    BY <2>1 DEF Spaces
  <2>3. \A c \in Nat : t.x <= c /\ c < t.x + t.width => c \in Open(a.used, width)
    BY <1>1, ColumnsOfSequence, ZenonT(20)
  <2>4. \A c \in Nat : t.x <= c /\ c < t.x + t.width => c \notin Cells(s)
    BY <1>4, <2>3 DEF Open
  <2> HIDE DEF t
  <2>5. ~(t.x <= s.x /\ s.x < t.x + t.width)
    BY <1>2, <1>3, <2>4
  <2>6. ~(s.x <= t.x /\ t.x < s.x + s.width)
    BY <1>2, <1>3, <2>2, <2>4
  <2> QED
    BY <1>2, <2>2, <2>5, <2>6 DEF LeftOf, t
<1>6. /\ free \in Seq(Spaces) /\ Gapped(free)
      /\ Columns(ToSet(free)) = Columns(ToSet(a.free)) \cup Cells(s)
  <2>1. /\ Inserted(a.free, s) \in Seq(Spaces) /\ Ordered(Inserted(a.free, s))
        /\ Columns(ToSet(Inserted(a.free, s))) = Columns(ToSet(a.free)) \cup Cells(s)
    BY <1>1, <1>5, InsertedOrdered, ZenonT(20)
  <2> QED
    BY <2>1, MergedGapped
<1>7. Columns(used) = Columns(a.used) \ Cells(s)
  <2>1. \A t \in a.used : s = t \/ LeftOf(s, t) \/ LeftOf(t, s)
    BY DEF AllocatorOK
  <2> QED
    BY <1>1, <2>1, ColumnsWithout, ZenonT(20) DEF Cells
<1>8. Cells(s) \subseteq 0..width - 1
  <2> SUFFICES ASSUME NEW c \in Cells(s) PROVE c \in 0..width - 1
    OBVIOUS
  <2> QED
    BY <1>2, <1>3
<1>9. Open(used, width) = Open(a.used, width) \cup Cells(s)
  BY <1>7, <1>8 DEF Open
<1>10. /\ Cardinality(Open(used, width)) \in Nat
       /\ Cardinality(Open(used, width)) = a.available + s.width
  <2>1. used \in SUBSET Spaces /\ width \in Nat
    BY <1>1
  <2>2. Cells(s) \subseteq Open(used, width)
    BY <1>9
  <2>3. used \cup {s} = a.used
    OBVIOUS
  <2> HIDE DEF used
  <2>4. /\ Cardinality(Open(used, width)) \in Nat
        /\ Cardinality(Open(used \cup {s}, width)) = Cardinality(Open(used, width)) - s.width
    BY <1>1, <2>1, <2>2, LessAvailable, ZenonT(20)
  <2> QED
    <3>1. Cardinality(Open(used \cup {s}, width)) = a.available
      BY <1>1, <2>3, ZenonT(20)
    <3>2. \A x, y \in Nat : a.available = x - y => x = a.available + y
      BY <1>1
    <3> QED
      BY <1>2, <2>4, <3>1, <3>2
<1>11. b = [available |-> a.available + s.width, free |-> free, used |-> used]
  BY DEF FreeSpace
<1> HIDE DEF free, b
<1>12. b.available = a.available + s.width /\ b.free = free /\ b.used = used
  BY <1>11
<1>13. b \in Allocators
  BY <1>1, <1>2, <1>6, <1>11 DEF Allocators
<1>14. AllocatorOK(b, width)
  <2>1. \A t, u \in used : t = u \/ LeftOf(t, u) \/ LeftOf(u, t)
    BY DEF AllocatorOK
  <2>2. \A t \in used : t.x + t.width <= width
    BY DEF AllocatorOK
  <2>3. b.available = Cardinality(Open(used, width))
    BY <1>10, <1>12
  <2>4. Columns(ToSet(b.free)) = Open(used, width)
    BY <1>1, <1>6, <1>9, <1>12, ZenonT(20)
  <2> HIDE DEF used
  <2> QED
    BY <1>6, <1>12, <1>13, <2>1, <2>2, <2>3, <2>4 DEF AllocatorOK
<1>15. \E i \in DOMAIN b.free : s.width <= b.free[i].width
  <2>1. s.x .. s.x + s.width - 1 \subseteq Columns(ToSet(free))
    BY <1>6 DEF Cells
  <2>2. PICK i \in 1..Len(free) : free[i].x <= s.x /\ s.x + s.width <= free[i].x + free[i].width
    BY <1>1, <1>6, <2>1, InsideOne
  <2>3. free[i] \in Spaces /\ DOMAIN free = 1..Len(free)
    BY <1>6
  <2>4. free[i].x \in Nat /\ free[i].width \in Nat
    BY <2>3 DEF Spaces
  <2>5. s.width <= free[i].width
    BY <1>2, <2>2, <2>4
  <2> QED
    BY <1>12, <2>3, <2>5
<1>16. s.width <= b.available
  BY <1>1, <1>2, <1>12
<1> QED
  BY <1>12, <1>14, <1>15, <1>16 DEF b

-----------------------------------------------------------------------------
(* Rows of a map *)

Rows(width) == {r \in [y : Nat, height : Nat \ {0}, spaces : Allocators] : AllocatorOK(r.spaces, width)}

Unused(r) == r.spaces.used = {}

(* The rows lie one below the other, from the top to end. *)
Stacked(rows, end) ==
  IF rows = <<>> THEN end = 0
  ELSE /\ rows[1].y = 0 /\ rows[Len(rows)].y + rows[Len(rows)].height = end
       /\ \A i \in 1..Len(rows) - 1 : rows[i + 1].y = rows[i].y + rows[i].height

NoPairs(rows) == \A i \in 1..Len(rows) - 1 : ~(Unused(rows[i]) /\ Unused(rows[i + 1]))

(* What is taken of a row, and of all *)
TakenOf(r) == {[y |-> r.y, height |-> r.height, space |-> s] : s \in r.spaces.used}
Taken(rows) == UNION {TakenOf(rows[i]) : i \in 1..Len(rows)}

(* Rows in a sequence, one by one *)
LEMMA RowsMembers ==
  ASSUME NEW width, NEW rows \in Seq(Rows(width))
  PROVE  /\ Len(rows) \in Nat /\ DOMAIN rows = 1..Len(rows)
         /\ \A i \in 1..Len(rows) : /\ rows[i] \in Rows(width)
                                    /\ rows[i].y \in Nat /\ rows[i].height \in Nat \ {0}
                                    /\ rows[i].spaces \in Allocators /\ AllocatorOK(rows[i].spaces, width)
<1>1. \A r \in Rows(width) : /\ r.y \in Nat /\ r.height \in Nat \ {0}
                             /\ r.spaces \in Allocators /\ AllocatorOK(r.spaces, width)
  BY DEF Rows
<1>2. \A i \in 1..Len(rows) : rows[i] \in Rows(width)
  OBVIOUS
<1> QED
  BY <1>1, <1>2

(* No row reaches into one below it. *)
LEMMA StackedApart ==
  ASSUME NEW width, NEW end, NEW rows \in Seq(Rows(width)), Stacked(rows, end)
  PROVE  /\ \A i, j \in 1..Len(rows) : i < j => rows[i].y + rows[i].height <= rows[j].y
         /\ \A i \in 1..Len(rows) : rows[i].y + rows[i].height <= end
<1> DEFINE n == Len(rows)
           S == {k \in Nat : \A i \in 1..n : i + k + 1 <= n => rows[i].y + rows[i].height <= rows[i + k + 1].y}
<1>1. /\ n \in Nat /\ \A i \in 1..n : rows[i].y \in Nat /\ rows[i].height \in Nat
  BY RowsMembers
<1>2. \A i \in 1..n - 1 : rows[i + 1].y = rows[i].y + rows[i].height
  <2>1. CASE rows = <<>>
    BY <2>1
  <2>2. CASE rows # <<>>
    BY <2>2 DEF Stacked
  <2> QED
    BY <2>1, <2>2
<1>3. 0 \in S
  <2> SUFFICES ASSUME NEW i \in 1..n, i + 0 + 1 <= n
               PROVE  rows[i].y + rows[i].height <= rows[i + 0 + 1].y
    OBVIOUS
  <2>1. i \in 1..n - 1 /\ i + 0 + 1 = i + 1
    BY <1>1
  <2> QED
    BY <1>1, <1>2, <2>1
<1>4. ASSUME NEW k \in Nat, k \in S
      PROVE  k + 1 \in S
  <2> SUFFICES ASSUME NEW i \in 1..n, i + (k + 1) + 1 <= n
               PROVE  rows[i].y + rows[i].height <= rows[i + (k + 1) + 1].y
    OBVIOUS
  <2> DEFINE j == i + k + 1
  <2>1. j \in 1..n - 1 /\ j \in 1..n /\ j + 1 \in 1..n /\ i + (k + 1) + 1 = j + 1 /\ i + k + 1 <= n
    BY <1>1
  <2>2. rows[i].y + rows[i].height <= rows[j].y
    BY <1>4, <2>1
  <2> HIDE DEF j
  <2>3. rows[j + 1].y = rows[j].y + rows[j].height
    BY <1>2, <2>1, ZenonT(20)
  <2> DEFINE top == rows[i].y
             height == rows[i].height
             above == rows[j].y
             step == rows[j].height
             below == rows[j + 1].y
  <2>4. top \in Nat /\ height \in Nat /\ above \in Nat /\ step \in Nat
    BY <1>1, <2>1
  <2>5. top + height <= above /\ below = above + step
    BY <2>2, <2>3
  <2>6. top + height <= below
    <3> HIDE DEF top, height, above, step, below
    <3> QED
      BY <2>4, <2>5
  <2> QED
    BY <2>1, <2>6
<1>5. Nat \subseteq S
  <2> HIDE DEF S
  <2> QED
    BY <1>3, <1>4, Induction
<1>6. ASSUME NEW i \in 1..n, NEW j \in 1..n, i < j
      PROVE  rows[i].y + rows[i].height <= rows[j].y
  <2>1. j - i - 1 \in Nat /\ i + (j - i - 1) + 1 = j /\ j <= n
    BY <1>1, <1>6
  <2>2. j - i - 1 \in S
    BY <1>5, <2>1, ZenonT(20)
  <2> QED
    BY <2>1, <2>2
<1>7. ASSUME NEW i \in 1..n
      PROVE  rows[i].y + rows[i].height <= end
  <2>1. rows # <<>> /\ n \in 1..n
    BY <1>1
  <2>2. rows[n].y + rows[n].height = end
    BY <2>1 DEF Stacked
  <2>3. rows[n].y \in Nat /\ rows[n].height \in Nat /\ rows[i].y \in Nat /\ rows[i].height \in Nat
    BY <1>1, <2>1
  <2>4. CASE i = n
    BY <2>2, <2>3, <2>4
  <2>5. CASE i # n
    <3>1. rows[i].y + rows[i].height <= rows[n].y
      BY <1>1, <1>6, <2>1, <2>5
    <3> HIDE DEF n
    <3> QED
      BY <2>2, <2>3, <3>1, SMTT(20)
  <2> QED
    BY <2>4, <2>5
<1> QED
  BY <1>6, <1>7

(* One step of the pass that joins unused rows *)
LEMMA JoinedRowOK ==
  ASSUME NEW width, NEW list \in Seq(Rows(width)), NEW r \in Rows(width), Stacked(list, r.y), NoPairs(list)
  PROVE  LET more == JoinedRow(list, r)
         IN  /\ more \in Seq(Rows(width)) /\ Stacked(more, r.y + r.height) /\ NoPairs(more)
             /\ Taken(more) = Taken(list) \cup TakenOf(r)
             /\ \A i \in 1..Len(list) : Unused(list[i]) =>
                  \E j \in 1..Len(more) : Unused(more[j]) /\ list[i].height <= more[j].height
             /\ Unused(r) => \E j \in 1..Len(more) : Unused(more[j]) /\ r.height <= more[j].height
<1> DEFINE n == Len(list)
           more == JoinedRow(list, r)
           last == list[n]
           joined == [last EXCEPT !.height = last.height + r.height]
<1>1. /\ n \in Nat
      /\ \A i \in 1..n : list[i] \in Rows(width) /\ list[i].y \in Nat /\ list[i].height \in Nat \ {0}
  BY RowsMembers
<1>2. r.y \in Nat /\ r.height \in Nat \ {0}
  BY DEF Rows
<1>3. \A u : Unused(u) => TakenOf(u) = {}
  BY DEF Unused, TakenOf
<1>4. CASE list # <<>> /\ empty(Last(list).spaces) /\ empty(r.spaces)
  <2>1. n \in 1..n /\ Last(list) = last /\ Unused(last) /\ Unused(r)
    BY <1>1, <1>4 DEF Last, empty, Unused
  <2>2. last \in Rows(width) /\ last.y \in Nat /\ last.height \in Nat \ {0} /\ last.y + last.height = r.y
    BY <1>1, <1>4, <2>1 DEF Stacked
  <2>3. /\ joined \in Rows(width) /\ joined.y = last.y /\ joined.height = last.height + r.height
        /\ joined.spaces = last.spaces
    <3> HIDE DEF last
    <3>1. last.height + r.height \in Nat \ {0}
      BY <1>2, <2>2
    <3> QED
      BY <2>2, <3>1, ZenonT(20) DEF Rows
  <2>4. more = Append(Front(list), joined)
    BY <1>4, <2>1 DEF JoinedRow
  <2>5. Front(list) \in Seq(Rows(width)) /\ Len(Front(list)) = n - 1 /\ \A j \in 1..n - 1 : Front(list)[j] = list[j]
    <3>1. Front(list) = SubSeq(list, 1, n - 1)
      BY DEF Front
    <3> QED
      BY <1>4, <3>1, PopProperties
  <2>6. more \in Seq(Rows(width)) /\ Len(more) = n /\ more[n] = joined /\ \A j \in 1..n - 1 : more[j] = list[j]
    <3> HIDE DEF more, joined
    <3> QED
      BY <1>1, <2>3, <2>4, <2>5, AppendProperties
  <2>7. Unused(joined) /\ joined.y + joined.height = r.y + r.height
    <3>1. Unused(joined)
      BY <2>1, <2>3 DEF Unused
    <3> HIDE DEF joined, last
    <3>2. last.y + (last.height + r.height) = r.y + r.height
      BY <1>2, <2>2
    <3> QED
      BY <2>3, <3>1, <3>2
  <2> HIDE DEF more, joined
  <2>8. \A i \in 1..n : more[i].y = list[i].y /\ (Unused(more[i]) <=> Unused(list[i]))
    <3> TAKE i \in 1..n
    <3>1. CASE i = n
      BY <2>1, <2>3, <2>6, <2>7, <3>1
    <3>2. CASE i # n
      BY <1>1, <2>6, <3>2
    <3> QED
      BY <3>1, <3>2
  <2>9. \A i \in 1..n - 1 : i \in 1..n /\ i + 1 \in 1..n /\ more[i] = list[i]
    BY <1>1, <2>6
  <2>10. Stacked(more, r.y + r.height)
    <3>1. more # <<>> /\ list # <<>> /\ 1 \in 1..n
      BY <1>1, <2>1, <2>6
    <3>2. more[1].y = 0
      BY <2>8, <3>1 DEF Stacked
    <3>3. more[Len(more)].y + more[Len(more)].height = r.y + r.height
      BY <2>6, <2>7
    <3>4. \A i \in 1..n - 1 : more[i + 1].y = more[i].y + more[i].height
      BY <2>8, <2>9, <3>1 DEF Stacked
    <3> QED
      BY <2>6, <3>1, <3>2, <3>3, <3>4 DEF Stacked
  <2>11. NoPairs(more)
    BY <2>6, <2>8, <2>9 DEF NoPairs
  <2>12. Taken(more) = Taken(list) \cup TakenOf(r)
    <3>1. TakenOf(r) = {} /\ TakenOf(joined) = {} /\ TakenOf(last) = {}
      BY <1>3, <2>1, <2>7
    <3>2. \A i \in 1..n : TakenOf(more[i]) = TakenOf(list[i])
      <4> TAKE i \in 1..n
      <4>1. CASE i = n
        BY <2>6, <3>1, <4>1, ZenonT(20)
      <4>2. CASE i # n
        BY <1>1, <2>6, <4>2
      <4> QED
        BY <4>1, <4>2
    <3> QED
      BY <2>6, <3>1, <3>2 DEF Taken
  <2>13. ASSUME NEW i \in 1..n, Unused(list[i])
         PROVE  \E j \in 1..n : Unused(more[j]) /\ list[i].height <= more[j].height
    <3>1. CASE i = n
      <4>1. last.height <= last.height + r.height
        <5> HIDE DEF last
        <5> QED
          BY <1>2, <2>2
      <4> QED
        BY <2>1, <2>3, <2>6, <2>7, <3>1, <4>1
    <3>2. CASE i # n
      <4>1. more[i] = list[i] /\ list[i].height <= list[i].height
        BY <1>1, <2>6, <3>2
      <4> QED
        BY <2>13, <4>1
    <3> QED
      BY <3>1, <3>2
  <2>14. \E j \in 1..n : Unused(more[j]) /\ r.height <= more[j].height
    <3>1. r.height <= last.height + r.height
      <4> HIDE DEF last
      <4> QED
        BY <1>2, <2>2
    <3> QED
      BY <2>1, <2>3, <2>6, <2>7, <3>1
  <2> QED
    BY <2>6, <2>10, <2>11, <2>12, <2>13, <2>14 DEF more
<1>5. CASE ~(list # <<>> /\ empty(Last(list).spaces) /\ empty(r.spaces))
  <2>1. more = Append(list, r)
    BY <1>5 DEF JoinedRow
  <2>2. more \in Seq(Rows(width)) /\ Len(more) = n + 1 /\ more[n + 1] = r /\ \A j \in 1..n : more[j] = list[j]
    BY <2>1, AppendProperties
  <2>3. list # <<>> => n \in 1..n /\ last.y + last.height = r.y /\ ~(Unused(last) /\ Unused(r))
    <3> SUFFICES ASSUME list # <<>>
                 PROVE  n \in 1..n /\ last.y + last.height = r.y /\ ~(Unused(last) /\ Unused(r))
      OBVIOUS
    <3>1. Last(list) = last
      BY DEF Last
    <3> QED
      BY <1>1, <1>5, <3>1 DEF Stacked, Unused, empty
  <2> HIDE DEF more
  <2>4. \A i \in 1..n : (i \in 1..n - 1 /\ i + 1 \in 1..n) \/ (i = n /\ list # <<>>)
    BY <1>1
  <2> HIDE DEF n
  <2>5. Stacked(more, r.y + r.height)
    <3>1. \A i \in 1..n : more[i + 1].y = more[i].y + more[i].height
      <4> TAKE i \in 1..n
      <4>1. CASE i \in 1..n - 1 /\ i + 1 \in 1..n
        <5>1. list # <<>>
          BY <4>1 DEF n
        <5>2. list[i + 1].y = list[i].y + list[i].height
          BY <4>1, <5>1 DEF Stacked, n
        <5> QED
          BY <2>2, <4>1, <5>2
      <4>2. CASE i = n /\ list # <<>>
        BY <2>2, <2>3, <4>2
      <4> QED
        BY <2>4, <4>1, <4>2
    <3>2. more[1].y = 0
      <4>1. CASE list = <<>>
        <5>1. n = 0 /\ r.y = 0
          BY <4>1 DEF Stacked, n
        <5> QED
          BY <2>2, <5>1
      <4>2. CASE list # <<>>
        <5>1. 1 \in 1..n
          BY <1>1, <2>3, <4>2
        <5> QED
          BY <2>2, <4>2, <5>1 DEF Stacked
      <4> QED
        BY <4>1, <4>2
    <3>3. more # <<>> /\ Len(more) - 1 = n
      BY <1>1, <2>2
    <3> QED
      BY <2>2, <3>1, <3>2, <3>3 DEF Stacked
  <2>6. NoPairs(more)
    <3> SUFFICES ASSUME NEW i \in 1..n
                 PROVE  ~(Unused(more[i]) /\ Unused(more[i + 1]))
      BY <1>1, <2>2 DEF NoPairs
    <3>1. CASE i \in 1..n - 1 /\ i + 1 \in 1..n
      BY <2>2, <3>1 DEF NoPairs, n
    <3>2. CASE i = n /\ list # <<>>
      BY <2>2, <2>3, <3>2
    <3> QED
      BY <2>4, <3>1, <3>2
  <2>7. Taken(more) = Taken(list) \cup TakenOf(r)
    <3>1. \A i \in 1..n + 1 : i = n + 1 \/ i \in 1..n
      BY <1>1
    <3>2. \A i \in 1..n : i \in 1..n + 1
      BY <1>1
    <3>3. n + 1 \in 1..n + 1
      BY <1>1
    <3>4. \A t : t \in Taken(more) <=> \E i \in 1..n + 1 : t \in TakenOf(more[i])
      BY <2>2 DEF Taken
    <3>5. \A t : t \in Taken(list) <=> \E i \in 1..n : t \in TakenOf(list[i])
      BY DEF Taken, n
    <3>6. \A t : t \in Taken(more) <=> t \in Taken(list) \/ t \in TakenOf(r)
      BY <2>2, <3>1, <3>2, <3>3, <3>4, <3>5
    <3> QED
      BY <3>6
  <2>8. /\ \A i \in 1..n : i \in 1..Len(more) /\ more[i] = list[i] /\ list[i].height <= list[i].height
        /\ n + 1 \in 1..Len(more) /\ r.height <= r.height
    BY <1>1, <1>2, <2>2
  <2> QED
    BY <2>2, <2>5, <2>6, <2>7, <2>8 DEF more, n
<1> QED
  BY <1>4, <1>5

(* A row joined to the last one of a list, or appended *)
LEMMA JoinedRowType ==
  ASSUME NEW width, NEW list \in Seq(Rows(width)), NEW r \in Rows(width)
  PROVE  JoinedRow(list, r) \in Seq(Rows(width))
<1>1. CASE list # <<>> /\ empty(Last(list).spaces) /\ empty(r.spaces)
  <2> DEFINE last == Last(list)
  <2>1. Front(list) \in Seq(Rows(width))
    BY <1>1, PopProperties DEF Front
  <2>2. last \in Rows(width)
    BY <1>1, PopProperties DEF Last
  <2> HIDE DEF last
  <2>3. last.height + r.height \in Nat \ {0}
    <3>1. \A u \in Rows(width) : u.height \in Nat \ {0}
      BY DEF Rows
    <3> QED
      BY <2>2, <3>1
  <2>4. [last EXCEPT !.height = last.height + r.height] \in Rows(width)
    BY <2>2, <2>3 DEF Rows
  <2>5. Append(Front(list), [last EXCEPT !.height = last.height + r.height]) \in Seq(Rows(width))
    BY <2>1, <2>4, AppendProperties
  <2> QED
    BY <1>1, <2>5 DEF JoinedRow, last
<1>2. CASE ~(list # <<>> /\ empty(Last(list).spaces) /\ empty(r.spaces))
  <2>1. Append(list, r) \in Seq(Rows(width))
    BY AppendProperties
  <2> QED
    BY <1>2, <2>1 DEF JoinedRow
<1> QED
  BY <1>1, <1>2

(* The pass over the rows, up to each of them *)
PassedRows(w, rows) ==
  w = [i \in 0..Len(rows) |-> IF i = 0 THEN <<>> ELSE JoinedRow(w[i - 1], rows[i])]

(* MergeRows passes over the rows the same way. *)
LEMMA MergedRowsPassed ==
  ASSUME NEW width, NEW rows \in Seq(Rows(width))
  PROVE  \E w : PassedRows(w, rows) /\ MergedRows(rows) = w[Len(rows)]
<1> DEFINE n == Len(rows)
           M == Seq(Rows(width))
           step == [i \in 1..n |-> [list \in M |-> JoinedRow(list, rows[i])]]
<1>1. n \in Nat /\ <<>> \in M
  OBVIOUS
<1>2. step \in [1..n -> [M -> M]]
  <2>1. ASSUME NEW i \in 1..n, NEW list \in M
        PROVE  JoinedRow(list, rows[i]) \in M
    <3>1. rows[i] \in Rows(width)
      OBVIOUS
    <3> QED
      BY <3>1, JoinedRowType
  <2> HIDE DEF M, n
  <2> QED
    BY <2>1
<1>3. PICK f \in [0..n -> M] : f[0] = <<>> /\ \A i \in 1..n : f[i] = step[i][f[i - 1]]
  <2> HIDE DEF step, M, n
  <2> QED
    BY <1>1, <1>2, Recursion, SMTT(30)
<1>4. \A i \in 1..n : f[i] = JoinedRow(f[i - 1], rows[i])
  <2> TAKE i \in 1..n
  <2>1. i - 1 \in 0..n
    BY <1>1
  <2>2. f[i - 1] \in M
    BY <2>1
  <2> HIDE DEF M
  <2> QED
    BY <1>3, <2>2, ZenonT(20)
<1>5. PassedRows(f, rows)
  <2>1. \A i \in 0..n : i # 0 => i \in 1..n
    BY <1>1
  <2>2. f = [i \in 0..n |-> f[i]]
    BY <1>3
  <2>3. \A i \in 0..n : f[i] = IF i = 0 THEN <<>> ELSE JoinedRow(f[i - 1], rows[i])
    BY <1>3, <1>4, <2>1
  <2> HIDE DEF M
  <2> QED
    BY <2>2, <2>3 DEF PassedRows
<1>6. \E w : PassedRows(w, rows)
  BY <1>5
<1> DEFINE W == CHOOSE w : PassedRows(w, rows)
<1>7. PassedRows(W, rows)
  BY <1>6
<1>8. MergedRows(rows) = W[n]
  BY DEF MergedRows, PassedRows
<1> QED
  BY <1>7, <1>8, ZenonT(20)

(* Which leaves no two unused rows together, takes nothing away and loses no
   unused space *)
LEMMA MergedRowsOK ==
  ASSUME NEW width, NEW end, NEW rows \in Seq(Rows(width)), Stacked(rows, end)
  PROVE  /\ MergedRows(rows) \in Seq(Rows(width)) /\ Stacked(MergedRows(rows), end) /\ NoPairs(MergedRows(rows))
         /\ Taken(MergedRows(rows)) = Taken(rows)
         /\ \A i \in 1..Len(rows) : Unused(rows[i]) =>
              \E j \in 1..Len(MergedRows(rows)) :
                Unused(MergedRows(rows)[j]) /\ rows[i].height <= MergedRows(rows)[j].height
<1>1. PICK w : PassedRows(w, rows) /\ MergedRows(rows) = w[Len(rows)]
  BY MergedRowsPassed
<1> DEFINE n == Len(rows)
           End(k) == IF k = 0 THEN 0 ELSE rows[k].y + rows[k].height
           First(k) == UNION {TakenOf(rows[i]) : i \in 1..k}
           Stays(k) == \A i \in 1..k : Unused(rows[i]) =>
                        \E j \in 1..Len(w[k]) : Unused(w[k][j]) /\ rows[i].height <= w[k][j].height
           Good(k) == /\ w[k] \in Seq(Rows(width)) /\ Stacked(w[k], End(k)) /\ NoPairs(w[k])
                      /\ Taken(w[k]) = First(k) /\ Stays(k)
           S == {k \in Nat : k <= n => Good(k)}
<1>2. /\ n \in Nat
      /\ \A i \in 1..n : rows[i] \in Rows(width) /\ rows[i].y \in Nat /\ rows[i].height \in Nat \ {0}
  BY RowsMembers
<1>3. w[0] = <<>> /\ \A i \in 1..n : w[i] = JoinedRow(w[i - 1], rows[i])
  <2>1. 0 \in 0..n /\ \A i \in 1..n : i \in 0..n /\ i # 0
    BY <1>2
  <2> QED
    BY <1>1, <2>1, ZenonT(20) DEF PassedRows
<1>4. 0 \in S
  <2>1. First(0) = {}
    OBVIOUS
  <2>2. Stacked(w[0], 0) /\ NoPairs(w[0]) /\ Taken(w[0]) = {}
    BY <1>3 DEF Stacked, NoPairs, Taken
  <2>3. w[0] \in Seq(Rows(width))
    BY <1>3
  <2>4. Stays(0) /\ End(0) = 0
    OBVIOUS
  <2>5. Good(0)
    <3> HIDE DEF First, Stays, End
    <3> QED
      BY <2>1, <2>2, <2>3, <2>4
  <2> HIDE DEF Good
  <2> QED
    BY <2>5
<1>5. ASSUME NEW k \in Nat, k \in S
      PROVE  k + 1 \in S
  <2> HIDE DEF Good
  <2> SUFFICES ASSUME k + 1 <= n
               PROVE  Good(k + 1)
    BY <1>5
  <2> USE DEF Good
  <2> DEFINE r == rows[k + 1]
  <2>1. Good(k)
    BY <1>2, <1>5
  <2>2. k + 1 \in 1..n /\ r \in Rows(width)
    BY <1>2
  <2>3. w[k + 1] = JoinedRow(w[k], r)
    <3>1. k + 1 - 1 = k
      OBVIOUS
    <3> QED
      BY <1>3, <2>2, <3>1
  <2>4. End(k) = r.y
    <3>1. rows # <<>>
      BY <1>2, <2>2
    <3>2. CASE k = 0
      BY <3>1, <3>2 DEF Stacked
    <3>3. CASE k # 0
      <4>1. k \in 1..n - 1
        BY <1>2, <3>3
      <4> QED
        BY <3>1, <3>3, <4>1 DEF Stacked
    <3> QED
      BY <3>2, <3>3
  <2>5. /\ w[k + 1] \in Seq(Rows(width)) /\ Stacked(w[k + 1], r.y + r.height) /\ NoPairs(w[k + 1])
        /\ Taken(w[k + 1]) = Taken(w[k]) \cup TakenOf(r)
        /\ \A i \in 1..Len(w[k]) : Unused(w[k][i]) =>
             \E j \in 1..Len(w[k + 1]) : Unused(w[k + 1][j]) /\ w[k][i].height <= w[k + 1][j].height
        /\ Unused(r) => \E j \in 1..Len(w[k + 1]) : Unused(w[k + 1][j]) /\ r.height <= w[k + 1][j].height
    <3>1. w[k] \in Seq(Rows(width)) /\ Stacked(w[k], r.y) /\ NoPairs(w[k])
      BY <2>1, <2>4
    <3> DEFINE list == w[k]
               more == JoinedRow(list, r)
    <3>2. list \in Seq(Rows(width)) /\ Stacked(list, r.y) /\ NoPairs(list)
      BY <3>1
    <3> HIDE DEF r, list
    <3>3. /\ more \in Seq(Rows(width)) /\ Stacked(more, r.y + r.height) /\ NoPairs(more)
          /\ Taken(more) = Taken(list) \cup TakenOf(r)
          /\ \A i \in 1..Len(list) : Unused(list[i]) =>
               \E j \in 1..Len(more) : Unused(more[j]) /\ list[i].height <= more[j].height
          /\ Unused(r) => \E j \in 1..Len(more) : Unused(more[j]) /\ r.height <= more[j].height
      BY <2>2, <3>2, JoinedRowOK
    <3>4. w[k + 1] = more
      BY <2>3 DEF list
    <3> HIDE DEF more
    <3> QED
      BY <3>3, <3>4 DEF list
  <2>6. First(k + 1) = First(k) \cup TakenOf(r)
    <3>1. 1..k + 1 = (1..k) \cup {k + 1}
      BY <1>5
    <3> QED
      BY <3>1
  <2>7. Stays(k + 1)
    <3> SUFFICES ASSUME NEW i \in 1..k + 1, Unused(rows[i])
                 PROVE  \E j \in 1..Len(w[k + 1]) : Unused(w[k + 1][j]) /\ rows[i].height <= w[k + 1][j].height
      OBVIOUS
    <3>1. CASE i = k + 1
      BY <2>5, <3>1
    <3>2. CASE i # k + 1
      <4>1. i \in 1..k /\ i \in 1..n
        BY <1>2, <3>2
      <4>2. PICK l \in 1..Len(w[k]) : Unused(w[k][l]) /\ rows[i].height <= w[k][l].height
        BY <2>1, <4>1
      <4>3. PICK j \in 1..Len(w[k + 1]) : Unused(w[k + 1][j]) /\ w[k][l].height <= w[k + 1][j].height
        BY <2>5, <4>2
      <4>4. rows[i].height \in Nat /\ w[k][l].height \in Nat /\ w[k + 1][j].height \in Nat
        <5>1. \A u \in Rows(width) : u.height \in Nat
          BY DEF Rows
        <5>2. rows[i] \in Rows(width)
          BY <1>2, <4>1
        <5>3. w[k][l] \in Rows(width)
          BY <2>1, <4>2
        <5>4. w[k + 1][j] \in Rows(width)
          BY <2>5, <4>3
        <5> QED
          BY <5>1, <5>2, <5>3, <5>4, ZenonT(20)
      <4>5. rows[i].height <= w[k + 1][j].height
        BY <4>2, <4>3, <4>4, SMTT(20)
      <4> QED
        BY <4>3, <4>5, ZenonT(20)
    <3> QED
      BY <3>1, <3>2
  <2>8. End(k + 1) = r.y + r.height
    BY <1>5
  <2> HIDE DEF r, First, Stays, End
  <2> QED
    BY <2>1, <2>5, <2>6, <2>7, <2>8
<1>6. Good(n)
  <2> HIDE DEF S, Good
  <2>1. n \in S
    BY <1>2, <1>4, <1>5, Induction
  <2> USE DEF S
  <2> HIDE DEF n
  <2> QED
    BY <1>2, <2>1
<1>7. First(n) = Taken(rows)
  BY DEF Taken
<1>8. End(n) = end
  <2>1. CASE rows = <<>>
    <3>1. n = 0 /\ end = 0
      BY <2>1 DEF Stacked
    <3> QED
      BY <3>1
  <2>2. CASE rows # <<>>
    BY <1>2, <2>2 DEF Stacked
  <2> QED
    BY <2>1, <2>2
<1>9. /\ w[n] \in Seq(Rows(width)) /\ Stacked(w[n], end) /\ NoPairs(w[n]) /\ Taken(w[n]) = Taken(rows) /\ Stays(n)
  <2> HIDE DEF First, End, Stays, n
  <2> QED
    BY <1>6, <1>7, <1>8
<1> QED
  BY <1>1, <1>9

(* BestRow finds a row that has room if there is one. *)
LEMMA BestRowFits ==
  ASSUME NEW width, NEW rows \in Seq(Rows(width)), NEW w, NEW h
  PROVE  LET i == BestRow(rows, w, h)
         IN  /\ i # 0 => i \in 1..Len(rows) /\ h <= rows[i].height /\ HasSpace(rows[i].spaces, w)
             /\ i = 0 => \A j \in 1..Len(rows) : ~(h <= rows[j].height /\ HasSpace(rows[j].spaces, w))
<1> DEFINE fits == {i \in DOMAIN rows : h <= rows[i].height /\ HasSpace(rows[i].spaces, w)}
           value == [i \in fits |-> rows[i].height]
           least == {i \in fits : \A j \in fits : rows[i].height <= rows[j].height}
<1>1. Len(rows) \in Nat /\ DOMAIN rows = 1..Len(rows) /\ \A i \in 1..Len(rows) : rows[i].height \in Nat
  BY RowsMembers
<1>2. BestRow(rows, w, h) = IF fits = {} THEN 0 ELSE Min(least)
  BY DEF BestRow
<1>3. CASE fits = {}
  BY <1>1, <1>2, <1>3
<1>4. CASE fits # {}
  <2>1. fits \in SUBSET (1..Len(rows)) /\ value \in [fits -> Nat]
    BY <1>1
  <2>2. least = {i \in fits : \A j \in fits : value[i] <= value[j]}
    BY ZenonT(20)
  <2>3. Min({i \in fits : \A j \in fits : value[i] <= value[j]}) \in fits
    <3> HIDE DEF fits, value
    <3> QED
      BY <1>1, <1>4, <2>1, FirstLeast, ZenonT(20)
  <2>4. Min(least) \in fits
    BY <2>2, <2>3, ZenonT(20)
  <2>5. /\ Min(least) \in 1..Len(rows) /\ Min(least) # 0
        /\ h <= rows[Min(least)].height /\ HasSpace(rows[Min(least)].spaces, w)
    <3> DEFINE i == Min(least)
    <3>1. i \in fits
      BY <2>4
    <3> HIDE DEF i
    <3>2. i \in 1..Len(rows) /\ h <= rows[i].height /\ HasSpace(rows[i].spaces, w)
      BY <1>1, <3>1
    <3>3. i # 0
      BY <3>2
    <3> QED
      BY <3>2, <3>3, Zenon DEF i
  <2> HIDE DEF fits, least
  <2> QED
    BY <1>2, <1>4, <2>5
<1> QED
  BY <1>3, <1>4

(* The inductive invariant of the rows of a map *)
RowsOK(rows, width, height) ==
  /\ rows \in Seq(Rows(width)) /\ rows # <<>>
  /\ Stacked(rows, height) /\ NoPairs(rows)

Takings == [y : Nat, height : Nat \ {0}, space : Spaces]

(* What is taken, one by one *)
LEMMA TakenMembers ==
  ASSUME NEW width, NEW rows \in Seq(Rows(width))
  PROVE  /\ Taken(rows) \subseteq Takings
         /\ \A t : t \in Taken(rows) <=> \E i \in 1..Len(rows) : t \in TakenOf(rows[i])
         /\ \A i \in 1..Len(rows) : \A t : t \in TakenOf(rows[i]) <=>
              t \in Takings /\ t.y = rows[i].y /\ t.height = rows[i].height /\ t.space \in rows[i].spaces.used
<1>1. \A t : t \in Taken(rows) <=> \E i \in 1..Len(rows) : t \in TakenOf(rows[i])
  BY DEF Taken
<1>2. ASSUME NEW i \in 1..Len(rows), NEW t
      PROVE  t \in TakenOf(rows[i]) <=>
               t \in Takings /\ t.y = rows[i].y /\ t.height = rows[i].height /\ t.space \in rows[i].spaces.used
  <2>1. rows[i].y \in Nat /\ rows[i].height \in Nat \ {0} /\ rows[i].spaces.used \in SUBSET Spaces
    BY RowsMembers DEF Allocators
  <2> DEFINE r == rows[i]
  <2> HIDE DEF r
  <2>2. r.y \in Nat /\ r.height \in Nat \ {0} /\ r.spaces.used \in SUBSET Spaces
    BY <2>1 DEF r
  <2>3. t \in TakenOf(r) <=> \E s \in r.spaces.used : t = [y |-> r.y, height |-> r.height, space |-> s]
    BY DEF TakenOf
  <2>4. t \in Takings => t = [y |-> t.y, height |-> t.height, space |-> t.space]
    BY DEF Takings
  <2>5. ASSUME NEW s \in r.spaces.used, t = [y |-> r.y, height |-> r.height, space |-> s]
        PROVE  t \in Takings /\ t.y = r.y /\ t.height = r.height /\ t.space \in r.spaces.used
    BY <2>2, <2>5 DEF Takings
  <2>6. t \in TakenOf(r) <=>
          t \in Takings /\ t.y = r.y /\ t.height = r.height /\ t.space \in r.spaces.used
    BY <2>3, <2>4, <2>5
  <2> QED
    BY <2>6 DEF r
<1> QED
  BY <1>1, <1>2

(* What is taken lies apart and inside the map. *)
LEMMA TakenApart ==
  ASSUME NEW width, NEW height, NEW rows, RowsOK(rows, width, height)
  PROVE  /\ \A t, u \in Taken(rows) : \/ t = u
                                      \/ LeftOf(t.space, u.space) \/ LeftOf(u.space, t.space)
                                      \/ t.y + t.height <= u.y \/ u.y + u.height <= t.y
         /\ \A t \in Taken(rows) : t.space.x + t.space.width <= width /\ t.y + t.height <= height
<1>1. rows \in Seq(Rows(width)) /\ Stacked(rows, height)
  BY DEF RowsOK
<1>2. /\ Taken(rows) \subseteq Takings
      /\ \A t : t \in Taken(rows) <=> \E i \in 1..Len(rows) : t \in TakenOf(rows[i])
      /\ \A i \in 1..Len(rows) : \A t : t \in TakenOf(rows[i]) <=>
           t \in Takings /\ t.y = rows[i].y /\ t.height = rows[i].height /\ t.space \in rows[i].spaces.used
  BY <1>1, TakenMembers
<1>3. /\ \A i, j \in 1..Len(rows) : i < j => rows[i].y + rows[i].height <= rows[j].y
      /\ \A i \in 1..Len(rows) : rows[i].y + rows[i].height <= height
  BY <1>1, StackedApart
<1>4. \A i \in 1..Len(rows) : AllocatorOK(rows[i].spaces, width)
  BY <1>1, RowsMembers
<1>5. ASSUME NEW t \in Taken(rows), NEW u \in Taken(rows)
      PROVE  \/ t = u
             \/ LeftOf(t.space, u.space) \/ LeftOf(u.space, t.space)
             \/ t.y + t.height <= u.y \/ u.y + u.height <= t.y
  <2>1. PICK i \in 1..Len(rows) : t \in TakenOf(rows[i])
    BY <1>2
  <2>2. PICK j \in 1..Len(rows) : u \in TakenOf(rows[j])
    BY <1>2
  <2>3. /\ t.y = rows[i].y /\ t.height = rows[i].height /\ t.space \in rows[i].spaces.used
        /\ u.y = rows[j].y /\ u.height = rows[j].height /\ u.space \in rows[j].spaces.used
    BY <1>2, <2>1, <2>2
  <2>4. CASE i < j
    BY <1>3, <2>3, <2>4
  <2>5. CASE j < i
    BY <1>3, <2>3, <2>5
  <2>6. CASE i = j
    <3>1. t.space = u.space \/ LeftOf(t.space, u.space) \/ LeftOf(u.space, t.space)
      BY <1>4, <2>3, <2>6 DEF AllocatorOK
    <3>2. t = [y |-> t.y, height |-> t.height, space |-> t.space] /\ u = [y |-> u.y, height |-> u.height, space |-> u.space]
      BY <1>2 DEF Takings
    <3>3. t.space = u.space => t = u
      BY <2>3, <2>6, <3>2
    <3> QED
      BY <3>1, <3>3
  <2> QED
    BY <2>4, <2>5, <2>6
<1>6. ASSUME NEW t \in Taken(rows)
      PROVE  t.space.x + t.space.width <= width /\ t.y + t.height <= height
  <2>1. PICK i \in 1..Len(rows) : t \in TakenOf(rows[i])
    BY <1>2
  <2>2. t.y = rows[i].y /\ t.height = rows[i].height /\ t.space \in rows[i].spaces.used
    BY <1>2, <2>1
  <2>3. t.y + t.height <= height
    BY <1>3, <2>2
  <2> QED
    BY <1>4, <2>2, <2>3 DEF AllocatorOK
<1> QED
  BY <1>5, <1>6

(* A row that nothing is taken of *)
LEMMA NewRowOK ==
  ASSUME NEW width \in Nat \ {0}, NEW y \in Nat, NEW height \in Nat \ {0}
  PROVE  /\ Row(y, height, width) \in Rows(width) /\ Unused(Row(y, height, width))
         /\ Row(y, height, width).y = y /\ Row(y, height, width).height = height
<1> DEFINE a == NewAllocator(width)
           r == Row(y, height, width)
<1>1. a.available = width /\ a.free = <<>> /\ a.used = {}
  BY DEF NewAllocator
<1>2. a \in Allocators
  BY DEF NewAllocator, Allocators
<1>3. Cardinality(Open({}, width)) = width
  <2>1. Open({}, width) = 0..0 + width - 1
    BY DEF Open, Columns
  <2> QED
    BY <2>1, WidthOf
<1>4. Gapped(<<>>)
  BY DEF Gapped
<1> HIDE DEF a
<1>5. AllocatorOK(a, width)
  BY <1>1, <1>2, <1>3, <1>4 DEF AllocatorOK
<1>6. r = [y |-> y, height |-> height, spaces |-> a]
  BY DEF Row, a
<1>7. r \in Rows(width)
  BY <1>2, <1>5, <1>6 DEF Rows
<1> QED
  BY <1>1, <1>6, <1>7 DEF Unused

(* The first row of a map, in which everything fits that fits into the map *)
LEMMA NewRowsOK ==
  ASSUME NEW width \in Nat \ {0}, NEW height \in Nat \ {0}
  PROVE  /\ RowsOK(<<Row(0, height, width)>>, width, height)
         /\ Taken(<<Row(0, height, width)>>) = {}
         /\ \A w, h \in Nat : w <= width /\ h <= height => BestRow(<<Row(0, height, width)>>, w, h) # 0
<1> DEFINE r == Row(0, height, width)
           rows == <<r>>
<1>1. r \in Rows(width) /\ Unused(r) /\ r.y = 0 /\ r.height = height
  BY NewRowOK
<1>2. r.spaces.available = width /\ empty(r.spaces)
  BY DEF Row, NewAllocator, empty
<1> HIDE DEF r
<1>3. rows \in Seq(Rows(width)) /\ rows # <<>> /\ Len(rows) = 1 /\ rows[1] = r
  BY <1>1
<1> HIDE DEF rows
<1>4. Stacked(rows, height)
  BY <1>1, <1>3 DEF Stacked
<1>5. NoPairs(rows)
  BY <1>3 DEF NoPairs
<1>6. Taken(rows) = {}
  BY <1>1, <1>3 DEF Taken, TakenOf, Unused
<1>7. ASSUME NEW w \in Nat, NEW h \in Nat, w <= width, h <= height
      PROVE  BestRow(rows, w, h) # 0
  <2>1. h <= rows[1].height /\ HasSpace(rows[1].spaces, w)
    BY <1>1, <1>2, <1>3, <1>7 DEF HasSpace
  <2> QED
    BY <1>3, <2>1, BestRowFits
<1> QED
  BY <1>3, <1>4, <1>5, <1>6, <1>7 DEF RowsOK, rows, r

-----------------------------------------------------------------------------
(* BitmapFragmentMap: a row is sliced, gives a space away, takes it back *)

(* There may be an unused row beside row i, which is to be used. *)
NoPairsBut(rows, i) ==
  \A j \in 1..Len(rows) - 1 : j # i /\ j + 1 # i => ~(Unused(rows[j]) /\ Unused(rows[j + 1]))

(* What Sliced does to the rows *)
LEMMA SlicedOK ==
  ASSUME NEW width \in Nat \ {0}, NEW height, NEW rows, RowsOK(rows, width, height),
         NEW i \in 1..Len(rows), NEW h \in Nat \ {0}, h <= rows[i].height
  PROVE  LET sliced == Sliced(rows, i, h, width)
         IN  /\ sliced \in Seq(Rows(width)) /\ i \in 1..Len(sliced) /\ Stacked(sliced, height)
             /\ NoPairsBut(sliced, i) /\ Taken(sliced) = Taken(rows)
             /\ h <= sliced[i].height /\ sliced[i].spaces = rows[i].spaces
<1> DEFINE n == Len(rows)
           sliced == Sliced(rows, i, h, width)
           old == rows[i]
           cut == [old EXCEPT !.height = h]
           new == Row(old.y + h, old.height - h, width)
<1>1. rows \in Seq(Rows(width)) /\ rows # <<>> /\ Stacked(rows, height) /\ NoPairs(rows)
  BY DEF RowsOK
<1>2. /\ n \in Nat
      /\ \A j \in 1..n : rows[j] \in Rows(width) /\ rows[j].y \in Nat /\ rows[j].height \in Nat \ {0}
  BY <1>1, RowsMembers
<1>3. CASE empty(old.spaces) /\ h < old.height
  <2> DEFINE base == [rows EXCEPT ![i] = cut]
  <2>1. sliced = InsertAt(base, i + 1, new)
    BY <1>3 DEF Sliced
  <2>2. cut \in Rows(width) /\ cut.y = old.y /\ cut.height = h /\ cut.spaces = old.spaces
    <3>1. old \in Rows(width)
      BY <1>2
    <3> HIDE DEF old
    <3> QED
      BY <3>1 DEF Rows
  <2>3. old.y + h \in Nat /\ old.height - h \in Nat \ {0}
    BY <1>2, <1>3
  <2>4. new \in Rows(width) /\ Unused(new) /\ new.y = old.y + h /\ new.height = old.height - h
    <3> DEFINE low == old.y + h
               left == old.height - h
    <3>1. low \in Nat /\ left \in Nat \ {0}
      BY <2>3
    <3>2. new = Row(low, left, width)
      OBVIOUS
    <3> HIDE DEF low, left, new, old, cut, base, sliced, n
    <3>3. /\ Row(low, left, width) \in Rows(width) /\ Unused(Row(low, left, width))
          /\ Row(low, left, width).y = low /\ Row(low, left, width).height = left
      BY <3>1, NewRowOK, SMTT(30)
    <3> QED
      BY <3>2, <3>3 DEF low, left
  <2>5. Unused(old) /\ Unused(cut)
    BY <1>3, <2>2 DEF Unused, empty
  <2> HIDE DEF cut, new
  <2>6. base \in Seq(Rows(width)) /\ Len(base) = n /\ \A j \in 1..n : base[j] = IF j = i THEN cut ELSE rows[j]
    BY <1>1, <2>2
  <2> HIDE DEF base
  <2>7. i + 1 \in 1..Len(base) + 1
    BY <1>2, <2>6
  <2>8. sliced \in Seq(Rows(width)) /\ IsInserted(sliced, base, i + 1, new)
    BY <2>1, <2>4, <2>6, <2>7, InsertedAt
  <2> HIDE DEF sliced
  <2>9. /\ Len(sliced) = n + 1
        /\ \A j \in 1..n + 1 : /\ j < i => j \in 1..n /\ sliced[j] = rows[j]
                               /\ j = i => sliced[j] = cut
                               /\ j = i + 1 => sliced[j] = new
                               /\ i + 1 < j => j - 1 \in 1..n /\ sliced[j] = rows[j - 1]
    <3>1. Len(sliced) = n + 1 /\ \A j \in 1..n + 1 :
            sliced[j] = IF j < i + 1 THEN base[j] ELSE IF j = i + 1 THEN new ELSE base[j - 1]
      BY <2>6, <2>8 DEF IsInserted
    <3>2. ASSUME NEW j \in 1..n + 1
          PROVE  /\ j < i => j \in 1..n /\ sliced[j] = rows[j]
                 /\ j = i => sliced[j] = cut
                 /\ j = i + 1 => sliced[j] = new
                 /\ i + 1 < j => j - 1 \in 1..n /\ sliced[j] = rows[j - 1]
      <4>1. CASE j < i
        <5>1. j \in 1..n /\ j < i + 1 /\ j # i /\ ~(j = i + 1) /\ ~(i + 1 < j)
          BY <1>2, <4>1
        <5> QED
          BY <2>6, <3>1, <5>1
      <4>2. CASE j = i
        <5>1. j < i + 1 /\ ~(j < i) /\ ~(j = i + 1) /\ ~(i + 1 < j)
          BY <1>2, <4>2
        <5> QED
          BY <2>6, <3>1, <4>2, <5>1
      <4>3. CASE j = i + 1
        <5>1. ~(j < i + 1) /\ ~(j < i) /\ ~(j = i) /\ ~(i + 1 < j)
          BY <1>2, <4>3
        <5> QED
          BY <3>1, <4>3, <5>1
      <4>4. CASE i + 1 < j
        <5>1. ~(j < i + 1) /\ ~(j < i) /\ ~(j = i) /\ ~(j = i + 1) /\ j - 1 \in 1..n /\ j - 1 # i
          BY <1>2, <4>4
        <5> QED
          BY <2>6, <3>1, <5>1, ZenonT(20)
      <4>5. j < i \/ j = i \/ j = i + 1 \/ i + 1 < j
        BY <1>2
      <4> QED
        BY <4>1, <4>2, <4>3, <4>4, <4>5
    <3> QED
      BY <3>1, <3>2, ZenonT(20)
  <2>10. \A j \in 1..n - 1 : j \in 1..n /\ j + 1 \in 1..n /\ rows[j + 1].y = rows[j].y + rows[j].height
    <3>1. \A j \in 1..n - 1 : rows[j + 1].y = rows[j].y + rows[j].height
      BY <1>1, Zenon DEF Stacked
    <3>2. \A j \in 1..n - 1 : j \in 1..n /\ j + 1 \in 1..n
      <4> HIDE DEF n
      <4> QED
        BY <1>2
    <3> QED
      BY <3>1, <3>2, Zenon
  <2>11. Stacked(sliced, height)
    <3>1. sliced # <<>> /\ Len(sliced) - 1 = n
      BY <1>2, <2>9
    <3>2. sliced[1].y = 0
      <4>1. 1 \in 1..n + 1 /\ (1 = i \/ 1 < i) /\ rows[1].y = 0
        BY <1>1, <1>2 DEF Stacked
      <4> QED
        BY <2>2, <2>9, <4>1
    <3>3. sliced[n + 1].y + sliced[n + 1].height = height
      <4>1. rows[n].y + rows[n].height = height /\ n + 1 \in 1..n + 1
        BY <1>1, <1>2 DEF Stacked
      <4>2. CASE i = n
        <5>1. sliced[n + 1] = new
          BY <2>9, <4>1, <4>2
        <5>2. old.y + h + (old.height - h) = old.y + old.height
          BY <1>2
        <5> QED
          BY <2>4, <4>1, <4>2, <5>1, <5>2
      <4>3. CASE i # n
        <5>1. i + 1 < n + 1 /\ n + 1 - 1 = n
          BY <1>2, <4>3
        <5> QED
          BY <2>9, <4>1, <5>1
      <4> QED
        BY <4>2, <4>3
    <3>4. ASSUME NEW j \in 1..n
          PROVE  sliced[j + 1].y = sliced[j].y + sliced[j].height
      <4>1. j \in 1..n + 1 /\ j + 1 \in 1..n + 1
        BY <1>2
      <4>2. CASE j + 1 < i
        <5>1. j < i /\ j \in 1..n - 1
          BY <1>2, <4>2
        <5> QED
          BY <2>9, <2>10, <4>1, <4>2, <5>1, ZenonT(20)
      <4>3. CASE j + 1 = i
        <5>1. j < i /\ j \in 1..n - 1
          BY <1>2, <4>3
        <5>2. sliced[j] = rows[j] /\ sliced[j + 1] = cut
          BY <2>9, <4>1, <4>3, <5>1
        <5> QED
          BY <2>2, <2>10, <4>3, <5>1, <5>2
      <4>4. CASE j = i
        <5>1. sliced[j] = cut /\ sliced[j + 1] = new
          BY <2>9, <4>1, <4>4
        <5> QED
          BY <2>2, <2>4, <5>1
      <4>5. CASE j = i + 1
        <5>1. i + 1 < j + 1 /\ j + 1 - 1 = j /\ i \in 1..n - 1
          BY <1>2, <4>5
        <5>2. sliced[j] = new /\ sliced[j + 1] = rows[i + 1]
          BY <2>9, <4>1, <4>5, <5>1
        <5>3. old.y + h + (old.height - h) = old.y + old.height
          BY <1>2
        <5> QED
          BY <2>4, <2>10, <5>1, <5>2, <5>3
      <4>6. CASE i + 1 < j
        <5>1. i + 1 < j + 1 /\ j + 1 - 1 = j /\ j - 1 \in 1..n - 1 /\ j - 1 + 1 = j
          BY <1>2, <4>6
        <5>2. sliced[j] = rows[j - 1] /\ sliced[j + 1] = rows[j]
          BY <2>9, <4>1, <4>6, <5>1
        <5> QED
          BY <2>10, <5>1, <5>2
      <4> QED
        BY <1>2, <4>2, <4>3, <4>4, <4>5, <4>6
    <3> QED
      BY <2>9, <3>1, <3>2, <3>3, <3>4 DEF Stacked
  <2>12. NoPairsBut(sliced, i)
    <3> SUFFICES ASSUME NEW j \in 1..n, j # i, j + 1 # i
                 PROVE  ~(Unused(sliced[j]) /\ Unused(sliced[j + 1]))
      <4>1. Len(sliced) - 1 = n
        BY <1>2, <2>9
      <4> QED
        BY <4>1 DEF NoPairsBut
    <3>1. \A k \in 1..n - 1 : ~(Unused(rows[k]) /\ Unused(rows[k + 1]))
      BY <1>1, ZenonT(20) DEF NoPairs
    <3>2. j \in 1..n + 1 /\ j + 1 \in 1..n + 1
      BY <1>2
    <3>3. CASE j + 1 < i
      <4>1. j < i /\ j \in 1..n - 1
        BY <1>2, <3>3
      <4> QED
        BY <2>9, <3>1, <3>2, <3>3, <4>1, ZenonT(20)
    <3>4. CASE j = i + 1
      <4>1. i + 1 < j + 1 /\ j + 1 - 1 = j /\ i \in 1..n - 1
        BY <1>2, <3>4
      <4>2. sliced[j + 1] = rows[i + 1]
        BY <2>9, <3>2, <3>4, <4>1
      <4> QED
        BY <2>5, <3>1, <4>1, <4>2
    <3>5. CASE i + 1 < j
      <4>1. i + 1 < j + 1 /\ j + 1 - 1 = j /\ j - 1 \in 1..n - 1 /\ j - 1 + 1 = j
        BY <1>2, <3>5
      <4>2. sliced[j] = rows[j - 1] /\ sliced[j + 1] = rows[j]
        BY <2>9, <3>2, <3>5, <4>1
      <4> QED
        BY <3>1, <4>1, <4>2, ZenonT(20)
    <3> QED
      BY <1>2, <3>3, <3>4, <3>5
  <2>13. Taken(sliced) = Taken(rows)
    <3>1. TakenOf(cut) = {} /\ TakenOf(new) = {} /\ TakenOf(rows[i]) = {}
      BY <2>4, <2>5 DEF TakenOf, Unused
    <3>2. \A t : t \in Taken(sliced) <=> \E j \in 1..n + 1 : t \in TakenOf(sliced[j])
      BY <2>9 DEF Taken
    <3>3. \A t : t \in Taken(rows) <=> \E j \in 1..n : t \in TakenOf(rows[j])
      BY DEF Taken
    <3>4. \A j \in 1..n + 1 : TakenOf(sliced[j]) = {} \/ \E k \in 1..n : sliced[j] = rows[k]
      <4> TAKE j \in 1..n + 1
      <4>1. j < i \/ j = i \/ j = i + 1 \/ i + 1 < j
        BY <1>2
      <4> QED
        BY <2>9, <3>1, <4>1
    <3>5. \A k \in 1..n : k = i \/ \E j \in 1..n + 1 : sliced[j] = rows[k]
      <4> TAKE k \in 1..n
      <4>1. CASE k < i
        <5>1. k \in 1..n + 1
          BY <1>2
        <5> QED
          BY <2>9, <4>1, <5>1
      <4>2. CASE i < k
        <5>1. k + 1 \in 1..n + 1 /\ i + 1 < k + 1 /\ k + 1 - 1 = k
          BY <1>2, <4>2
        <5>2. sliced[k + 1] = rows[k]
          BY <2>9, <5>1
        <5> QED
          BY <5>1, <5>2
      <4> QED
        BY <1>2, <4>1, <4>2
    <3>6. \A t : t \in Taken(sliced) <=> t \in Taken(rows)
      BY <3>1, <3>2, <3>3, <3>4, <3>5, ZenonT(20)
    <3> QED
      BY <3>6, ZenonT(20)
  <2>14. i \in 1..Len(sliced) /\ h <= sliced[i].height /\ sliced[i].spaces = rows[i].spaces
    <3>1. i \in 1..n + 1 /\ h <= h
      BY <1>2
    <3> QED
      BY <2>2, <2>9, <3>1
  <2> QED
    BY <2>8, <2>11, <2>12, <2>13, <2>14 DEF sliced
<1>4. CASE ~(empty(old.spaces) /\ h < old.height)
  <2>1. sliced = rows
    BY <1>4 DEF Sliced
  <2> QED
    BY <1>1, <2>1 DEF NoPairs, NoPairsBut
<1> QED
  BY <1>3, <1>4

(* A row whose allocator changes *)
LEMMA AllocatorChanged ==
  ASSUME NEW width, NEW height, NEW rows \in Seq(Rows(width)), Stacked(rows, height),
         NEW i \in 1..Len(rows), NEW a, AllocatorOK(a, width)
  PROVE  LET changed == [rows EXCEPT ![i].spaces = a]
         IN  /\ changed \in Seq(Rows(width)) /\ Len(changed) = Len(rows) /\ Stacked(changed, height)
             /\ changed[i].spaces = a /\ changed[i].y = rows[i].y /\ changed[i].height = rows[i].height
             /\ \A j \in 1..Len(rows) : j # i => changed[j] = rows[j]
<1> DEFINE row == [rows[i] EXCEPT !.spaces = a]
           changed == [rows EXCEPT ![i] = row]
<1>1. a \in Allocators
  BY DEF AllocatorOK
<1>2. row \in Rows(width) /\ row.spaces = a /\ row.y = rows[i].y /\ row.height = rows[i].height
  <2> DEFINE old == rows[i]
  <2>1. old \in Rows(width)
    BY RowsMembers
  <2> HIDE DEF old
  <2>2. [old EXCEPT !.spaces = a] \in Rows(width) /\ [old EXCEPT !.spaces = a].spaces = a
        /\ [old EXCEPT !.spaces = a].y = old.y /\ [old EXCEPT !.spaces = a].height = old.height
    BY <1>1, <2>1, ZenonT(20) DEF Rows
  <2> QED
    BY <2>2 DEF old
<1> HIDE DEF row
<1>3. /\ changed \in Seq(Rows(width)) /\ Len(changed) = Len(rows) /\ changed[i] = row
      /\ \A j \in 1..Len(rows) : j # i => changed[j] = rows[j]
  BY <1>2
<1> HIDE DEF changed
<1>4. \A j \in 1..Len(rows) : changed[j].y = rows[j].y /\ changed[j].height = rows[j].height
  BY <1>2, <1>3
<1>5. Stacked(changed, height)
  <2>1. rows # <<>> /\ changed # <<>>
    BY <1>3
  <2>2. Len(rows) \in Nat
    BY RowsMembers
  <2>3. 1 \in 1..Len(rows) /\ Len(rows) \in 1..Len(rows) /\ \A j \in 1..Len(rows) - 1 : j \in 1..Len(rows) /\ j + 1 \in 1..Len(rows)
    BY <2>2
  <2> QED
    BY <1>3, <1>4, <2>1, <2>3 DEF Stacked
<1>6. changed = [rows EXCEPT ![i].spaces = a]
  BY DEF changed, row
<1> QED
  BY <1>2, <1>3, <1>5, <1>6

(* What CreateNewFragment of a map does to its rows: something that is apart
   from all that was taken is taken in addition. *)
RowsGrow(rows, width, height, w, h) ==
  LET i == BestRow(rows, w, h)
      sliced == Sliced(rows, i, h, width)
      got == AllocSpace(sliced[i].spaces, w)
      after == [sliced EXCEPT ![i].spaces = got.allocator]
      t == [y |-> sliced[i].y, height |-> sliced[i].height, space |-> got.space]
  IN  /\ got.space # NoSpace /\ RowsOK(after, width, height)
      /\ t \in Takings /\ t \notin Taken(rows) /\ Taken(after) = Taken(rows) \cup {t}
      /\ got.space.width = w /\ h <= sliced[i].height

(* A row that fits is sliced and gives a space away: rows and count follow. *)
LEMMA RowsCreated ==
  ASSUME NEW width \in Nat \ {0}, NEW height, NEW rows, RowsOK(rows, width, height),
         NEW w \in Nat \ {0}, NEW h \in Nat \ {0}, BestRow(rows, w, h) # 0
  PROVE  RowsGrow(rows, width, height, w, h)
<1> DEFINE i == BestRow(rows, w, h)
           sliced == Sliced(rows, i, h, width)
           old == sliced[i]
           got == AllocSpace(old.spaces, w)
           after == [sliced EXCEPT ![i].spaces = got.allocator]
           t == [y |-> old.y, height |-> old.height, space |-> got.space]
<1>1. rows \in Seq(Rows(width)) /\ Stacked(rows, height)
  BY DEF RowsOK
<1>2. i \in 1..Len(rows) /\ h <= rows[i].height /\ HasSpace(rows[i].spaces, w)
  BY <1>1, BestRowFits
<1> HIDE DEF i
<1>3. /\ sliced \in Seq(Rows(width)) /\ i \in 1..Len(sliced) /\ Stacked(sliced, height)
      /\ NoPairsBut(sliced, i) /\ Taken(sliced) = Taken(rows)
      /\ h <= old.height /\ old.spaces = rows[i].spaces
  BY <1>2, SlicedOK
<1> HIDE DEF sliced
<1>4. old \in Rows(width) /\ old.y \in Nat /\ old.height \in Nat \ {0} /\ AllocatorOK(old.spaces, width)
  BY <1>3, RowsMembers
<1>5. HasSpace(old.spaces, w)
  BY <1>2, <1>3
<1>6. /\ AllocatorOK(got.allocator, width) /\ got.space # NoSpace
      /\ got.space \in Spaces /\ got.space.width = w
      /\ got.space \notin old.spaces.used /\ got.allocator.used = old.spaces.used \cup {got.space}
  <2> HIDE DEF old
  <2> QED
    BY <1>4, <1>5, AllocSpaceOK
<1> HIDE DEF got
<1>7. /\ after \in Seq(Rows(width)) /\ Len(after) = Len(sliced) /\ Stacked(after, height)
      /\ after[i].spaces = got.allocator /\ after[i].y = old.y /\ after[i].height = old.height
      /\ \A j \in 1..Len(sliced) : j # i => after[j] = sliced[j]
  BY <1>3, <1>6, AllocatorChanged
<1> HIDE DEF after, old
<1>8. t \in Takings /\ t.y = old.y /\ t.height = old.height /\ t.space = got.space
  BY <1>4, <1>6 DEF Takings
<1>9. NoPairs(after)
  <2> SUFFICES ASSUME NEW j \in 1..Len(sliced) - 1
               PROVE  ~(Unused(after[j]) /\ Unused(after[j + 1]))
    BY <1>7, ZenonT(20) DEF NoPairs
  <2>1. j \in 1..Len(sliced) /\ j + 1 \in 1..Len(sliced)
    BY <1>3, RowsMembers
  <2>2. ~Unused(after[i])
    BY <1>6, <1>7, ZenonT(20) DEF Unused
  <2>3. CASE j # i /\ j + 1 # i
    BY <1>3, <1>7, <2>1, <2>3, ZenonT(20) DEF NoPairsBut
  <2> QED
    BY <2>2, <2>3
<1> HIDE DEF t
<1>10. \A u : u \in TakenOf(after[i]) <=> u \in TakenOf(old) \/ u = t
  <2>1. TakenOf(old) = {[y |-> old.y, height |-> old.height, space |-> s] : s \in old.spaces.used}
    BY DEF TakenOf
  <2>2. TakenOf(after[i]) = {[y |-> old.y, height |-> old.height, space |-> s] : s \in old.spaces.used \cup {got.space}}
    BY <1>6, <1>7 DEF TakenOf
  <2> QED
    BY <2>1, <2>2 DEF t
<1>11. Taken(after) = Taken(rows) \cup {t}
  <2>1. \A u : u \in Taken(sliced) <=> \E j \in 1..Len(sliced) : u \in TakenOf(sliced[j])
    BY DEF Taken
  <2>2. \A u : u \in Taken(after) <=> \E j \in 1..Len(sliced) : u \in TakenOf(after[j])
    BY <1>7 DEF Taken
  <2>3. \A j \in 1..Len(sliced) : j # i => TakenOf(after[j]) = TakenOf(sliced[j])
    BY <1>7
  <2>4. \A u : u \in Taken(after) <=> u \in Taken(sliced) \/ u = t
    BY <1>3, <1>10, <2>1, <2>2, <2>3 DEF old
  <2> QED
    BY <1>3, <2>4
<1>12. t \notin Taken(rows)
  <2> SUFFICES ASSUME t \in Taken(sliced) PROVE FALSE
    BY <1>3
  <2>1. PICK j \in 1..Len(sliced) : t \in TakenOf(sliced[j])
    BY DEF Taken
  <2>2. t.y = sliced[j].y /\ t.space \in sliced[j].spaces.used
    BY <1>3, <2>1, TakenMembers
  <2>3. \A k, l \in 1..Len(sliced) : k < l => sliced[k].y + sliced[k].height <= sliced[l].y
    BY <1>3, StackedApart
  <2>4. \A k \in 1..Len(sliced) : sliced[k].y \in Nat /\ sliced[k].height \in Nat \ {0}
    BY <1>3, RowsMembers
  <2>5. sliced[j].y = sliced[i].y
    BY <1>8, <2>2 DEF old
  <2>6. j = i
    <3>1. CASE j < i
      BY <1>3, <2>3, <2>4, <2>5, <3>1
    <3>2. CASE i < j
      BY <1>3, <2>3, <2>4, <2>5, <3>2
    <3> QED
      BY <1>3, <3>1, <3>2
  <2> QED
    BY <1>6, <1>8, <2>2, <2>6 DEF old
<1>13. RowsOK(after, width, height)
  <2>1. after # <<>>
    BY <1>3, <1>7
  <2> QED
    BY <1>7, <1>9, <2>1 DEF RowsOK
<1> QED
  BY <1>3, <1>6, <1>8, <1>11, <1>12, <1>13, ZenonT(20) DEF RowsGrow, i, sliced, got, after, t, old

(* The row that a fragment is in *)
LEMMA RowFound ==
  ASSUME NEW width, NEW height, NEW rows, RowsOK(rows, width, height), NEW t \in Taken(rows)
  PROVE  LET i == CHOOSE i \in DOMAIN rows : rows[i].y = t.y
         IN  /\ i \in 1..Len(rows) /\ rows[i].y = t.y /\ rows[i].height = t.height
             /\ t.space \in rows[i].spaces.used
             /\ \A j \in 1..Len(rows) : j # i => rows[j].y # t.y
<1>1. rows \in Seq(Rows(width)) /\ Stacked(rows, height)
  BY DEF RowsOK
<1>2. DOMAIN rows = 1..Len(rows) /\ \A i \in 1..Len(rows) : rows[i].y \in Nat /\ rows[i].height \in Nat \ {0}
  BY <1>1, RowsMembers
<1>3. PICK k \in 1..Len(rows) : t \in TakenOf(rows[k])
  BY <1>1, TakenMembers
<1>4. t.y = rows[k].y /\ t.height = rows[k].height /\ t.space \in rows[k].spaces.used
  BY <1>1, <1>3, TakenMembers
<1>5. \A i, j \in 1..Len(rows) : i < j => rows[i].y + rows[i].height <= rows[j].y
  BY <1>1, StackedApart
<1>6. ASSUME NEW j \in 1..Len(rows), j # k
      PROVE  rows[j].y # t.y
  <2>1. CASE j < k
    BY <1>2, <1>4, <1>5, <2>1
  <2>2. CASE k < j
    BY <1>2, <1>4, <1>5, <2>2
  <2> QED
    BY <1>6, <2>1, <2>2
<1>7. (CHOOSE i \in DOMAIN rows : rows[i].y = t.y) = k
  BY <1>2, <1>4, <1>6
<1> QED
  BY <1>4, <1>6, <1>7

(* What FreeFragmentSpace does to the rows: one thing less is taken, and there
   is room for anything no larger. *)
RowsShrink(rows, width, height, t) ==
  LET i == CHOOSE i \in DOMAIN rows : rows[i].y = t.y
      changed == [rows EXCEPT ![i].spaces = FreeSpace(rows[i].spaces, t.space)]
      after == IF empty(changed[i].spaces) THEN MergedRows(changed) ELSE changed
  IN  /\ RowsOK(after, width, height) /\ Taken(after) = Taken(rows) \ {t}
      /\ \A w, h \in Nat : w <= t.space.width /\ h <= t.height => BestRow(after, w, h) # 0

(* A space goes back and unused rows are joined: rows and count follow. *)
LEMMA RowsFreed ==
  ASSUME NEW width \in Nat \ {0}, NEW height, NEW rows, RowsOK(rows, width, height), NEW t \in Taken(rows)
  PROVE  RowsShrink(rows, width, height, t)
<1> DEFINE i == CHOOSE i \in DOMAIN rows : rows[i].y = t.y
           a == FreeSpace(rows[i].spaces, t.space)
           changed == [rows EXCEPT ![i].spaces = a]
           after == IF empty(changed[i].spaces) THEN MergedRows(changed) ELSE changed
<1>1. rows \in Seq(Rows(width)) /\ rows # <<>> /\ Stacked(rows, height) /\ NoPairs(rows)
  BY DEF RowsOK
<1>2. /\ i \in 1..Len(rows) /\ rows[i].y = t.y /\ rows[i].height = t.height
      /\ t.space \in rows[i].spaces.used
      /\ \A j \in 1..Len(rows) : j # i => rows[j].y # t.y
  BY RowFound
<1> HIDE DEF i
<1>3. AllocatorOK(rows[i].spaces, width) /\ rows[i].height \in Nat /\ Len(rows) \in Nat
  BY <1>1, <1>2, RowsMembers
<1>4. /\ AllocatorOK(a, width) /\ a.used = rows[i].spaces.used \ {t.space}
      /\ t.space.width <= a.available
      /\ \E k \in DOMAIN a.free : t.space.width <= a.free[k].width
  BY <1>2, <1>3, FreeSpaceOK
<1> HIDE DEF a
<1>5. /\ changed \in Seq(Rows(width)) /\ Len(changed) = Len(rows) /\ Stacked(changed, height)
      /\ changed[i].spaces = a /\ changed[i].y = rows[i].y /\ changed[i].height = rows[i].height
      /\ \A j \in 1..Len(rows) : j # i => changed[j] = rows[j]
  BY <1>1, <1>2, <1>4, AllocatorChanged
<1> HIDE DEF changed
<1>6. t \in Takings /\ t.space \in Spaces /\ t.space.width \in Nat /\ t.height \in Nat
  <2>1. t \in Takings
    BY <1>1, TakenMembers
  <2>2. t.space \in Spaces /\ t.height \in Nat
    BY <2>1 DEF Takings
  <2> QED
    BY <2>1, <2>2 DEF Spaces
<1>7. Taken(changed) = Taken(rows) \ {t}
  <2>1. \A u : u \in Taken(rows) <=> \E j \in 1..Len(rows) : u \in TakenOf(rows[j])
    BY DEF Taken
  <2>2. \A u : u \in Taken(changed) <=> \E j \in 1..Len(rows) : u \in TakenOf(changed[j])
    BY <1>5 DEF Taken
  <2>3. \A j \in 1..Len(rows) : \A u : u \in TakenOf(rows[j]) <=>
          u \in Takings /\ u.y = rows[j].y /\ u.height = rows[j].height /\ u.space \in rows[j].spaces.used
    BY <1>1, TakenMembers
  <2>4. \A j \in 1..Len(rows) : \A u : u \in TakenOf(changed[j]) <=>
          u \in Takings /\ u.y = changed[j].y /\ u.height = changed[j].height /\ u.space \in changed[j].spaces.used
    BY <1>5, TakenMembers
  <2>5. ASSUME NEW u \in Takings
        PROVE  u = t <=> u.y = t.y /\ u.height = t.height /\ u.space = t.space
    BY <1>6 DEF Takings
  <2>6. ASSUME NEW u
        PROVE  u \in TakenOf(changed[i]) <=> u \in TakenOf(rows[i]) /\ u # t
    BY <1>2, <1>4, <1>5, <2>3, <2>4, <2>5, ZenonT(20)
  <2>7. \A j \in 1..Len(rows) : j # i => t \notin TakenOf(rows[j]) /\ TakenOf(changed[j]) = TakenOf(rows[j])
    BY <1>2, <1>5, <2>3
  <2>8. \A u : u \in Taken(changed) <=> u \in Taken(rows) /\ u # t
    BY <1>2, <2>1, <2>2, <2>6, <2>7
  <2> QED
    BY <2>8
<1>8. CASE empty(a)
  <2>1. after = MergedRows(changed) /\ Unused(changed[i])
    BY <1>5, <1>8 DEF empty, Unused
  <2>2. /\ after \in Seq(Rows(width)) /\ Stacked(after, height) /\ NoPairs(after)
        /\ Taken(after) = Taken(changed)
        /\ \E j \in 1..Len(after) : Unused(after[j]) /\ changed[i].height <= after[j].height
    <3>1. i \in 1..Len(changed)
      BY <1>2, <1>5
    <3> HIDE DEF after
    <3> QED
      BY <1>5, <2>1, <3>1, MergedRowsOK, ZenonT(20)
  <2> HIDE DEF after
  <2>3. PICK j \in 1..Len(after) : Unused(after[j]) /\ t.height <= after[j].height
    BY <1>2, <1>5, <2>2
  <2>4. AllocatorOK(after[j].spaces, width) /\ after[j].height \in Nat
    BY <2>2, RowsMembers
  <2>5. after[j].spaces.available = width
    BY <2>3, <2>4, AllAvailable DEF Unused
  <2>6. t.space.width <= width
    <3>1. t.space.x + t.space.width <= width
      BY <1>2, <1>3 DEF AllocatorOK
    <3> QED
      BY <1>6, <3>1 DEF Spaces
  <2>7. ASSUME NEW w \in Nat, NEW h \in Nat, w <= t.space.width, h <= t.height
        PROVE  BestRow(after, w, h) # 0
    <3>1. w <= width /\ h <= after[j].height
      BY <1>6, <2>3, <2>4, <2>6, <2>7
    <3>2. HasSpace(after[j].spaces, w)
      BY <2>3, <2>5, <3>1 DEF HasSpace, Unused, empty
    <3> QED
      BY <2>2, <3>1, <3>2, BestRowFits
  <2>8. after # <<>>
    BY <2>3
  <2> QED
    BY <1>7, <2>2, <2>7, <2>8, ZenonT(20) DEF RowsOK, RowsShrink, after, changed, a, i
<1>9. CASE ~empty(a)
  <2>1. after = changed
    BY <1>5, <1>9
  <2>2. NoPairs(changed)
    <3> SUFFICES ASSUME NEW j \in 1..Len(rows) - 1
                 PROVE  ~(Unused(changed[j]) /\ Unused(changed[j + 1]))
      BY <1>5 DEF NoPairs
    <3>1. j \in 1..Len(rows) /\ j + 1 \in 1..Len(rows)
      BY <1>3
    <3>2. ~Unused(changed[i])
      BY <1>5, <1>9 DEF Unused, empty
    <3>3. CASE j # i /\ j + 1 # i
      BY <1>1, <1>5, <3>1, <3>3 DEF NoPairs
    <3> QED
      BY <3>2, <3>3
  <2>3. ASSUME NEW w \in Nat, NEW h \in Nat, w <= t.space.width, h <= t.height
        PROVE  BestRow(changed, w, h) # 0
    <3>1. a.available \in Nat /\ a.free \in Seq(Spaces)
      BY <1>4 DEF AllocatorOK, Allocators
    <3>2. PICK k \in DOMAIN a.free : t.space.width <= a.free[k].width
      BY <1>4
    <3>3. a.free[k].width \in Nat
      <4>1. a.free[k] \in Spaces
        BY <3>1, <3>2
      <4> QED
        BY <4>1 DEF Spaces
    <3>4. w <= a.available /\ w <= a.free[k].width
      BY <1>4, <1>6, <2>3, <3>1, <3>2, <3>3
    <3>5. HasSpace(changed[i].spaces, w) /\ h <= changed[i].height
      BY <1>2, <1>5, <2>3, <3>2, <3>4 DEF HasSpace
    <3> QED
      BY <1>2, <1>5, <3>5, BestRowFits
  <2>4. changed # <<>>
    BY <1>2, <1>5
  <2> HIDE DEF after
  <2> QED
    BY <1>5, <1>7, <2>1, <2>2, <2>3, <2>4, ZenonT(20) DEF RowsOK, RowsShrink, after, changed, a, i
<1> QED
  BY <1>8, <1>9

-----------------------------------------------------------------------------
(* The pixels taken *)

(* The pixels that are taken *)
Block(t) == Cells(t.space) \X (t.y .. t.y + t.height - 1)
Cover(T) == UNION {Block(t) : t \in T}

Separate(t, u) ==
  \/ LeftOf(t.space, u.space) \/ LeftOf(u.space, t.space)
  \/ t.y + t.height <= u.y \/ u.y + u.height <= t.y

(* A fragment takes as many pixels as its space is wide times its row is high. *)
LEMMA BlockSize ==
  ASSUME NEW t \in Takings
  PROVE  /\ IsFiniteSet(Block(t)) /\ Cardinality(Block(t)) = t.space.width * t.height
         /\ Block(t) # {}
<1>1. t.y \in Nat /\ t.height \in Nat \ {0} /\ t.space \in Spaces
  BY DEF Takings
<1>2. t.space.x \in Nat /\ t.space.width \in Nat \ {0}
  BY <1>1 DEF Spaces
<1>3. IsFiniteSet(Cells(t.space)) /\ Cardinality(Cells(t.space)) = t.space.width
  BY <1>2, WidthOf, ZenonT(20) DEF Cells
<1>4. IsFiniteSet(t.y .. t.y + t.height - 1) /\ Cardinality(t.y .. t.y + t.height - 1) = t.height
  BY <1>1, WidthOf
<1>5. /\ IsFiniteSet(Block(t))
      /\ Cardinality(Block(t)) = Cardinality(Cells(t.space)) * Cardinality(t.y .. t.y + t.height - 1)
  BY <1>3, <1>4, FS_Product, ZenonT(20) DEF Block
<1>6. t.space.x \in Cells(t.space) /\ t.y \in t.y .. t.y + t.height - 1
  BY <1>1, <1>2 DEF Cells
<1>7. <<t.space.x, t.y>> \in Block(t)
  BY <1>6 DEF Block
<1> QED
  BY <1>3, <1>4, <1>5, <1>7

(* Fragments apart share no pixel. *)
LEMMA BlocksApart ==
  ASSUME NEW t \in Takings, NEW u \in Takings, Separate(t, u)
  PROVE  Block(t) \cap Block(u) = {}
<1>1. \A v \in Takings : v.y \in Nat /\ v.height \in Nat \ {0} /\ v.space \in Spaces
  BY DEF Takings
<1>2. ASSUME NEW p, p \in Block(t), p \in Block(u)
      PROVE  FALSE
  <2>1. /\ p[1] \in Cells(t.space) /\ p[1] \in Cells(u.space)
        /\ p[2] \in t.y .. t.y + t.height - 1 /\ p[2] \in u.y .. u.y + u.height - 1
    BY <1>2 DEF Block
  <2>2. /\ p[1] \in Nat /\ t.space.x <= p[1] /\ p[1] < t.space.x + t.space.width
        /\ u.space.x <= p[1] /\ p[1] < u.space.x + u.space.width
    BY <1>1, <2>1, CellsMembers
  <2>3. t.space.x + t.space.width \in Nat /\ u.space.x + u.space.width \in Nat
        /\ t.space.x \in Nat /\ u.space.x \in Nat
    <3>1. \A s \in Spaces : s.x \in Nat /\ s.x + s.width \in Nat
      BY DEF Spaces
    <3> QED
      BY <1>1, <3>1
  <2>4. ~LeftOf(t.space, u.space) /\ ~LeftOf(u.space, t.space)
    <3>1. \A a, b, c, d, q \in Nat : a <= q /\ q < b /\ c <= q /\ q < d => ~(b <= c) /\ ~(d <= a)
      OBVIOUS
    <3> QED
      BY <2>2, <2>3, <3>1 DEF LeftOf
  <2>5. ~(t.y + t.height <= u.y) /\ ~(u.y + u.height <= t.y)
    <3>1. t.y \in Nat /\ t.height \in Nat /\ u.y \in Nat /\ u.height \in Nat
      BY <1>1
    <3> QED
      BY <2>1, <3>1
  <2> QED
    BY <2>4, <2>5 DEF Separate
<1> QED
  BY <1>2

(* What one thing more, or less, makes of the pixels taken *)
LEMMA CoverMore ==
  ASSUME NEW T \in SUBSET Takings, IsFiniteSet(Cover(T)), NEW t \in Takings, \A u \in T : Separate(t, u)
  PROVE  /\ IsFiniteSet(Cover(T \cup {t})) /\ Cardinality(Cover(T)) \in Nat
         /\ Cardinality(Cover(T \cup {t})) = Cardinality(Cover(T)) + t.space.width * t.height
<1>1. Cover(T \cup {t}) = Cover(T) \cup Block(t)
  BY DEF Cover
<1>2. IsFiniteSet(Block(t)) /\ Cardinality(Block(t)) = t.space.width * t.height
  BY BlockSize
<1>3. Cover(T) \cap Block(t) = {}
  <2>1. \A u \in T : Block(t) \cap Block(u) = {}
    BY BlocksApart
  <2> QED
    BY <2>1 DEF Cover
<1>4. Cardinality({}) = 0
  BY FS_EmptySet
<1>5. /\ IsFiniteSet(Cover(T) \cup Block(t))
      /\ Cardinality(Cover(T) \cup Block(t)) =
           Cardinality(Cover(T)) + Cardinality(Block(t)) - Cardinality(Cover(T) \cap Block(t))
  BY <1>2, FS_Union
<1>6. Cardinality(Cover(T)) \in Nat /\ Cardinality(Block(t)) \in Nat
  BY <1>2, FS_CardinalityType
<1>7. Cardinality(Cover(T \cup {t})) = Cardinality(Cover(T)) + Cardinality(Block(t))
  <2>1. \A a, b \in Nat : a + b - 0 = a + b
    OBVIOUS
  <2> QED
    BY <1>1, <1>3, <1>4, <1>5, <1>6, <2>1, ZenonT(20)
<1> QED
  BY <1>1, <1>2, <1>5, <1>6, <1>7, ZenonT(20)

(* Only without fragments is no pixel taken. *)
LEMMA CoverEmpty ==
  ASSUME NEW T \in SUBSET Takings, IsFiniteSet(Cover(T))
  PROVE  Cardinality(Cover(T)) = 0 <=> T = {}
<1>1. Cover(T) = {} <=> T = {}
  <2>1. \A t \in T : Block(t) # {}
    BY BlockSize
  <2> QED
    BY <2>1 DEF Cover
<1> QED
  BY <1>1, FS_EmptySet

(* The pixels taken are those of the map's rows. *)
LEMMA CoverFinite ==
  ASSUME NEW width \in Nat, NEW height \in Nat, NEW rows, RowsOK(rows, width, height)
  PROVE  /\ Taken(rows) \in SUBSET Takings /\ Cover(Taken(rows)) \subseteq (0..width - 1) \X (0..height - 1)
         /\ IsFiniteSet(Cover(Taken(rows)))
         /\ \A t, u \in Taken(rows) : t = u \/ Separate(t, u)
<1>1. Taken(rows) \in SUBSET Takings
  BY TakenMembers DEF RowsOK
<1>2. ASSUME NEW t \in Taken(rows)
      PROVE  Block(t) \subseteq (0..width - 1) \X (0..height - 1)
  <2>1. t.y \in Nat /\ t.height \in Nat /\ t.space \in Spaces
    BY <1>1 DEF Takings
  <2>2. t.space.x \in Nat /\ t.space.width \in Nat
    BY <2>1 DEF Spaces
  <2>3. t.space.x + t.space.width <= width /\ t.y + t.height <= height
    BY TakenApart
  <2>4. ASSUME NEW c \in Cells(t.space)
        PROVE  c \in 0..width - 1
    <3>1. c \in Nat /\ c < t.space.x + t.space.width
      BY <2>1, CellsMembers
    <3> QED
      BY <2>2, <2>3, <3>1
  <2>5. ASSUME NEW c \in t.y .. t.y + t.height - 1
        PROVE  c \in 0..height - 1
    BY <2>1, <2>3
  <2> QED
    BY <2>4, <2>5 DEF Block
<1>3. Cover(Taken(rows)) \subseteq (0..width - 1) \X (0..height - 1)
  BY <1>2 DEF Cover
<1>4. IsFiniteSet((0..width - 1) \X (0..height - 1))
  <2>1. IsFiniteSet(0..width - 1) /\ IsFiniteSet(0..height - 1)
    BY FS_Interval
  <2> QED
    BY <2>1, FS_Product, ZenonT(20)
<1>5. IsFiniteSet(Cover(Taken(rows)))
  BY <1>3, <1>4, FS_Subset
<1>6. \A t, u \in Taken(rows) : t = u \/ Separate(t, u)
  BY TakenApart DEF Separate
<1> QED
  BY <1>1, <1>3, <1>5, <1>6

(* The pixels that the fragments take are those that MapsTile counts. *)
LEMMA CoverAllocated ==
  ASSUME NEW m, m.w \in Nat, m.h \in Nat, RowsOK(m.rows, m.w, m.h)
  PROVE  Allocated(m) = Cover(Taken(m.rows))
<1> DEFINE all == (0..m.w - 1) \X (0..m.h - 1)
           rows == m.rows
<1>1. rows \in Seq(Rows(m.w)) /\ DOMAIN rows = 1..Len(rows)
  BY RowsMembers DEF RowsOK
<1>2. Cover(Taken(rows)) \subseteq all
  BY CoverFinite
<1>3. ASSUME NEW p \in all
      PROVE  p \in Cover(Taken(rows)) <=>
               \E i \in 1..Len(rows) : p[2] \in rows[i].y .. rows[i].y + rows[i].height - 1
                                       /\ p[1] \in Columns(rows[i].spaces.used)
  <2>0. p = <<p[1], p[2]>>
    OBVIOUS
  <2>1. p \in Cover(Taken(rows)) <=> \E i \in 1..Len(rows) : \E t \in TakenOf(rows[i]) : p \in Block(t)
    BY ZenonT(20) DEF Cover, Taken
  <2>2. ASSUME NEW i \in 1..Len(rows)
        PROVE  (\E t \in TakenOf(rows[i]) : p \in Block(t)) <=>
                 p[2] \in rows[i].y .. rows[i].y + rows[i].height - 1 /\ p[1] \in Columns(rows[i].spaces.used)
    <3> DEFINE r == rows[i]
    <3> HIDE DEF r
    <3>1. \A t : t \in TakenOf(r) <=> \E s \in r.spaces.used : t = [y |-> r.y, height |-> r.height, space |-> s]
      BY DEF TakenOf
    <3>2. p[1] \in Columns(r.spaces.used) <=> \E s \in r.spaces.used : p[1] \in Cells(s)
      BY DEF Columns, Cells
    <3>3. ASSUME NEW s
          PROVE  p \in Block([y |-> r.y, height |-> r.height, space |-> s]) <=>
                   p[1] \in Cells(s) /\ p[2] \in r.y .. r.y + r.height - 1
      BY <2>0 DEF Block
    <3>4. (\E t \in TakenOf(r) : p \in Block(t)) <=>
            p[2] \in r.y .. r.y + r.height - 1 /\ p[1] \in Columns(r.spaces.used)
      BY <3>1, <3>2, <3>3, ZenonT(20)
    <3> QED
      BY <3>4 DEF r
  <2> QED
    BY <2>1, <2>2, ZenonT(20)
<1>4. Allocated(m) = {p \in all : \E i \in 1..Len(rows) :
                        p[2] \in rows[i].y .. rows[i].y + rows[i].height - 1 /\ p[1] \in Columns(rows[i].spaces.used)}
  BY <1>1 DEF Allocated
<1> HIDE DEF all, rows
<1> QED
  BY <1>2, <1>3, <1>4 DEF rows

-----------------------------------------------------------------------------
(* Maps *)

AllRows == UNION {Seq(Rows(width)) : width \in Nat}

MapRecords == [name : Name, w : Nat \ {0}, h : Nat \ {0}, rows : AllRows, allocated : Nat,
               buffer : SUBSET Pixels, bitmap : Bitmap \cup {NULL}, need_update : BOOLEAN]

(* The inductive invariant of a map *)
Maps ==
  {m \in MapRecords :
     /\ RowsOK(m.rows, m.w, m.h)
     /\ m.allocated = Cardinality(Cover(Taken(m.rows)))
     /\ m.bitmap = NULL /\ ~m.need_update => Taken(m.rows) = {}
     /\ m.bitmap # NULL /\ ~m.need_update => m.buffer \subseteq m.bitmap.pixels}

(* What a fragment takes; whether a rectangle is inside of that; the border *)
TakenBy(f) == [y |-> f.y, height |-> f.row_height, space |-> f.space]

Within(r, t) ==
  /\ t.space.x <= r.x /\ r.x + r.w <= t.space.x + t.space.width
  /\ t.y <= r.y /\ r.y + r.h <= t.y + t.height

Edged(f) ==
  \E b \in {0, 1} : /\ f.rect.x = f.space.x + b /\ f.space.width = f.rect.w + 2 * b
                    /\ f.rect.y = f.y + b /\ f.rect.h + 2 * b <= f.row_height

(* The fields of a map *)
LEMMA MapFields ==
  ASSUME NEW m \in Maps
  PROVE  /\ m.name \in Name /\ m.w \in Nat \ {0} /\ m.h \in Nat \ {0} /\ m.allocated \in Nat
         /\ m.buffer \in SUBSET Pixels /\ m.bitmap \in Bitmap \cup {NULL} /\ m.need_update \in BOOLEAN
         /\ RowsOK(m.rows, m.w, m.h) /\ m.rows # <<>> /\ m.rows \in AllRows
         /\ m.rows \in Seq(Rows(m.w)) /\ Taken(m.rows) \in SUBSET Takings
         /\ m.allocated = Cardinality(Cover(Taken(m.rows)))
         /\ m.allocated = 0 <=> Taken(m.rows) = {}
<1>1. m \in MapRecords /\ RowsOK(m.rows, m.w, m.h) /\ m.allocated = Cardinality(Cover(Taken(m.rows)))
  BY DEF Maps
<1>2. /\ m.name \in Name /\ m.w \in Nat \ {0} /\ m.h \in Nat \ {0} /\ m.allocated \in Nat
      /\ m.buffer \in SUBSET Pixels /\ m.bitmap \in Bitmap \cup {NULL} /\ m.need_update \in BOOLEAN
      /\ m.rows \in AllRows
  BY <1>1 DEF MapRecords
<1>3. m.rows # <<>> /\ m.rows \in Seq(Rows(m.w))
  BY <1>1 DEF RowsOK
<1>4. Taken(m.rows) \in SUBSET Takings /\ IsFiniteSet(Cover(Taken(m.rows)))
  BY <1>1, <1>2, CoverFinite
<1>5. m.allocated = 0 <=> Taken(m.rows) = {}
  BY <1>1, <1>4, CoverEmpty
<1> QED
  BY <1>1, <1>2, <1>3, <1>4, <1>5

RoomFor(rows, width, height) == \A w, h \in Nat : w <= width /\ h <= height => BestRow(rows, w, h) # 0

(* A new map, with its row, has room for whatever is no larger. *)
LEMMA NewMapBase ==
  ASSUME NEW name \in Name, NEW width \in Nat \ {0}, NEW height \in Nat \ {0}
  PROVE  LET map == NewMap(name, width, height)
             m == Base(map)
         IN  /\ m \in Maps /\ m.name = name /\ m.w = width /\ m.h = height /\ Taken(m.rows) = {}
             /\ map.w = width /\ map.h = height /\ RoomFor(m.rows, width, height)
<1> DEFINE map == NewMap(name, width, height)
           rows == <<Row(0, height, width)>>
           m == [map EXCEPT !.rows = rows]
<1>1. /\ RowsOK(rows, width, height) /\ Taken(rows) = {}
      /\ RoomFor(rows, width, height)
  BY NewRowsOK DEF RoomFor
<1>2. rows \in AllRows
  BY <1>1 DEF RowsOK, AllRows
<1>3. Cardinality(Cover({})) = 0
  <2>1. Cover({}) = {}
    BY DEF Cover
  <2> QED
    BY <2>1, FS_EmptySet
<1>4. map.rows = <<>> /\ map.w = width /\ map.h = height
  BY DEF NewMap
<1>5. Base(map) = m
  BY <1>4 DEF Base
<1> HIDE DEF rows
<1>6. /\ map \in [name : Name, w : Nat \ {0}, h : Nat \ {0}, rows : {<<>>}, allocated : Nat,
                  buffer : SUBSET Pixels, bitmap : Bitmap \cup {NULL}, need_update : BOOLEAN]
      /\ map.name = name /\ map.allocated = 0 /\ map.bitmap = NULL /\ map.need_update = FALSE
  BY DEF NewMap
<1> HIDE DEF map
<1>7. /\ m \in MapRecords /\ m.name = name /\ m.w = width /\ m.h = height /\ m.rows = rows
      /\ m.allocated = 0 /\ m.bitmap = NULL /\ m.need_update = FALSE
  BY <1>2, <1>4, <1>6 DEF MapRecords
<1> HIDE DEF m
<1>8. m \in Maps
  BY <1>1, <1>3, <1>7 DEF Maps
<1> QED
  BY <1>1, <1>4, <1>5, <1>7, <1>8 DEF map

(* What Uploaded and DeleteBitmaps do to a map *)
LEMMA UploadedOK ==
  ASSUME NEW m \in Maps
  PROVE  LET u == Uploaded(m)
         IN  /\ u \in Maps /\ u.name = m.name /\ u.w = m.w /\ u.h = m.h
             /\ u.rows = m.rows /\ u.buffer = m.buffer
             /\ (m.bitmap # NULL \/ m.need_update \/ Taken(m.rows) # {}) =>
                  u.bitmap # NULL /\ m.buffer \subseteq u.bitmap.pixels
<1>1. m \in MapRecords /\ NULL \notin Bitmap /\ m.buffer \in SUBSET Pixels
  BY MapFields, NullAssumption DEF Maps
<1> DEFINE after == [m EXCEPT !.bitmap = [pixels |-> m.buffer], !.need_update = FALSE]
<1>2. CASE m.need_update
  <2>1. [pixels |-> m.buffer] \in Bitmap
    BY <1>1 DEF Bitmap
  <2>2. after \in MapRecords
    BY <1>1, <2>1, ZenonT(20) DEF MapRecords
  <2>3. /\ after.name = m.name /\ after.w = m.w /\ after.h = m.h /\ after.rows = m.rows
        /\ after.buffer = m.buffer /\ after.allocated = m.allocated
        /\ after.bitmap = [pixels |-> m.buffer] /\ after.need_update = FALSE
    BY <1>1 DEF MapRecords
  <2>4. Uploaded(m) = after
    BY <1>2 DEF Uploaded
  <2> HIDE DEF after
  <2>5. after.bitmap # NULL /\ after.bitmap.pixels = m.buffer
    BY <1>1, <2>1, <2>3
  <2>6. after \in Maps
    BY <2>2, <2>3, <2>5 DEF Maps
  <2> QED
    BY <2>3, <2>4, <2>5, <2>6
<1>3. CASE ~m.need_update
  <2>1. Uploaded(m) = m
    BY <1>3 DEF Uploaded
  <2> QED
    BY <1>3, <2>1 DEF Maps
<1> QED
  BY <1>2, <1>3

(* A map without its bitmap has its rows and data still. *)
LEMMA DeleteBitmapsOK ==
  ASSUME NEW m \in Maps
  PROVE  LET d == DeleteBitmaps(m)
         IN  /\ d \in Maps /\ d.name = m.name /\ d.w = m.w /\ d.h = m.h
             /\ d.rows = m.rows /\ d.buffer = m.buffer
<1> DEFINE d == [m EXCEPT !.bitmap = NULL, !.need_update = TRUE]
<1>1. m \in MapRecords
  BY DEF Maps
<1>2. /\ d \in MapRecords /\ d.name = m.name /\ d.w = m.w /\ d.h = m.h /\ d.rows = m.rows
      /\ d.buffer = m.buffer /\ d.allocated = m.allocated /\ d.bitmap = NULL /\ d.need_update = TRUE
  BY <1>1, ZenonT(20) DEF MapRecords
<1>3. d = DeleteBitmaps(m)
  BY DEF DeleteBitmaps
<1> HIDE DEF d
<1>4. d \in Maps
  BY <1>2 DEF Maps
<1> QED
  BY <1>2, <1>3, <1>4

(* An image inside of one thing taken is apart from an area inside of another. *)
LEMMA WithinApart ==
  ASSUME NEW t \in Takings, NEW u \in Takings, Separate(t, u), NEW r \in Rect, Within(r, t), NEW h \in Nat, h <= u.height
  PROVE  Apart(r, [x |-> u.space.x, y |-> u.y, w |-> u.space.width, h |-> h])
<1>1. r.x \in Nat /\ r.y \in Nat /\ r.w \in Nat /\ r.h \in Nat
  BY DEF Rect
<1>2. \A v \in Takings : /\ v.y \in Nat /\ v.height \in Nat
                         /\ v.space.x \in Nat /\ v.space.width \in Nat
  BY DEF Takings, Spaces
<1>3. /\ t.y \in Nat /\ t.height \in Nat /\ t.space.x \in Nat /\ t.space.width \in Nat
      /\ u.y \in Nat /\ u.height \in Nat /\ u.space.x \in Nat /\ u.space.width \in Nat
  BY <1>2
<1>4. CASE LeftOf(t.space, u.space)
  BY <1>1, <1>3, <1>4 DEF LeftOf, Within, Apart
<1>5. CASE LeftOf(u.space, t.space)
  BY <1>1, <1>3, <1>5 DEF LeftOf, Within, Apart
<1>6. CASE t.y + t.height <= u.y
  BY <1>1, <1>3, <1>6 DEF Within, Apart
<1>7. CASE u.y + u.height <= t.y
  BY <1>1, <1>3, <1>7 DEF Within, Apart
<1> QED
  BY <1>4, <1>5, <1>6, <1>7 DEF Separate

(* A fragment is put into a map: it takes what nothing else does, its image is
   whole there, and those inside of what others take remain so. *)
Placed(frag, after, m, id) ==
  /\ frag \in Record /\ frag.map = m.name /\ Edged(frag)
  /\ TakenBy(frag) \notin Taken(m.rows) /\ Taken(after.rows) = Taken(m.rows) \cup {TakenBy(frag)}
  /\ ImageAt(id, frag.rect) \in after.buffer
  /\ \A p \in m.buffer : (\E t \in Taken(m.rows) : Within(p.rect, t)) => p \in after.buffer

(* CreateInMap gives the fragment a space of its own, or leaves the map alone. *)
LEMMA CreateInMapOK ==
  ASSUME NEW map, Base(map) \in Maps, NEW id \in Fragment,
         NEW size \in [w : Nat \ {0}, h : Nat \ {0}], NEW add
  PROVE  LET got == CreateInMap(map, id, size, add)
             m == Base(map)
             b == Border(map, size, add)
         IN  /\ got.map \in Maps /\ got.map.name = m.name /\ got.map.bitmap = m.bitmap
             /\ got.frag = NULL <=> BestRow(m.rows, size.w + 2 * b, size.h + 2 * b) = 0
             /\ got.frag = NULL => got.map = m
             /\ got.frag # NULL => Placed(got.frag, got.map, m, id)
<1> DEFINE m == Base(map)
           b == Border(map, size, add)
           w == size.w + 2 * b
           h == size.h + 2 * b
           i == BestRow(m.rows, w, h)
           rows == Sliced(m.rows, i, h, m.w)
           got == AllocSpace(rows[i].spaces, w)
           space == got.space
           more == [rows EXCEPT ![i].spaces = got.allocator]
           area == [x |-> space.x, y |-> rows[i].y, w |-> w, h |-> h]
           rect == [x |-> space.x + b, y |-> rows[i].y + b, w |-> size.w, h |-> size.h]
           frag == [map |-> m.name, y |-> rows[i].y, space |-> space, rect |-> rect,
                    row_height |-> rows[i].height, in_batch |-> FALSE]
           buffer == {p \in m.buffer : Apart(p.rect, area)} \cup {ImageAt(id, rect)}
           after == [m EXCEPT !.rows = more, !.buffer = buffer, !.need_update = TRUE,
                              !.allocated = m.allocated + w * rows[i].height]
           t == [y |-> rows[i].y, height |-> rows[i].height, space |-> space]
           result == CreateInMap(map, id, size, add)
<1>1. b \in {0, 1} /\ size.w \in Nat \ {0} /\ size.h \in Nat \ {0}
  BY DEF Border
<1>2. w \in Nat \ {0} /\ h \in Nat \ {0} /\ w = size.w + 2 * b /\ h = size.h + 2 * b
  <2> HIDE DEF b
  <2> QED
    BY <1>1
<1>3. result = IF i = 0 THEN [map |-> m, frag |-> NULL]
               ELSE IF space = NoSpace THEN [map |-> [m EXCEPT !.rows = rows], frag |-> NULL]
               ELSE [map |-> after, frag |-> frag]
  BY DEF CreateInMap
<1>4. m \in Maps
  OBVIOUS
<1> HIDE DEF m, b, w, h
<1>5. CASE i = 0
  <2>1. result.map = m /\ result.frag = NULL
    BY <1>3, <1>5
  <2> QED
    BY <1>4, <1>5, <2>1 DEF m, b, w, h
<1>6. CASE i # 0
  <2>1. /\ RowsOK(m.rows, m.w, m.h) /\ m.w \in Nat \ {0} /\ m.h \in Nat \ {0} /\ m.name \in Name
        /\ m.allocated \in Nat /\ m.buffer \in SUBSET Pixels
        /\ Taken(m.rows) \in SUBSET Takings /\ m.allocated = Cardinality(Cover(Taken(m.rows)))
        /\ m \in MapRecords
    BY <1>4, MapFields DEF Maps
  <2>2. /\ space # NoSpace /\ RowsOK(more, m.w, m.h)
        /\ t \in Takings /\ t \notin Taken(m.rows) /\ Taken(more) = Taken(m.rows) \cup {t}
        /\ space.width = w /\ h <= rows[i].height
    <3>1. RowsGrow(m.rows, m.w, m.h, w, h)
      BY <1>2, <1>6, <2>1, RowsCreated
    <3> QED
      BY <3>1, ZenonT(20) DEF RowsGrow
  <2> HIDE DEF i, rows, got, space, more, result, frag, after
  <2>3. result.map = after /\ result.frag = frag
    BY <1>3, <1>6, <2>2
  <2>4. rows[i].y \in Nat /\ rows[i].height \in Nat \ {0} /\ space \in Spaces
    BY <2>2 DEF Takings
  <2>5. space.x \in Nat /\ space.width \in Nat \ {0}
    BY <2>4 DEF Spaces
  <2>6. rect \in Rect /\ rect.x = space.x + b /\ rect.y = rows[i].y + b /\ rect.w = size.w /\ rect.h = size.h
    BY <1>1, <2>4, <2>5 DEF Rect
  <2> HIDE DEF rect
  <2>7. /\ frag \in Record /\ frag.map = m.name /\ frag.rect = rect /\ frag.space = space
        /\ frag.y = rows[i].y /\ frag.row_height = rows[i].height
    BY <2>1, <2>4, <2>6 DEF Record, Spaces, frag
  <2>8. TakenBy(frag) = t
    BY <2>7 DEF TakenBy
  <2>9. Edged(frag)
    BY <1>1, <1>2, <2>2, <2>6, <2>7 DEF Edged
  <2>10. ImageAt(id, rect) \in Pixels
    BY <2>6 DEF ImageAt, Pixels
  <2>11. more \in AllRows
    BY <2>1, <2>2, ZenonT(20) DEF RowsOK, AllRows
  <2>12. \A u \in Taken(m.rows) : Separate(t, u)
    <3>1. \A u, v \in Taken(more) : u = v \/ Separate(u, v)
      BY <2>1, <2>2, CoverFinite
    <3> QED
      BY <2>2, <3>1
  <2>13. m.allocated + w * rows[i].height = Cardinality(Cover(Taken(more)))
    <3>1. IsFiniteSet(Cover(Taken(m.rows)))
      BY <2>1, CoverFinite
    <3>2. t.space.width = w /\ t.height = rows[i].height
      BY <2>2
    <3> HIDE DEF t
    <3>3. Cardinality(Cover(Taken(m.rows) \cup {t})) = Cardinality(Cover(Taken(m.rows))) + t.space.width * t.height
      BY <2>1, <2>2, <2>12, <3>1, CoverMore
    <3> QED
      BY <2>1, <2>2, <3>2, <3>3
  <2>14. m.allocated + w * rows[i].height \in Nat
    <3>1. \A c, d \in Nat : c * d \in Nat
      OBVIOUS
    <3>2. w * rows[i].height \in Nat
      BY <1>2, <2>4, <3>1
    <3> HIDE DEF w
    <3> QED
      BY <2>1, <3>2
  <2> DEFINE sum == m.allocated + w * rows[i].height
  <2>15. buffer \in SUBSET Pixels /\ ImageAt(id, rect) \in buffer
    BY <2>1, <2>10
  <2>16. \A p \in m.buffer : (\E u \in Taken(m.rows) : Within(p.rect, u)) => p \in buffer
    <3> SUFFICES ASSUME NEW p \in m.buffer, NEW u \in Taken(m.rows), Within(p.rect, u)
                 PROVE  Apart(p.rect, area)
      OBVIOUS
    <3>1. p.rect \in Rect
      BY <2>1 DEF Pixels
    <3>2. Separate(u, t) /\ u \in Takings
      BY <2>1, <2>12 DEF Separate
    <3>3. area = [x |-> t.space.x, y |-> t.y, w |-> t.space.width, h |-> h] /\ h <= t.height
      BY <2>2
    <3> HIDE DEF area, t
    <3>4. Apart(p.rect, [x |-> t.space.x, y |-> t.y, w |-> t.space.width, h |-> h])
      BY <1>2, <2>2, <3>1, <3>2, <3>3, WithinApart
    <3> QED
      BY <3>3, <3>4
  <2>17. after = [m EXCEPT !.rows = more, !.buffer = buffer, !.need_update = TRUE, !.allocated = sum]
    BY DEF after
  <2> HIDE DEF buffer, sum
  <2>18. /\ after \in MapRecords /\ after.rows = more /\ after.buffer = buffer /\ after.need_update = TRUE
         /\ after.allocated = sum /\ after.name = m.name /\ after.bitmap = m.bitmap
         /\ after.w = m.w /\ after.h = m.h
    <3>1. sum \in Nat
      BY <2>14 DEF sum
    <3> QED
      BY <2>1, <2>11, <2>15, <2>17, <3>1, ZenonT(20) DEF MapRecords
  <2>19. after \in Maps
    BY <2>2, <2>13, <2>18, ZenonT(20) DEF Maps, sum
  <2>20. Placed(frag, after, m, id)
    BY <2>2, <2>7, <2>8, <2>9, <2>15, <2>16, <2>18 DEF Placed
  <2>21. frag # NULL
    BY <2>7, NullAssumption
  <2> HIDE DEF result
  <2> QED
    BY <1>6, <2>3, <2>18, <2>19, <2>20, <2>21 DEF result, m, b, w, h, i
<1> QED
  BY <1>5, <1>6

(* What FreeFragmentSpace does to a map *)
Unplaced(after, m, id, f) ==
  /\ after \in Maps /\ after.name = m.name /\ after.bitmap = m.bitmap
  /\ Taken(after.rows) = Taken(m.rows) \ {TakenBy(f)}
  /\ after.buffer = m.buffer \ {ImageAt(id, f.rect)}
  /\ \A w, h \in Nat : w <= f.space.width /\ h <= f.row_height => BestRow(after.rows, w, h) # 0

(* FreeFragmentSpace takes back that space only. *)
LEMMA FreeFragmentSpaceOK ==
  ASSUME NEW m \in Maps, NEW f \in Record, TakenBy(f) \in Taken(m.rows), NEW id
  PROVE  Unplaced(FreeFragmentSpace(m, id, f), m, id, f)
<1> DEFINE t == TakenBy(f)
           i == RowOf(m, f)
           changed == [m.rows EXCEPT ![i].spaces = FreeSpace(m.rows[i].spaces, f.space)]
           rows == IF empty(changed[i].spaces) THEN MergedRows(changed) ELSE changed
           left == m.allocated - f.space.width * m.rows[i].height
           buffer == m.buffer \ {ImageAt(id, f.rect)}
           after == [m EXCEPT !.rows = rows, !.buffer = buffer, !.allocated = left]
<1>1. FreeFragmentSpace(m, id, f) = after
  BY DEF FreeFragmentSpace
<1>2. /\ RowsOK(m.rows, m.w, m.h) /\ m.w \in Nat \ {0} /\ m.h \in Nat \ {0}
      /\ m.allocated \in Nat /\ m.buffer \in SUBSET Pixels
      /\ Taken(m.rows) \in SUBSET Takings /\ m.allocated = Cardinality(Cover(Taken(m.rows)))
      /\ m \in MapRecords
  BY MapFields DEF Maps
<1>3. t.y = f.y /\ t.height = f.row_height /\ t.space = f.space /\ t \in Taken(m.rows) /\ t \in Takings
  BY <1>2 DEF TakenBy
<1>4. /\ RowsOK(rows, m.w, m.h) /\ Taken(rows) = Taken(m.rows) \ {t}
      /\ \A w, h \in Nat : w <= t.space.width /\ h <= t.height => BestRow(rows, w, h) # 0
  <2>1. i = CHOOSE k \in DOMAIN m.rows : m.rows[k].y = t.y
    BY <1>3 DEF RowOf
  <2>2. RowsShrink(m.rows, m.w, m.h, t)
    BY <1>2, <1>3, RowsFreed
  <2> HIDE DEF t
  <2> QED
    BY <1>3, <2>1, <2>2, ZenonT(20) DEF RowsShrink
<1>5. i \in 1..Len(m.rows) /\ m.rows[i].height = t.height
  <2>1. i = CHOOSE k \in DOMAIN m.rows : m.rows[k].y = t.y
    BY <1>3 DEF RowOf
  <2> HIDE DEF i, t
  <2> QED
    BY <1>2, <1>3, <2>1, RowFound, SMTT(20)
<1> HIDE DEF i, changed, rows, t
<1>6. /\ Taken(rows) \in SUBSET Takings /\ IsFiniteSet(Cover(Taken(rows)))
      /\ \A u \in Taken(rows) : Separate(t, u)
  <2>1. \A u, v \in Taken(m.rows) : u = v \/ Separate(u, v)
    BY <1>2, CoverFinite
  <2>2. IsFiniteSet(Cover(Taken(rows)))
    BY <1>2, <1>4, CoverFinite, ZenonT(20)
  <2> QED
    BY <1>2, <1>3, <1>4, <2>1, <2>2
<1>7. left = Cardinality(Cover(Taken(rows))) /\ left \in Nat
  <2>1. /\ Cardinality(Cover(Taken(rows))) \in Nat
        /\ Cardinality(Cover(Taken(rows) \cup {t})) = Cardinality(Cover(Taken(rows))) + t.space.width * t.height
    BY <1>3, <1>6, CoverMore, ZenonT(20)
  <2>2. Taken(rows) \cup {t} = Taken(m.rows)
    BY <1>3, <1>4
  <2>3. f.space.width * m.rows[i].height = t.space.width * t.height
    BY <1>3, <1>5
  <2>4. t.space.width * t.height \in Nat
    <3>1. t.space.width \in Nat /\ t.height \in Nat
      BY <1>3 DEF Takings, Spaces
    <3>2. \A c, d \in Nat : c * d \in Nat
      OBVIOUS
    <3> QED
      BY <3>1, <3>2
  <2> DEFINE part == t.space.width * t.height
  <2>5. m.allocated = Cardinality(Cover(Taken(rows))) + part
    BY <1>2, <2>1, <2>2, ZenonT(20)
  <2>6. left = m.allocated - part
    BY <2>3
  <2>7. part \in Nat
    BY <2>4
  <2> HIDE DEF part, left
  <2> QED
    BY <2>1, <2>5, <2>6, <2>7
<1>8. rows \in AllRows
  BY <1>2, <1>4, ZenonT(20) DEF RowsOK, AllRows
<1> HIDE DEF left
<1>9. buffer \in SUBSET Pixels /\ buffer \subseteq m.buffer
  BY <1>2
<1>10. /\ after \in MapRecords /\ after.rows = rows /\ after.buffer = buffer /\ after.allocated = left
       /\ after.need_update = m.need_update
       /\ after.name = m.name /\ after.bitmap = m.bitmap /\ after.w = m.w /\ after.h = m.h
  <2> HIDE DEF buffer
  <2> QED
    BY <1>2, <1>7, <1>8, <1>9, ZenonT(20) DEF MapRecords
<1> HIDE DEF after
<1>11. after \in Maps
  <2>1. m.bitmap = NULL /\ ~m.need_update => Taken(m.rows) = {}
    BY DEF Maps
  <2>2. m.bitmap # NULL /\ ~m.need_update => m.buffer \subseteq m.bitmap.pixels
    BY DEF Maps
  <2>3. after.bitmap = NULL /\ ~after.need_update => Taken(after.rows) = {}
    BY <1>4, <1>10, <2>1
  <2>4. after.bitmap # NULL /\ ~after.need_update => after.buffer \subseteq after.bitmap.pixels
    BY <1>9, <1>10, <2>2
  <2> QED
    BY <1>4, <1>7, <1>10, <2>3, <2>4, ZenonT(20) DEF Maps
<1>12. \A w, h \in Nat : w <= f.space.width /\ h <= f.row_height => BestRow(after.rows, w, h) # 0
  BY <1>3, <1>4, <1>10
<1> QED
  BY <1>1, <1>4, <1>10, <1>11, <1>12 DEF Unplaced, t

-----------------------------------------------------------------------------
(* The maps of all managers *)

Batches == [quads : Seq(Pixels), bitmap : Name \cup {NULL}, fragment : Fragment \cup {NULL}]

Graphics == [maps : [Manager -> Seq(Maps)], frags : [Fragment -> Record \cup {NULL}],
             batch : Batches, wrong : SUBSET Pixels]

(* The maps of one manager *)
ListOK(mgr, list) ==
  /\ list \in Seq(Maps)
  /\ \A i \in 1..Len(list) : list[i].name.mgr = mgr
  /\ \A i, j \in 1..Len(list) : list[i].name = list[j].name => i = j
  /\ MapsLimit[mgr] = 0 \/ Len(list) <= MapsLimit[mgr]

MapsOK(g) == g \in Graphics /\ \A mgr \in Manager : ListOK(mgr, g.maps[mgr])

(* The fields of gfx *)
LEMMA GraphicsFields ==
  ASSUME NEW g \in Graphics
  PROVE  /\ g.maps \in [Manager -> Seq(Maps)] /\ g.frags \in [Fragment -> Record \cup {NULL}]
         /\ g.batch \in Batches /\ g.wrong \in SUBSET Pixels
         /\ g.batch.quads \in Seq(Pixels) /\ g.batch.bitmap \in Name \cup {NULL}
         /\ g.batch.fragment \in Fragment \cup {NULL}
<1>1. g.maps \in [Manager -> Seq(Maps)] /\ g.frags \in [Fragment -> Record \cup {NULL}]
      /\ g.batch \in Batches /\ g.wrong \in SUBSET Pixels
  BY DEF Graphics
<1> QED
  BY <1>1 DEF Batches

(* The names are those of the maps, and each finds its map. *)
LEMMA MapFound ==
  ASSUME NEW g, MapsOK(g)
  PROVE  /\ \A name : name \in Names(g) <=>
              \E mgr \in Manager : \E i \in 1..Len(g.maps[mgr]) : name = g.maps[mgr][i].name
         /\ \A name \in Names(g) :
              /\ name \in Name /\ name.mgr \in Manager
              /\ Place(g, name) \in 1..Len(g.maps[name.mgr])
              /\ g.maps[name.mgr][Place(g, name)] = MapNamed(g, name)
              /\ MapNamed(g, name) \in Maps /\ MapNamed(g, name).name = name
         /\ \A mgr \in Manager : \A i \in 1..Len(g.maps[mgr]) :
              /\ g.maps[mgr][i].name \in Names(g) /\ g.maps[mgr][i].name.mgr = mgr
              /\ Place(g, g.maps[mgr][i].name) = i
              /\ MapNamed(g, g.maps[mgr][i].name) = g.maps[mgr][i]
<1>1. \A mgr \in Manager : ListOK(mgr, g.maps[mgr])
  BY DEF MapsOK
<1>2. ASSUME NEW name
      PROVE  name \in Names(g) <=>
               \E mgr \in Manager : \E i \in 1..Len(g.maps[mgr]) : name = g.maps[mgr][i].name
  <2>1. \A mgr \in Manager : \A m : m \in ToSet(g.maps[mgr]) <=> \E i \in 1..Len(g.maps[mgr]) : m = g.maps[mgr][i]
    BY <1>1 DEF ListOK, ToSet
  <2>2. name \in Names(g) <=> \E mgr \in Manager : \E m \in ToSet(g.maps[mgr]) : name = m.name
    BY DEF Names
  <2>3. ASSUME NEW mgr \in Manager
        PROVE  (\E m \in ToSet(g.maps[mgr]) : name = m.name) <=> \E i \in 1..Len(g.maps[mgr]) : name = g.maps[mgr][i].name
    <3> DEFINE list == g.maps[mgr]
    <3>1. \A m : m \in ToSet(list) <=> \E i \in 1..Len(list) : m = list[i]
      BY <2>1, ZenonT(20)
    <3> HIDE DEF list
    <3>2. (\E m \in ToSet(list) : name = m.name) <=> \E i \in 1..Len(list) : name = list[i].name
      BY <3>1
    <3> QED
      BY <3>2 DEF list
  <2> QED
    BY <2>2, <2>3
<1>3. ASSUME NEW mgr \in Manager, NEW i \in 1..Len(g.maps[mgr])
      PROVE  /\ g.maps[mgr][i].name \in Names(g) /\ g.maps[mgr][i].name.mgr = mgr
             /\ Place(g, g.maps[mgr][i].name) = i
             /\ MapNamed(g, g.maps[mgr][i].name) = g.maps[mgr][i]
             /\ g.maps[mgr][i] \in Maps
  <2> DEFINE list == g.maps[mgr]
             name == list[i].name
  <2>1. ListOK(mgr, list)
    BY <1>1
  <2>2. DOMAIN list = 1..Len(list) /\ list[i] \in Maps /\ name.mgr = mgr
        /\ \A j \in 1..Len(list) : list[j].name = name => j = i
    BY <2>1 DEF ListOK
  <2>3. Place(g, name) = CHOOSE j \in DOMAIN list : list[j].name = name
    BY <2>2 DEF Place
  <2> HIDE DEF list
  <2>4. Place(g, name) = i
    BY <2>2, <2>3 DEF list
  <2>5. MapNamed(g, name) = list[i]
    BY <2>2, <2>4 DEF MapNamed, list
  <2> QED
    BY <1>2, <2>2, <2>4, <2>5 DEF list
<1>4. ASSUME NEW name \in Names(g)
      PROVE  /\ name \in Name /\ name.mgr \in Manager
             /\ Place(g, name) \in 1..Len(g.maps[name.mgr])
             /\ g.maps[name.mgr][Place(g, name)] = MapNamed(g, name)
             /\ MapNamed(g, name) \in Maps /\ MapNamed(g, name).name = name
  <2>1. PICK mgr \in Manager : \E i \in 1..Len(g.maps[mgr]) : name = g.maps[mgr][i].name
    BY <1>2
  <2>2. PICK i \in 1..Len(g.maps[mgr]) : name = g.maps[mgr][i].name
    BY <2>1
  <2>3. /\ name.mgr = mgr /\ Place(g, name) = i /\ MapNamed(g, name) = g.maps[mgr][i]
        /\ MapNamed(g, name) \in Maps
    BY <1>3, <2>2
  <2>4. name \in Name
    BY <2>2, <2>3, MapFields
  <2> QED
    BY <2>2, <2>3, <2>4
<1> QED
  BY <1>2, <1>3, <1>4

(* A manager gets another list of maps. *)
ListChanges(g, mgr, list, h) ==
  /\ MapsOK(h) /\ h.frags = g.frags /\ h.batch = g.batch /\ h.wrong = g.wrong
  /\ h.maps[mgr] = list /\ \A other \in Manager \ {mgr} : h.maps[other] = g.maps[other]
  /\ \A i \in 1..Len(list) : list[i].name \in Names(h) /\ MapNamed(h, list[i].name) = list[i]
  /\ \A name : name.mgr # mgr => (name \in Names(h) <=> name \in Names(g))
  /\ \A name \in Names(g) : name.mgr # mgr => MapNamed(h, name) = MapNamed(g, name)
  /\ \A name \in Names(h) : name.mgr = mgr => \E i \in 1..Len(list) : name = list[i].name

(* Another list of maps for one manager: the maps of the others are what they were. *)
LEMMA ListChanged ==
  ASSUME NEW g, MapsOK(g), NEW mgr \in Manager, NEW list, ListOK(mgr, list)
  PROVE  LET h == [g EXCEPT !.maps[mgr] = list]
         IN  ListChanges(g, mgr, list, h)
<1> DEFINE h == [g EXCEPT !.maps[mgr] = list]
<1>1. g \in Graphics /\ list \in Seq(Maps) /\ \A other \in Manager : ListOK(other, g.maps[other])
  BY ZenonT(20) DEF MapsOK, ListOK
<1>2. /\ h \in Graphics /\ h.frags = g.frags /\ h.batch = g.batch /\ h.wrong = g.wrong
      /\ h.maps = [g.maps EXCEPT ![mgr] = list]
  BY <1>1, ZenonT(20) DEF Graphics
<1>3. h.maps[mgr] = list /\ \A other \in Manager \ {mgr} : h.maps[other] = g.maps[other]
  BY <1>1, <1>2, GraphicsFields
<1> HIDE DEF h
<1>4. MapsOK(h)
  BY <1>1, <1>2, <1>3 DEF MapsOK
<1>5. \A i \in 1..Len(list) : list[i].name \in Names(h) /\ MapNamed(h, list[i].name) = list[i]
  BY <1>3, <1>4, MapFound
<1>6. ASSUME NEW name, name.mgr # mgr
      PROVE  name \in Names(h) <=> name \in Names(g)
  <2>1. \A k \in {g, h} : MapsOK(k) => (name \in Names(k) <=>
          \E other \in Manager : \E i \in 1..Len(k.maps[other]) : name = k.maps[other][i].name /\ other = name.mgr)
    BY MapFound
  <2> QED
    BY <1>3, <1>4, <1>6, <2>1
<1>7. ASSUME NEW name \in Names(g), name.mgr # mgr
      PROVE  MapNamed(h, name) = MapNamed(g, name)
  <2>1. name.mgr \in Manager
    BY MapFound
  <2>2. h.maps[name.mgr] = g.maps[name.mgr]
    BY <1>3, <1>7, <2>1
  <2> QED
    BY <2>2 DEF MapNamed, Place
<1>8. ASSUME NEW name \in Names(h), name.mgr = mgr
      PROVE  \E i \in 1..Len(list) : name = list[i].name
  BY <1>3, <1>4, <1>8, MapFound
<1> QED
  BY <1>2, <1>3, <1>4, <1>5, <1>6, <1>7, <1>8, ZenonT(20) DEF h, ListChanges

(* One map is changed. *)
LEMMA SetMapOK ==
  ASSUME NEW g, MapsOK(g), NEW m \in Maps, m.name \in Names(g)
  PROVE  LET h == SetMap(g, m)
         IN  /\ MapsOK(h) /\ h.frags = g.frags /\ h.batch = g.batch /\ h.wrong = g.wrong
             /\ Names(h) = Names(g) /\ MapNamed(h, m.name) = m
             /\ \A name \in Names(g) \ {m.name} : MapNamed(h, name) = MapNamed(g, name)
             /\ \A mgr \in Manager : Len(h.maps[mgr]) = Len(g.maps[mgr])
<1> DEFINE mgr == m.name.mgr
           p == Place(g, m.name)
           old == g.maps[mgr]
           list == [old EXCEPT ![p] = m]
           h == [g EXCEPT !.maps[mgr] = list]
<1>1. mgr \in Manager /\ p \in 1..Len(old) /\ old[p].name = m.name /\ m.name \in Name
      /\ \A i \in 1..Len(old) : old[i].name \in Names(g) /\ MapNamed(g, old[i].name) = old[i]
  BY MapFound
<1>2. ListOK(mgr, old) /\ old \in Seq(Maps) /\ Len(old) \in Nat
  <2>1. ListOK(mgr, old)
    BY <1>1 DEF MapsOK
  <2> HIDE DEF mgr, old
  <2> QED
    BY <2>1 DEF ListOK
<1>3. SetMap(g, m) = h
  BY DEF SetMap
<1>4. /\ list \in Seq(Maps) /\ Len(list) = Len(old) /\ list[p] = m
      /\ \A i \in 1..Len(old) : i # p => list[i] = old[i]
  <2> HIDE DEF p, old
  <2> QED
    BY <1>1, <1>2
<1> HIDE DEF list
<1>5. \A i \in 1..Len(old) : list[i].name = old[i].name
  BY <1>1, <1>4
<1>6. ListOK(mgr, list)
  BY <1>2, <1>4, <1>5 DEF ListOK
<1> HIDE DEF p, old
<1>7. /\ MapsOK(h) /\ h.frags = g.frags /\ h.batch = g.batch /\ h.wrong = g.wrong
      /\ h.maps[mgr] = list /\ \A other \in Manager \ {mgr} : h.maps[other] = g.maps[other]
      /\ \A i \in 1..Len(list) : list[i].name \in Names(h) /\ MapNamed(h, list[i].name) = list[i]
      /\ \A name : name.mgr # mgr => (name \in Names(h) <=> name \in Names(g))
      /\ \A name \in Names(g) : name.mgr # mgr => MapNamed(h, name) = MapNamed(g, name)
      /\ \A name \in Names(h) : name.mgr = mgr => \E i \in 1..Len(list) : name = list[i].name
  <2>1. ListChanges(g, mgr, list, h)
    BY <1>1, <1>6, ListChanged
  <2> HIDE DEF h
  <2> QED
    BY <2>1 DEF ListChanges
<1> HIDE DEF h
<1>8. \A name \in Names(g) : name.mgr = mgr => \E i \in 1..Len(old) : name = old[i].name
  BY MapFound DEF old
<1>9. Names(h) = Names(g)
  <2>1. ASSUME NEW name, name.mgr = mgr
        PROVE  name \in Names(h) <=> name \in Names(g)
    BY <1>1, <1>4, <1>5, <1>7, <1>8, <2>1
  <2> QED
    BY <1>7, <2>1, ZenonT(20)
<1>10. MapNamed(h, m.name) = m
  BY <1>1, <1>4, <1>5, <1>7
<1>11. ASSUME NEW name \in Names(g) \ {m.name}
       PROVE  MapNamed(h, name) = MapNamed(g, name)
  <2>1. CASE name.mgr # mgr
    BY <1>7, <2>1
  <2>2. CASE name.mgr = mgr
    <3>1. PICK i \in 1..Len(old) : name = old[i].name
      BY <1>8, <2>2
    <3>2. i # p /\ list[i] = old[i] /\ i \in 1..Len(list)
      BY <1>1, <1>4, <3>1
    <3> QED
      BY <1>1, <1>7, <3>1, <3>2
  <2> QED
    BY <2>1, <2>2
<1>12. \A other \in Manager : Len(h.maps[other]) = Len(g.maps[other])
  BY <1>4, <1>7, ZenonT(20) DEF old
<1> HIDE DEF mgr
<1> QED
  BY <1>3, <1>7, <1>9, <1>10, <1>11, <1>12

(* There is a number that no map of a manager has. *)
LEMMA NewNameOK ==
  ASSUME NEW g, MapsOK(g), NEW mgr \in Manager
  PROVE  NewName(g, mgr) \in Name /\ NewName(g, mgr).mgr = mgr /\ NewName(g, mgr) \notin Names(g)
<1> DEFINE list == g.maps[mgr]
           n == Len(list)
           T == {k \in 1..n + 1 : Named(mgr, k) \notin Names(g)}
           f == [k \in 1..n + 1 |-> CHOOSE i \in 1..n : list[i].name = Named(mgr, k)]
<1>1. ListOK(mgr, list) /\ n \in Nat
  BY DEF MapsOK, ListOK
<1>2. \A k \in Nat : Named(mgr, k) \in Name /\ Named(mgr, k).mgr = mgr /\ Named(mgr, k).n = k
  BY DEF Named, Name
<1>3. T # {}
  <2> SUFFICES ASSUME T = {} PROVE FALSE
    OBVIOUS
  <2>1. \A k \in 1..n + 1 : Named(mgr, k) \in Names(g)
    OBVIOUS
  <2>2. ASSUME NEW k \in 1..n + 1
        PROVE  f[k] \in 1..n /\ list[f[k]].name = Named(mgr, k)
    <3>0. PICK other \in Manager : \E i \in 1..Len(g.maps[other]) : Named(mgr, k) = g.maps[other][i].name
      BY <2>1, MapFound, SMTT(20)
    <3>1. PICK i \in 1..Len(g.maps[other]) : Named(mgr, k) = g.maps[other][i].name
      BY <3>0
    <3>2. g.maps[other][i].name.mgr = other
      BY MapFound
    <3>3. k \in Nat
      BY <1>1
    <3>4. other = mgr
      BY <1>2, <3>1, <3>2, <3>3
    <3> QED
      BY <3>1, <3>4, ZenonT(20)
  <2>3. f \in [1..n + 1 -> 1..n]
    BY <2>2, ZenonT(20)
  <2>4. IsFiniteSet(1..n + 1) /\ IsFiniteSet(1..n) /\ Cardinality(1..n) < Cardinality(1..n + 1)
    <3>1. Cardinality(1..n) = n /\ Cardinality(1..n + 1) = n + 1 /\ IsFiniteSet(1..n) /\ IsFiniteSet(1..n + 1)
      <4>1. \A k \in Nat : IsFiniteSet(1..k) /\ Cardinality(1..k) = k
        BY FS_CountingElements, FS_Interval
      <4> QED
        BY <1>1, <4>1
    <3> QED
      BY <1>1, <3>1
  <2>5. PICK k, l \in 1..n + 1 : k # l /\ f[k] = f[l]
    <3> DEFINE S == 1..n + 1
               U == 1..n
    <3>1. f \in [S -> U] /\ IsFiniteSet(S) /\ IsFiniteSet(U) /\ Cardinality(U) < Cardinality(S)
      BY <2>3, <2>4
    <3> HIDE DEF f, S, U
    <3>2. \E k, l \in S : k # l /\ f[k] = f[l]
      BY <3>1, FS_PigeonHole
    <3> QED
      BY <3>2 DEF S
  <2> HIDE DEF f
  <2>6. Named(mgr, k) = Named(mgr, l) /\ k \in Nat /\ l \in Nat
    BY <1>1, <2>2, <2>5
  <2> QED
    BY <1>2, <2>5, <2>6
<1>4. T \in SUBSET Nat
  BY <1>1
<1>5. NewName(g, mgr) = Named(mgr, Min(T))
  BY DEF NewName
<1>6. Min(T) \in T
  <2> HIDE DEF T
  <2> QED
    BY <1>3, <1>4, MinIsLeast
<1>7. Min(T) \in Nat /\ Named(mgr, Min(T)) \notin Names(g)
  BY <1>4, <1>6
<1> HIDE DEF T
<1> QED
  BY <1>2, <1>5, <1>7

(* A manager gets a map in addition. *)
MapAdded(g, h, m) ==
  /\ MapsOK(h) /\ h.frags = g.frags /\ h.batch = g.batch /\ h.wrong = g.wrong
  /\ Names(h) = Names(g) \cup {m.name} /\ MapNamed(h, m.name) = m
  /\ \A name \in Names(g) : MapNamed(h, name) = MapNamed(g, name)

(* A map with a new name is added, and none changes. *)
LEMMA MapAppended ==
  ASSUME NEW g, MapsOK(g), NEW mgr \in Manager, NEW m \in Maps, m.name.mgr = mgr, m.name \notin Names(g),
         MapsLimit[mgr] = 0 \/ Len(g.maps[mgr]) < MapsLimit[mgr]
  PROVE  MapAdded(g, [g EXCEPT !.maps[mgr] = Append(g.maps[mgr], m)], m)
<1> DEFINE old == g.maps[mgr]
           list == Append(old, m)
           h == [g EXCEPT !.maps[mgr] = list]
<1>0. MapsLimit[mgr] \in Nat /\ ListOK(mgr, old)
  BY FragmentsAssumption DEF MapsOK
<1>1. ListOK(mgr, old) /\ old \in Seq(Maps) /\ Len(old) \in Nat /\ MapsLimit[mgr] \in Nat
  BY <1>0 DEF ListOK
<1>2. /\ list \in Seq(Maps) /\ Len(list) = Len(old) + 1 /\ list[Len(old) + 1] = m
      /\ \A i \in 1..Len(old) : list[i] = old[i]
  <2> HIDE DEF old
  <2> QED
    BY <1>1
<1> HIDE DEF list
<1>3. \A i \in 1..Len(old) : old[i].name \in Names(g) /\ MapNamed(g, old[i].name) = old[i]
  BY MapFound
<1>4. \A i \in 1..Len(list) : i \in 1..Len(old) \/ i = Len(old) + 1
  BY <1>1, <1>2
<1>5. ListOK(mgr, list)
  <2>1. \A i \in 1..Len(list) : list[i].name.mgr = mgr
    BY <1>1, <1>2, <1>4 DEF ListOK
  <2>2. \A i, j \in 1..Len(list) : list[i].name = list[j].name => i = j
    <3> SUFFICES ASSUME NEW i \in 1..Len(list), NEW j \in 1..Len(list), list[i].name = list[j].name
                 PROVE  i = j
      OBVIOUS
    <3>1. i \in 1..Len(old) => list[i].name = old[i].name /\ list[i].name # m.name
      BY <1>2, <1>3
    <3>2. j \in 1..Len(old) => list[j].name = old[j].name /\ list[j].name # m.name
      BY <1>2, <1>3, ZenonT(20)
    <3>3. CASE i \in 1..Len(old) /\ j \in 1..Len(old)
      BY <1>1, <3>1, <3>2, <3>3 DEF ListOK
    <3>4. CASE i = Len(old) + 1 \/ j = Len(old) + 1
      BY <1>2, <1>4, <3>1, <3>2, <3>4, ZenonT(20)
    <3> QED
      BY <1>4, <3>3, <3>4
  <2>3. MapsLimit[mgr] = 0 \/ Len(list) <= MapsLimit[mgr]
    BY <1>1, <1>2
  <2> QED
    BY <1>2, <2>1, <2>2, <2>3 DEF ListOK
<1>6. ListChanges(g, mgr, list, h)
  BY <1>5, ListChanged
<1> HIDE DEF h
<1>7. \A name \in Names(g) : name.mgr = mgr => \E i \in 1..Len(old) : name = old[i].name
  BY MapFound
<1> HIDE DEF old
<1>8. /\ MapsOK(h) /\ h.frags = g.frags /\ h.batch = g.batch /\ h.wrong = g.wrong
      /\ \A i \in 1..Len(list) : list[i].name \in Names(h) /\ MapNamed(h, list[i].name) = list[i]
      /\ \A name : name.mgr # mgr => (name \in Names(h) <=> name \in Names(g))
      /\ \A name \in Names(g) : name.mgr # mgr => MapNamed(h, name) = MapNamed(g, name)
      /\ \A name \in Names(h) : name.mgr = mgr => \E i \in 1..Len(list) : name = list[i].name
  BY <1>6 DEF ListChanges
<1>9. Len(old) + 1 \in 1..Len(list) /\ \A i \in 1..Len(old) : i \in 1..Len(list)
  BY <1>1, <1>2
<1>10. Names(h) = Names(g) \cup {m.name}
  <2>1. ASSUME NEW name
        PROVE  name \in Names(h) <=> name \in Names(g) \/ name = m.name
    BY <1>2, <1>3, <1>4, <1>7, <1>8, <1>9
  <2> QED
    BY <2>1
<1>11. MapNamed(h, m.name) = m
  BY <1>2, <1>8, <1>9
<1>12. ASSUME NEW name \in Names(g)
       PROVE  MapNamed(h, name) = MapNamed(g, name)
  <2>1. CASE name.mgr = mgr
    <3>1. PICK i \in 1..Len(old) : name = old[i].name
      BY <1>7, <2>1
    <3> QED
      BY <1>2, <1>3, <1>8, <1>9, <3>1
  <2> QED
    BY <1>8, <2>1
<1> QED
  BY <1>8, <1>10, <1>11, <1>12, ZenonT(20) DEF MapAdded, h, list, old

(* A map is erased. *)
LEMMA MapRemoved ==
  ASSUME NEW g, MapsOK(g), NEW name \in Names(g)
  PROVE  LET h == [g EXCEPT !.maps[name.mgr] = RemoveAt(g.maps[name.mgr], Place(g, name))]
         IN  /\ MapsOK(h) /\ h.frags = g.frags /\ h.batch = g.batch /\ h.wrong = g.wrong
             /\ Names(h) = Names(g) \ {name}
             /\ \A other \in Names(h) : MapNamed(h, other) = MapNamed(g, other)
<1> DEFINE mgr == name.mgr
           p == Place(g, name)
           old == g.maps[mgr]
           list == RemoveAt(old, p)
           h == [g EXCEPT !.maps[mgr] = list]
           At(i) == IF i < p THEN i ELSE i + 1
<1>1. mgr \in Manager /\ p \in 1..Len(old) /\ old[p].name = name
      /\ \A i \in 1..Len(old) : old[i].name \in Names(g) /\ MapNamed(g, old[i].name) = old[i]
  BY MapFound
<1>0. MapsLimit[mgr] \in Nat /\ ListOK(mgr, old)
  BY <1>1, FragmentsAssumption DEF MapsOK
<1>2. ListOK(mgr, old) /\ old \in Seq(Maps) /\ Len(old) \in Nat /\ MapsLimit[mgr] \in Nat
  BY <1>0 DEF ListOK
<1>3. \A other \in Names(g) : other.mgr = mgr => \E i \in 1..Len(old) : other = old[i].name
  BY MapFound, SMTT(20)
<1>4. /\ list \in Seq(Maps) /\ Len(list) = Len(old) - 1
      /\ \A i \in 1..Len(old) - 1 : list[i] = old[At(i)]
  <2> HIDE DEF p, old
  <2>1. /\ list \in Seq(Maps) /\ Len(list) = Len(old) - 1
        /\ \A i \in 1..Len(old) - 1 : list[i] = IF i < p THEN old[i] ELSE old[i + 1]
    BY <1>1, <1>2, RemovedAt
  <2> QED
    BY <2>1
<1> HIDE DEF list, p, old
<1>5. /\ \A i \in 1..Len(list) : At(i) \in 1..Len(old) /\ At(i) # p /\ list[i] = old[At(i)]
      /\ \A i, j \in 1..Len(list) : At(i) = At(j) => i = j
      /\ \A k \in 1..Len(old) : k # p => \E i \in 1..Len(list) : k = At(i)
  <2>1. \A k \in 1..Len(old) : k < p => k \in 1..Len(list) /\ k = At(k)
    BY <1>1, <1>2, <1>4
  <2>2. \A k \in 1..Len(old) : p < k => k - 1 \in 1..Len(list) /\ k = At(k - 1)
    BY <1>1, <1>2, <1>4
  <2>3. \A k \in 1..Len(old) : k < p \/ k = p \/ p < k
    BY <1>1, <1>2
  <2>4. \A i \in 1..Len(list) : At(i) \in 1..Len(old) /\ At(i) # p /\ list[i] = old[At(i)]
    BY <1>1, <1>2, <1>4
  <2>5. \A i, j \in 1..Len(list) : At(i) = At(j) => i = j
    BY <1>1, <1>2, <1>4
  <2> HIDE DEF At
  <2> QED
    BY <2>1, <2>2, <2>3, <2>4, <2>5
<1> HIDE DEF At
<1>6. ListOK(mgr, list)
  <2>1. \A i \in 1..Len(list) : list[i].name.mgr = mgr
    BY <1>2, <1>5 DEF ListOK
  <2>2. \A i, j \in 1..Len(list) : list[i].name = list[j].name => i = j
    BY <1>2, <1>5 DEF ListOK
  <2>3. MapsLimit[mgr] = 0 \/ Len(list) <= MapsLimit[mgr]
    BY <1>2, <1>4 DEF ListOK
  <2> QED
    BY <1>4, <2>1, <2>2, <2>3 DEF ListOK
<1>7. ListChanges(g, mgr, list, h)
  BY <1>1, <1>6, ListChanged
<1> HIDE DEF h
<1>8. /\ MapsOK(h) /\ h.frags = g.frags /\ h.batch = g.batch /\ h.wrong = g.wrong
      /\ \A i \in 1..Len(list) : list[i].name \in Names(h) /\ MapNamed(h, list[i].name) = list[i]
      /\ \A other : other.mgr # mgr => (other \in Names(h) <=> other \in Names(g))
      /\ \A other \in Names(g) : other.mgr # mgr => MapNamed(h, other) = MapNamed(g, other)
      /\ \A other \in Names(h) : other.mgr = mgr => \E i \in 1..Len(list) : other = list[i].name
  BY <1>7 DEF ListChanges
<1>9. \A k \in 1..Len(old) : old[k].name = name => k = p
  BY <1>1, <1>2 DEF ListOK
<1>10. Names(h) = Names(g) \ {name}
  <2>1. ASSUME NEW other
        PROVE  other \in Names(h) <=> other \in Names(g) /\ other # name
    <3>1. CASE other.mgr # mgr
      BY <1>1, <1>8, <3>1 DEF mgr
    <3>2. CASE other.mgr = mgr
      <4>1. ASSUME other \in Names(h)
            PROVE  other \in Names(g) /\ other # name
        BY <1>1, <1>5, <1>8, <1>9, <3>2, <4>1
      <4>2. ASSUME other \in Names(g), other # name
            PROVE  other \in Names(h)
        <5>1. PICK k \in 1..Len(old) : other = old[k].name
          BY <1>3, <3>2, <4>2
        <5>2. k # p
          BY <1>1, <4>2, <5>1
        <5> QED
          BY <1>5, <1>8, <5>1, <5>2
      <4> QED
        BY <4>1, <4>2
    <3> QED
      BY <3>1, <3>2
  <2> QED
    BY <2>1
<1>11. ASSUME NEW other \in Names(h)
       PROVE  MapNamed(h, other) = MapNamed(g, other)
  <2>1. CASE other.mgr = mgr
    <3>1. PICK i \in 1..Len(list) : other = list[i].name
      BY <1>8, <2>1
    <3> QED
      BY <1>1, <1>5, <1>8, <3>1
  <2> QED
    BY <1>8, <1>10, <2>1
<1> HIDE DEF mgr
<1> QED
  BY <1>8, <1>10, <1>11, ZenonT(20) DEF h, list, old, p, mgr

-----------------------------------------------------------------------------
(* The batch *)

(* A fragment is in a map of its manager, takes a part of it, and its image is
   whole there. *)
FragOK(g, id) ==
  LET f == g.frags[id]
  IN  /\ f.map \in Names(g) /\ f.map.mgr = ManagerOf[id] /\ Edged(f)
      /\ TakenBy(f) \in Taken(MapNamed(g, f.map).rows)
      /\ ImageAt(id, f.rect) \in MapNamed(g, f.map).buffer

(* Everything that is taken, is by one fragment. *)
SpaceOK(g) ==
  /\ \A id \in Fragment : g.frags[id] # NULL => FragOK(g, id)
  /\ \A id, other \in Fragment :
       /\ g.frags[id] # NULL /\ g.frags[other] # NULL
       /\ g.frags[id].map = g.frags[other].map /\ TakenBy(g.frags[id]) = TakenBy(g.frags[other])
       => id = other
  /\ \A name \in Names(g) : \A t \in Taken(MapNamed(g, name).rows) :
       \E id \in Fragment : g.frags[id] # NULL /\ g.frags[id].map = name /\ TakenBy(g.frags[id]) = t

(* A quad is of a fragment that exists, is known to be in the batch, and is still
   where it was. *)
QuadOK(g, q, name) ==
  /\ g.frags[q.id] # NULL /\ g.frags[q.id].in_batch = TRUE
  /\ g.frags[q.id].map = name /\ g.frags[q.id].rect = q.rect

BatchOK(g) ==
  /\ g.batch.quads = <<>> => g.batch = NoBatch
  /\ Len(g.batch.quads) <= MaxQuads
  /\ g.batch.quads # <<>> =>
       /\ g.batch.fragment \in Fragment /\ g.frags[g.batch.fragment] # NULL
       /\ g.frags[g.batch.fragment].in_batch = TRUE
       /\ g.frags[g.batch.fragment].map = g.batch.bitmap
       /\ MapNamed(g, g.batch.bitmap).bitmap # NULL
       /\ \A i \in 1..Len(g.batch.quads) : QuadOK(g, g.batch.quads[i], g.batch.bitmap)

(* The inductive invariant of gfx, but for that every map is in use *)
GfxOK(g) == MapsOK(g) /\ SpaceOK(g) /\ BatchOK(g) /\ g.wrong = {}

(* All is where it was: what drawing and flushing leave alone. *)
SameFrag(f, e) ==
  /\ f = NULL <=> e = NULL
  /\ f # NULL => /\ e.map = f.map /\ e.y = f.y /\ e.space = f.space
                 /\ e.rect = f.rect /\ e.row_height = f.row_height

Steady(g, h) ==
  /\ MapsOK(h) /\ Names(h) = Names(g)
  /\ \A name \in Names(g) :
       /\ MapNamed(h, name).rows = MapNamed(g, name).rows /\ MapNamed(h, name).buffer = MapNamed(g, name).buffer
       /\ MapNamed(g, name).bitmap # NULL => MapNamed(h, name).bitmap # NULL
  /\ \A id \in Fragment : SameFrag(g.frags[id], h.frags[id])
  /\ \A mgr \in Manager : Len(h.maps[mgr]) = Len(g.maps[mgr])

(* No change *)
LEMMA SteadyItself ==
  ASSUME NEW g, MapsOK(g)
  PROVE  Steady(g, g)
BY DEF Steady, SameFrag

(* Two changes *)
LEMMA SteadyTwice ==
  ASSUME NEW g, NEW h, NEW k, Steady(g, h), Steady(h, k)
  PROVE  Steady(g, k)
<1>1. \A id \in Fragment : SameFrag(g.frags[id], k.frags[id])
  <2>1. \A id \in Fragment : SameFrag(g.frags[id], h.frags[id]) /\ SameFrag(h.frags[id], k.frags[id])
    BY DEF Steady
  <2> QED
    BY <2>1 DEF SameFrag
<1>2. MapsOK(k) /\ Names(k) = Names(g)
  BY DEF Steady
<1>3. \A name \in Names(g) :
       /\ MapNamed(k, name).rows = MapNamed(g, name).rows /\ MapNamed(k, name).buffer = MapNamed(g, name).buffer
       /\ MapNamed(g, name).bitmap # NULL => MapNamed(k, name).bitmap # NULL
  BY DEF Steady
<1>4. \A mgr \in Manager : Len(k.maps[mgr]) = Len(g.maps[mgr])
  BY DEF Steady
<1> QED
  BY <1>1, <1>2, <1>3, <1>4 DEF Steady

(* Whoever had space has it still. *)
LEMMA SteadySpace ==
  ASSUME NEW g, NEW h, Steady(g, h), SpaceOK(g)
  PROVE  SpaceOK(h)
<1>1. /\ Names(h) = Names(g)
      /\ \A name \in Names(g) : MapNamed(h, name).rows = MapNamed(g, name).rows
                                /\ MapNamed(h, name).buffer = MapNamed(g, name).buffer
      /\ \A id \in Fragment : SameFrag(g.frags[id], h.frags[id])
  BY DEF Steady
<1>2. \A id \in Fragment : h.frags[id] # NULL <=> g.frags[id] # NULL
  BY <1>1 DEF SameFrag
<1>3. \A id \in Fragment : g.frags[id] # NULL =>
        /\ h.frags[id].map = g.frags[id].map /\ TakenBy(h.frags[id]) = TakenBy(g.frags[id])
        /\ h.frags[id].rect = g.frags[id].rect /\ (Edged(g.frags[id]) => Edged(h.frags[id]))
  BY <1>1, ZenonT(20) DEF SameFrag, TakenBy, Edged
<1>4. ASSUME NEW id \in Fragment, h.frags[id] # NULL
      PROVE  FragOK(h, id)
  <2>1. FragOK(g, id) /\ g.frags[id] # NULL
    BY <1>2, <1>4 DEF SpaceOK
  <2> QED
    BY <1>1, <1>3, <2>1 DEF FragOK
<1>5. \A id, other \in Fragment :
       /\ h.frags[id] # NULL /\ h.frags[other] # NULL
       /\ h.frags[id].map = h.frags[other].map /\ TakenBy(h.frags[id]) = TakenBy(h.frags[other])
       => id = other
  BY <1>2, <1>3 DEF SpaceOK
<1>6. ASSUME NEW name \in Names(h), NEW t \in Taken(MapNamed(h, name).rows)
      PROVE  \E id \in Fragment : h.frags[id] # NULL /\ h.frags[id].map = name /\ TakenBy(h.frags[id]) = t
  <2>1. name \in Names(g) /\ t \in Taken(MapNamed(g, name).rows)
    BY <1>1, <1>6
  <2>2. PICK id \in Fragment : g.frags[id] # NULL /\ g.frags[id].map = name /\ TakenBy(g.frags[id]) = t
    BY <2>1 DEF SpaceOK
  <2> QED
    BY <1>2, <1>3, <2>2
<1> QED
  BY <1>4, <1>5, <1>6 DEF SpaceOK

(* A map is uploaded. *)
LEMMA UploadSteady ==
  ASSUME NEW g, MapsOK(g), NEW name \in Names(g)
  PROVE  LET h == SetMap(g, Uploaded(MapNamed(g, name)))
             m == MapNamed(g, name)
         IN  /\ Steady(g, h) /\ h.frags = g.frags /\ h.batch = g.batch /\ h.wrong = g.wrong
             /\ (m.bitmap # NULL \/ m.need_update \/ Taken(m.rows) # {}) =>
                  MapNamed(h, name).bitmap # NULL /\ m.buffer \subseteq MapNamed(h, name).bitmap.pixels
<1> DEFINE m == MapNamed(g, name)
           u == Uploaded(m)
           h == SetMap(g, u)
<1>1. m \in Maps /\ m.name = name
  BY MapFound
<1>2. /\ u \in Maps /\ u.name = name /\ u.rows = m.rows /\ u.buffer = m.buffer
      /\ (m.bitmap # NULL \/ m.need_update \/ Taken(m.rows) # {}) =>
           u.bitmap # NULL /\ m.buffer \subseteq u.bitmap.pixels
  <2> HIDE DEF m
  <2> QED
    BY <1>1, UploadedOK, ZenonT(20)
<1> HIDE DEF u, m
<1>3. /\ MapsOK(h) /\ h.frags = g.frags /\ h.batch = g.batch /\ h.wrong = g.wrong
      /\ Names(h) = Names(g) /\ MapNamed(h, name) = u
      /\ \A other \in Names(g) \ {name} : MapNamed(h, other) = MapNamed(g, other)
      /\ \A mgr \in Manager : Len(h.maps[mgr]) = Len(g.maps[mgr])
  BY <1>2, SetMapOK
<1> HIDE DEF h
<1>4. ASSUME NEW other \in Names(g)
      PROVE  /\ MapNamed(h, other).rows = MapNamed(g, other).rows
             /\ MapNamed(h, other).buffer = MapNamed(g, other).buffer
             /\ MapNamed(g, other).bitmap # NULL => MapNamed(h, other).bitmap # NULL
  <2>1. CASE other = name
    BY <1>2, <1>3, <2>1 DEF m
  <2> QED
    BY <1>3, <2>1
<1>5. \A id \in Fragment : SameFrag(g.frags[id], h.frags[id])
  BY <1>3 DEF SameFrag
<1>6. Steady(g, h)
  BY <1>3, <1>4, <1>5 DEF Steady
<1> QED
  BY <1>2, <1>3, <1>6 DEF m, u, h

(* A fragment may come into the batch and leave it. *)
LEMMA InBatchOK ==
  ASSUME NEW f \in Record, NEW in \in BOOLEAN
  PROVE  InBatch(f, in) \in Record /\ InBatch(f, in) # NULL /\ SameFrag(f, InBatch(f, in)) /\ InBatch(f, in).in_batch = in
<1>1. f.map \in Name /\ f.y \in Nat /\ f.space \in [x : Nat, width : Nat \ {0}] /\ f.rect \in Rect
      /\ f.row_height \in Nat \ {0} /\ f # NULL
  BY NullAssumption DEF Record
<1>2. InBatch(f, in) \in Record
  BY <1>1 DEF Record, InBatch
<1>3. InBatch(f, in) # NULL
  BY <1>2, NullAssumption
<1> QED
  BY <1>1, <1>2, <1>3 DEF SameFrag, InBatch

(* A pending batch is drawn from what its quads were added for, once the map of
   the fragment used last is up to date. *)
LEMMA DrawsRight ==
  ASSUME NEW g, GfxOK(g), g.batch.quads # <<>>
  PROVE  LET f == g.frags[g.batch.fragment]
             valid == SetMap(g, Uploaded(MapNamed(g, f.map)))
         IN  WrongIn(valid) = {} /\ Steady(g, valid) /\ valid.frags = g.frags /\ valid.wrong = {}
<1> DEFINE f == g.frags[g.batch.fragment]
           name == g.batch.bitmap
           m == MapNamed(g, name)
           valid == SetMap(g, Uploaded(MapNamed(g, name)))
<1>1. /\ g.batch.fragment \in Fragment /\ f # NULL /\ f.map = name
      /\ \A i \in 1..Len(g.batch.quads) : QuadOK(g, g.batch.quads[i], name)
  BY DEF GfxOK, BatchOK
<1>2. MapsOK(g) /\ SpaceOK(g) /\ g.wrong = {} /\ g.batch.quads \in Seq(Pixels)
  BY GraphicsFields DEF GfxOK, MapsOK
<1>3. name \in Names(g) /\ Taken(m.rows) # {}
  <2>1. FragOK(g, g.batch.fragment)
    BY <1>1, <1>2 DEF SpaceOK
  <2> QED
    BY <1>1, <2>1 DEF FragOK
<1>4. /\ Steady(g, valid) /\ valid.frags = g.frags /\ valid.batch = g.batch /\ valid.wrong = g.wrong
      /\ MapNamed(valid, name).bitmap # NULL /\ m.buffer \subseteq MapNamed(valid, name).bitmap.pixels
  BY <1>2, <1>3, UploadSteady, ZenonT(20)
<1> HIDE DEF valid
<1>5. ASSUME NEW i \in 1..Len(g.batch.quads)
      PROVE  g.batch.quads[i] \in m.buffer
  <2> DEFINE q == g.batch.quads[i]
  <2>1. q \in Pixels /\ QuadOK(g, q, name)
    BY <1>1, <1>2
  <2> HIDE DEF q
  <2>2. q.id \in Fragment /\ q = ImageAt(q.id, q.rect)
    BY <2>1 DEF Pixels, ImageAt
  <2>3. /\ g.frags[q.id] # NULL /\ g.frags[q.id].map = name /\ g.frags[q.id].rect = q.rect
    BY <2>1 DEF QuadOK
  <2>4. FragOK(g, q.id)
    BY <1>2, <2>2, <2>3 DEF SpaceOK
  <2>5. ImageAt(q.id, q.rect) \in m.buffer
    BY <2>3, <2>4 DEF FragOK
  <2> QED
    BY <2>2, <2>5 DEF q
<1>6. ToSet(g.batch.quads) \subseteq MapNamed(valid, name).bitmap.pixels
  <2>1. \A q : q \in ToSet(g.batch.quads) => \E i \in 1..Len(g.batch.quads) : q = g.batch.quads[i]
    BY <1>2 DEF ToSet
  <2> QED
    BY <1>4, <1>5, <2>1
<1>7. Drawable(valid, name)
  BY <1>3, <1>4 DEF Drawable, Steady
<1>8. WrongIn(valid) = {}
  BY <1>4, <1>6, <1>7 DEF WrongIn
<1> QED
  BY <1>1, <1>2, <1>4, <1>8 DEF valid

(* After a flush nothing is pending, what was drawn was right, and maps and fragments are as before. *)
LEMMA FlushBatchOK ==
  ASSUME NEW g, GfxOK(g)
  PROVE  GfxOK(FlushBatch(g)) /\ Steady(g, FlushBatch(g)) /\ FlushBatch(g).batch = NoBatch
<1> DEFINE h == FlushBatch(g)
<1>1. MapsOK(g) /\ SpaceOK(g) /\ BatchOK(g) /\ g.wrong = {} /\ g \in Graphics
  BY DEF GfxOK, MapsOK
<1>2. CASE g.batch.quads = <<>>
  <2>1. h = g
    BY <1>2 DEF FlushBatch
  <2>2. g.batch = NoBatch
    BY <1>1, <1>2 DEF BatchOK
  <2> HIDE DEF h
  <2> QED
    BY <1>1, <2>1, <2>2, SteadyItself DEF h
<1>3. CASE g.batch.quads # <<>>
  <2> DEFINE last == g.batch.fragment
             valid == SetMap(g, Uploaded(MapNamed(g, g.frags[last].map)))
             frags == [id \in Fragment |-> NotInBatch(g.frags[id])]
             after == [valid EXCEPT !.batch = NoBatch, !.frags = frags, !.wrong = g.wrong \cup WrongIn(valid)]
  <2>1. last \in Fragment /\ last # NULL /\ g.frags[last] # NULL
    BY <1>1, <1>3, FragmentsAssumption DEF BatchOK
  <2>2. h = after
    BY <1>3, <2>1, ZenonT(20) DEF FlushBatch
  <2>3. WrongIn(valid) = {} /\ Steady(g, valid) /\ valid.frags = g.frags /\ valid.wrong = {}
    BY <1>3, DrawsRight, ZenonT(20)
  <2> HIDE DEF h, valid
  <2>4. \A id \in Fragment : frags[id] \in Record \cup {NULL} /\ SameFrag(g.frags[id], frags[id])
    <3> TAKE id \in Fragment
    <3>1. g.frags[id] \in Record \cup {NULL}
      BY <1>1, GraphicsFields
    <3>2. CASE g.frags[id] = NULL
      BY <3>2, ZenonT(20) DEF NotInBatch, SameFrag
    <3>3. CASE g.frags[id] # NULL
      <4>1. g.frags[id] \in Record
        BY <3>1, <3>3
      <4> DEFINE e == InBatch(g.frags[id], FALSE)
      <4>2. e \in Record /\ SameFrag(g.frags[id], e)
        BY <4>1, InBatchOK, ZenonT(20)
      <4>3. frags[id] = e
        BY <3>3 DEF NotInBatch
      <4> QED
        BY <4>2, <4>3, ZenonT(20)
    <3> QED
      BY <3>2, <3>3
  <2>5. frags \in [Fragment -> Record \cup {NULL}]
    BY <2>4
  <2> HIDE DEF frags
  <2>6. NoBatch \in Batches /\ NoBatch.quads = <<>>
    BY DEF NoBatch, Batches
  <2>7. MapsOK(valid) /\ valid \in Graphics
    BY <2>3 DEF Steady, MapsOK
  <2>8. /\ after \in Graphics /\ after.maps = valid.maps /\ after.batch = NoBatch
        /\ after.frags = frags /\ after.wrong = {}
    BY <1>1, <2>3, <2>5, <2>6, <2>7, ZenonT(20) DEF Graphics
  <2> HIDE DEF after
  <2>9. MapsOK(after)
    BY <2>7, <2>8 DEF MapsOK
  <2>10. /\ Names(after) = Names(valid)
         /\ \A name : MapNamed(after, name) = MapNamed(valid, name)
    BY <2>8 DEF Names, MapNamed, Place
  <2>11. Steady(g, after)
    <3>1. /\ Names(valid) = Names(g)
          /\ \A name \in Names(g) :
               /\ MapNamed(valid, name).rows = MapNamed(g, name).rows
               /\ MapNamed(valid, name).buffer = MapNamed(g, name).buffer
               /\ MapNamed(g, name).bitmap # NULL => MapNamed(valid, name).bitmap # NULL
          /\ \A mgr \in Manager : Len(valid.maps[mgr]) = Len(g.maps[mgr])
      BY <2>3 DEF Steady
    <3> QED
      BY <2>4, <2>8, <2>9, <2>10, <3>1 DEF Steady
  <2>12. SpaceOK(after)
    BY <1>1, <2>11, SteadySpace
  <2>13. BatchOK(after)
    <3>1. Len(<<>>) = 0 /\ MaxQuads \in Nat
      BY FragmentsAssumption
    <3> QED
      BY <2>6, <2>8, <3>1 DEF BatchOK
  <2> QED
    BY <2>2, <2>8, <2>9, <2>11, <2>12, <2>13 DEF GfxOK, h
<1> QED
  BY <1>2, <1>3

(* FlushBitmap leaves no quad of the bitmap. *)
LEMMA FlushBitmapOK ==
  ASSUME NEW g, GfxOK(g), NEW name
  PROVE  /\ GfxOK(FlushBitmap(g, name)) /\ Steady(g, FlushBitmap(g, name))
         /\ FlushBitmap(g, name).batch.quads # <<>> => FlushBitmap(g, name).batch.bitmap # name
<1>1. NoBatch.quads = <<>>
  BY DEF NoBatch
<1>2. MapsOK(g)
  BY DEF GfxOK
<1>3. CASE g.batch.bitmap = name
  BY <1>1, <1>3, FlushBatchOK DEF FlushBitmap
<1>4. CASE g.batch.bitmap # name
  BY <1>2, <1>4, SteadyItself DEF FlushBitmap
<1> QED
  BY <1>3, <1>4

(* FlushBitmapFragment leaves no quad of the fragment: whoever is drawn is marked until the flush. *)
LEMMA FlushBitmapFragmentOK ==
  ASSUME NEW g, GfxOK(g), NEW id \in Fragment, g.frags[id] # NULL
  PROVE  LET h == FlushBitmapFragment(g, id)
         IN  /\ GfxOK(h) /\ Steady(g, h)
             /\ h.batch.quads # <<>> => h.frags[id].in_batch # TRUE
<1>1. NoBatch.quads = <<>>
  BY DEF NoBatch
<1>2. MapsOK(g) /\ g \in Graphics
  BY DEF GfxOK, MapsOK
<1>3. g.frags[id].in_batch \in BOOLEAN
  <2>1. g.frags[id] \in Record
    BY <1>2, GraphicsFields
  <2> QED
    BY <2>1 DEF Record
<1>4. CASE g.frags[id].in_batch
  BY <1>1, <1>4, FlushBatchOK, ZenonT(20) DEF FlushBitmapFragment
<1>5. CASE ~g.frags[id].in_batch
  <2>1. FlushBitmapFragment(g, id) = g
    BY <1>5 DEF FlushBitmapFragment
  <2>2. g.frags[id].in_batch # TRUE
    BY <1>3, <1>5, ZenonT(20)
  <2> QED
    BY <1>2, <2>1, <2>2, SteadyItself, ZenonT(20)
<1> QED
  BY <1>4, <1>5, ZenonT(20)

(* Only bitmaps have changed. *)
LEMMA OnlyBitmaps ==
  ASSUME NEW g, GfxOK(g), NEW h, Steady(g, h), h.frags = g.frags, h.batch = g.batch, h.wrong = g.wrong
  PROVE  GfxOK(h)
<1>1. MapsOK(h) /\ SpaceOK(g) /\ BatchOK(g) /\ h.wrong = {}
  BY DEF GfxOK, Steady
<1>2. SpaceOK(h)
  BY <1>1, SteadySpace
<1>3. ASSUME g.batch.quads # <<>>
      PROVE  MapNamed(h, h.batch.bitmap).bitmap # NULL
  <2>1. /\ g.batch.fragment \in Fragment /\ g.frags[g.batch.fragment] # NULL
        /\ g.frags[g.batch.fragment].map = g.batch.bitmap
        /\ MapNamed(g, g.batch.bitmap).bitmap # NULL
    BY <1>1, <1>3 DEF BatchOK
  <2>2. g.batch.bitmap \in Names(g)
    BY <1>1, <2>1 DEF SpaceOK, FragOK
  <2> QED
    BY <2>1, <2>2 DEF Steady
<1>4. BatchOK(h)
  BY <1>1, <1>3 DEF BatchOK, QuadOK
<1> QED
  BY <1>1, <1>2, <1>4 DEF GfxOK

(* The map of a fragment has a bitmap afterwards. *)
LEMMA EnsureBitmapOK ==
  ASSUME NEW g, GfxOK(g), NEW name \in Names(g), Taken(MapNamed(g, name).rows) # {}
  PROVE  LET h == EnsureBitmap(g, name)
         IN  GfxOK(h) /\ Steady(g, h) /\ MapNamed(h, name).bitmap # NULL
<1>1. MapsOK(g)
  BY DEF GfxOK
<1>2. CASE MapNamed(g, name).bitmap # NULL
  BY <1>1, <1>2, SteadyItself DEF EnsureBitmap
<1>3. CASE MapNamed(g, name).bitmap = NULL
  <2> DEFINE f == FlushBitmap(g, name)
             h == SetMap(f, Uploaded(MapNamed(f, name)))
  <2>1. MapNamed(g, name).need_update
    <3>1. MapNamed(g, name) \in Maps
      BY <1>1, MapFound
    <3> QED
      BY <1>3, <3>1 DEF Maps
  <2>2. EnsureBitmap(g, name) = h
    BY <1>3, <2>1 DEF EnsureBitmap, ValidateBitmap
  <2>3. GfxOK(f) /\ Steady(g, f)
    BY FlushBitmapOK
  <2> HIDE DEF f
  <2>4. MapsOK(f) /\ name \in Names(f) /\ Taken(MapNamed(f, name).rows) # {}
    BY <2>3 DEF Steady
  <2>5. /\ Steady(f, h) /\ h.frags = f.frags /\ h.batch = f.batch /\ h.wrong = f.wrong
        /\ MapNamed(h, name).bitmap # NULL
    BY <2>4, UploadSteady
  <2> HIDE DEF h
  <2>6. GfxOK(h)
    BY <2>3, <2>5, OnlyBitmaps
  <2>7. Steady(g, h)
    BY <2>3, <2>5, SteadyTwice
  <2> QED
    BY <2>2, <2>5, <2>6, <2>7
<1> QED
  BY <1>2, <1>3

(* The batch that a quad is added to *)
LEMMA ReservedOK ==
  ASSUME NEW g, GfxOK(g), NEW name
  PROVE  LET r == Reserved(g, name)
         IN  /\ GfxOK(r) /\ Steady(g, r) /\ Len(r.batch.quads) < MaxQuads
             /\ r.batch.quads = <<>> \/ r.batch.bitmap = name
<1> DEFINE other == IF g.batch.bitmap # name THEN FlushBatch(g) ELSE g
           r == IF Len(other.batch.quads) = MaxQuads THEN FlushBatch(other) ELSE other
<1>1. GfxOK(other) /\ Steady(g, other) /\ (other.batch.quads = <<>> \/ other.batch.bitmap = name)
  <2>1. MapsOK(g) /\ NoBatch.quads = <<>>
    BY DEF GfxOK, NoBatch
  <2>2. CASE g.batch.bitmap # name
    BY <2>1, <2>2, FlushBatchOK
  <2>3. CASE g.batch.bitmap = name
    BY <2>1, <2>3, SteadyItself
  <2> QED
    BY <2>2, <2>3
<1>2. r = Reserved(g, name)
  BY DEF Reserved
<1> HIDE DEF other
<1>3. Len(other.batch.quads) <= MaxQuads /\ Len(other.batch.quads) \in Nat /\ MaxQuads \in Nat \ {0}
  <2>1. other \in Graphics /\ BatchOK(other)
    BY <1>1 DEF GfxOK, MapsOK
  <2> QED
    BY <2>1, GraphicsFields, FragmentsAssumption DEF BatchOK
<1>4. CASE Len(other.batch.quads) = MaxQuads
  <2>1. r = FlushBatch(other)
    BY <1>4
  <2>2. GfxOK(r) /\ Steady(other, r) /\ r.batch = NoBatch
    BY <1>1, <2>1, FlushBatchOK
  <2> HIDE DEF r
  <2>3. NoBatch.quads = <<>> /\ Len(<<>>) = 0
    BY DEF NoBatch
  <2>4. Steady(g, r)
    BY <1>1, <2>2, SteadyTwice
  <2>5. Len(r.batch.quads) < MaxQuads /\ r.batch.quads = <<>>
    BY <1>3, <2>2, <2>3
  <2> QED
    BY <1>2, <2>2, <2>4, <2>5
<1>5. CASE Len(other.batch.quads) # MaxQuads
  <2>1. r = other /\ Len(other.batch.quads) < MaxQuads
    BY <1>3, <1>5
  <2> HIDE DEF r
  <2> QED
    BY <1>1, <1>2, <2>1
<1> QED
  BY <1>4, <1>5

(* A quad is added for a fragment of a map that has a bitmap. *)
LEMMA AddQuadOK ==
  ASSUME NEW g, GfxOK(g), NEW id \in Fragment, g.frags[id] # NULL,
         MapNamed(g, g.frags[id].map).bitmap # NULL
  PROVE  LET h == AddQuad(g, g.frags[id].map, id)
         IN  GfxOK(h) /\ Steady(g, h)
<1> DEFINE name == g.frags[id].map
           r == Reserved(g, name)
           q == ImageAt(id, g.frags[id].rect)
           f == r.frags[id]
           e == InBatch(f, TRUE)
           batch == [quads |-> Append(r.batch.quads, q), bitmap |-> name, fragment |-> id]
           h == [r EXCEPT !.batch = batch, !.frags[id] = e]
<1>1. h = AddQuad(g, name, id)
  BY DEF AddQuad
<1>2. /\ GfxOK(r) /\ Steady(g, r) /\ Len(r.batch.quads) < MaxQuads
      /\ r.batch.quads = <<>> \/ r.batch.bitmap = name
  BY ReservedOK
<1>3. g \in Graphics /\ SpaceOK(g)
  BY DEF GfxOK, MapsOK
<1>4. g.frags[id] \in Record /\ name \in Names(g) /\ name \in Name /\ q \in Pixels
  <2>1. g.frags[id] \in Record
    BY <1>3, GraphicsFields
  <2>2. name \in Names(g)
    BY <1>3 DEF SpaceOK, FragOK
  <2> QED
    BY <2>1, <2>2 DEF Record, Pixels, ImageAt
<1> HIDE DEF r
<1>5. /\ MapsOK(r) /\ r \in Graphics /\ SpaceOK(r) /\ BatchOK(r) /\ r.wrong = {}
      /\ SameFrag(g.frags[id], f) /\ MapNamed(r, name).bitmap # NULL
  BY <1>2, <1>4 DEF GfxOK, MapsOK, Steady
<1>6. f \in Record /\ f # NULL /\ f.map = name /\ f.rect = q.rect
  <2>1. f \in Record \cup {NULL}
    BY <1>5, GraphicsFields
  <2> QED
    BY <1>5, <2>1 DEF SameFrag, ImageAt
<1>7. e \in Record /\ e # NULL /\ SameFrag(f, e) /\ e.in_batch = TRUE
  BY <1>6, InBatchOK, ZenonT(20)
<1>8. e.map = name /\ e.rect = q.rect
  BY <1>6, <1>7, ZenonT(20) DEF SameFrag
<1>9. r.batch.quads \in Seq(Pixels) /\ r.frags \in [Fragment -> Record \cup {NULL}]
  BY <1>5, GraphicsFields
<1>10. /\ batch \in Batches /\ batch.bitmap = name /\ batch.fragment = id
       /\ Len(batch.quads) = Len(r.batch.quads) + 1 /\ batch.quads # <<>>
       /\ batch.quads[Len(r.batch.quads) + 1] = q
       /\ \A i \in 1..Len(r.batch.quads) : batch.quads[i] = r.batch.quads[i]
  BY <1>4, <1>9 DEF Batches
<1>11. q.id = id
  BY DEF ImageAt
<1> HIDE DEF q, e, f
<1> HIDE DEF batch
<1>12. /\ h \in Graphics /\ h.maps = r.maps /\ h.batch = batch /\ h.wrong = r.wrong
       /\ h.frags = [r.frags EXCEPT ![id] = e]
  BY <1>5, <1>7, <1>9, <1>10, ZenonT(20) DEF Graphics
<1> HIDE DEF h
<1>13. h.frags[id] = e /\ \A other \in Fragment \ {id} : h.frags[other] = r.frags[other]
  BY <1>9, <1>12
<1>14. MapsOK(h)
  BY <1>5, <1>12 DEF MapsOK
<1>15. Names(h) = Names(r) /\ \A any : MapNamed(h, any) = MapNamed(r, any)
  <2>1. h.maps = r.maps
    BY <1>12
  <2> QED
    BY <2>1, ZenonT(20) DEF Names, MapNamed, Place
<1>16. Steady(r, h)
  <2>1. \A other \in Fragment : SameFrag(r.frags[other], h.frags[other])
    BY <1>7, <1>13 DEF SameFrag, f
  <2> QED
    BY <1>12, <1>14, <1>15, <2>1 DEF Steady
<1>17. SpaceOK(h)
  BY <1>5, <1>16, SteadySpace
<1>18. ASSUME NEW i \in 1..Len(batch.quads)
       PROVE  QuadOK(h, batch.quads[i], name)
  <2>1. CASE i = Len(r.batch.quads) + 1
    BY <1>7, <1>8, <1>10, <1>11, <1>13, <2>1, ZenonT(20) DEF QuadOK
  <2>2. CASE i # Len(r.batch.quads) + 1
    <3> DEFINE p == r.batch.quads[i]
    <3>1. i \in 1..Len(r.batch.quads) /\ Len(r.batch.quads) \in Nat
      BY <1>9, <1>10, <2>2
    <3>2. r.batch.bitmap = name /\ batch.quads[i] = p /\ p \in Pixels
      <4>1. r.batch.quads # <<>>
        BY <3>1
      <4> QED
        BY <1>2, <1>9, <1>10, <3>1, <4>1
    <3>3. QuadOK(r, p, name)
      BY <1>5, <3>1, <3>2 DEF BatchOK
    <3> HIDE DEF p
    <3>4. p.id \in Fragment
      BY <3>2 DEF Pixels
    <3>5. CASE p.id = id
      <4>1. f.map = name /\ f.rect = p.rect
        BY <3>3, <3>5 DEF QuadOK, f
      <4> QED
        BY <1>6, <1>7, <1>8, <1>13, <3>2, <3>5, <4>1 DEF QuadOK
    <3>6. CASE p.id # id
      BY <1>13, <3>2, <3>3, <3>4, <3>6 DEF QuadOK
    <3> QED
      BY <3>5, <3>6
  <2> QED
    BY <2>1, <2>2
<1>19. BatchOK(h)
  <2>1. Len(batch.quads) <= MaxQuads
    BY <1>2, <1>9, <1>10, FragmentsAssumption
  <2>2. MapNamed(h, name).bitmap # NULL
    BY <1>5, <1>15
  <2> QED
    BY <1>7, <1>8, <1>10, <1>12, <1>13, <1>18, <2>1, <2>2 DEF BatchOK
<1>20. Steady(g, h)
  BY <1>2, <1>16, SteadyTwice
<1> QED
  BY <1>1, <1>5, <1>12, <1>14, <1>17, <1>19, <1>20 DEF GfxOK

-----------------------------------------------------------------------------
(* Fragments in new maps *)

(* GetNearestPowerOfTwo does not go below its argument. *)
LEMMA NearestIsEnough ==
  ASSUME NEW v \in Nat \ {0}
  PROVE  GetNearestPowerOfTwo(v) \in Nat \ {0} /\ v <= GetNearestPowerOfTwo(v)
<1> DEFINE M == Nat \ {0}
           one == 1
           step == [i \in 1..v |-> [a \in M |-> IF a < v THEN 2 * a ELSE a]]
           Above(w) == w = [i \in 0..v |-> IF i = 0 THEN 1 ELSE IF w[i - 1] < v THEN 2 * w[i - 1] ELSE w[i - 1]]
<1>1. step \in [1..v -> [M -> M]] /\ one \in M /\ v \in Nat
  OBVIOUS
<1>2. PICK f \in [0..v -> M] : f[0] = one /\ \A i \in 1..v : f[i] = step[i][f[i - 1]]
  <2> DEFINE n == v
  <2>1. n \in Nat /\ step \in [1..n -> [M -> M]] /\ one \in M
    BY <1>1
  <2> HIDE DEF step, M, one, n
  <2>2. \E f \in [0..n -> M] : f[0] = one /\ \A i \in 1..n : f[i] = step[i][f[i - 1]]
    BY <2>1, Recursion
  <2> QED
    BY <2>2 DEF n
<1>3. \A i \in 1..v : f[i] = IF f[i - 1] < v THEN 2 * f[i - 1] ELSE f[i - 1]
  <2> TAKE i \in 1..v
  <2>1. i - 1 \in 0..v
    OBVIOUS
  <2>2. f[i - 1] \in M
    BY <2>1
  <2> HIDE DEF M
  <2> QED
    BY <1>2, <2>2, ZenonT(20)
<1>4. \E w : Above(w)
  <2>1. \A i \in 0..v : i # 0 => i \in 1..v
    OBVIOUS
  <2>2. f = [i \in 0..v |-> IF i = 0 THEN 1 ELSE IF f[i - 1] < v THEN 2 * f[i - 1] ELSE f[i - 1]]
    BY <1>2, <1>3, <2>1
  <2> QED
    BY <2>2
<1> DEFINE W == CHOOSE w : Above(w)
<1>5. Above(W)
  BY <1>4, ZenonT(20)
<1>6. GetNearestPowerOfTwo(v) = W[v]
  BY DEF GetNearestPowerOfTwo
<1> HIDE DEF W
<1> DEFINE S == {k \in Nat : k <= v => W[k] \in M /\ (v <= W[k] \/ k + 1 <= W[k])}
<1>7. W[0] = 1 /\ \A i \in 1..v : W[i] = IF W[i - 1] < v THEN 2 * W[i - 1] ELSE W[i - 1]
  <2>1. 0 \in 0..v /\ \A i \in 1..v : i \in 0..v /\ i # 0
    OBVIOUS
  <2> QED
    BY <1>5, <2>1, ZenonT(20)
<1>8. 0 \in S
  BY <1>7
<1>9. ASSUME NEW k \in Nat, k \in S
      PROVE  k + 1 \in S
  <2> SUFFICES ASSUME k + 1 <= v
               PROVE  W[k + 1] \in M /\ (v <= W[k + 1] \/ k + 1 + 1 <= W[k + 1])
    OBVIOUS
  <2>1. k + 1 \in 1..v /\ k + 1 - 1 = k
    OBVIOUS
  <2>2. W[k + 1] = IF W[k] < v THEN 2 * W[k] ELSE W[k]
    BY <1>7, <2>1
  <2>3. W[k] \in Nat \ {0} /\ (v <= W[k] \/ k + 1 <= W[k])
    BY <1>9
  <2> QED
    BY <2>2, <2>3
<1>10. v \in S
  <2> HIDE DEF S
  <2> QED
    BY <1>1, <1>8, <1>9, Induction, ZenonT(20)
<1> QED
  BY <1>6, <1>10

(* The fragment itself fits into a map made for it. *)
LEMMA NewMapSizeOK ==
  ASSUME NEW mgr \in Manager, NEW id \in Fragment
  PROVE  LET s == NewMapSize(mgr, id)
         IN  /\ s.w \in Nat \ {0} /\ s.h \in Nat \ {0} /\ Size[id].w <= s.w /\ Size[id].h <= s.h
             /\ Size[id] \in [w : Nat \ {0}, h : Nat \ {0}]
             /\ Size[id].w \in Nat \ {0} /\ Size[id].h \in Nat \ {0}
<1> DEFINE least == IF id \in Dedicated THEN [w |-> 1, h |-> 1] ELSE DefaultSize[mgr]
           a == Larger(Size[id].w, least.w)
           b == Larger(Size[id].h, least.h)
<1>1. Size[id] \in [w : Nat \ {0}, h : Nat \ {0}] /\ DefaultSize[mgr] \in [w : Nat \ {0}, h : Nat \ {0}]
  BY FragmentsAssumption
<1>2. /\ Size[id].w \in Nat \ {0} /\ Size[id].h \in Nat \ {0}
      /\ least.w \in Nat \ {0} /\ least.h \in Nat \ {0}
  BY <1>1
<1>3. NewMapSize(mgr, id) = [w |-> GetNearestPowerOfTwo(a), h |-> GetNearestPowerOfTwo(b)]
  BY DEF NewMapSize
<1> HIDE DEF least
<1>4. a \in Nat \ {0} /\ Size[id].w <= a /\ b \in Nat \ {0} /\ Size[id].h <= b
  BY <1>2 DEF Larger
<1> HIDE DEF a, b
<1>5. /\ GetNearestPowerOfTwo(a) \in Nat \ {0} /\ a <= GetNearestPowerOfTwo(a)
      /\ GetNearestPowerOfTwo(b) \in Nat \ {0} /\ b <= GetNearestPowerOfTwo(b)
  BY <1>4, NearestIsEnough
<1> QED
  BY <1>1, <1>2, <1>3, <1>4, <1>5

(* An image is inside of what its fragment takes. *)
LEMMA EdgedWithin ==
  ASSUME NEW f \in Record, Edged(f)
  PROVE  /\ Within(f.rect, TakenBy(f)) /\ f.rect \in Rect /\ TakenBy(f) \in Takings
         /\ f.rect.w <= f.space.width /\ f.space.width \in Nat /\ f.row_height \in Nat /\ f.rect.w \in Nat
<1>1. /\ f.rect \in Rect /\ f.space \in [x : Nat, width : Nat \ {0}] /\ f.y \in Nat /\ f.row_height \in Nat \ {0}
  BY DEF Record
<1>2. /\ f.rect.x \in Nat /\ f.rect.y \in Nat /\ f.rect.w \in Nat /\ f.rect.h \in Nat
      /\ f.space.x \in Nat /\ f.space.width \in Nat \ {0}
  BY <1>1 DEF Rect
<1>3. PICK b \in {0, 1} : /\ f.rect.x = f.space.x + b /\ f.space.width = f.rect.w + 2 * b
                          /\ f.rect.y = f.y + b /\ f.rect.h + 2 * b <= f.row_height
  BY DEF Edged
<1>4. /\ f.space.x <= f.rect.x /\ f.rect.x + f.rect.w <= f.space.x + f.space.width
      /\ f.y <= f.rect.y /\ f.rect.y + f.rect.h <= f.y + f.row_height
      /\ f.rect.w <= f.space.width
  BY <1>1, <1>2, <1>3
<1>5. TakenBy(f) \in Takings /\ TakenBy(f).y = f.y /\ TakenBy(f).height = f.row_height /\ TakenBy(f).space = f.space
  BY <1>1 DEF Takings, TakenBy, Spaces
<1> QED
  BY <1>1, <1>2, <1>4, <1>5 DEF Within

(* k has, in the place of m, a map that a fragment has been put into. *)
Receives(k, g, id, m, frag) ==
  /\ MapsOK(k) /\ Names(g) \subseteq Names(k)
  /\ k.frags = [g.frags EXCEPT ![id] = frag] /\ k.batch = g.batch /\ k.wrong = g.wrong
  /\ m \in Maps /\ m.name \in Names(k) /\ m.name.mgr = ManagerOf[id]
  /\ \A name \in Names(k) \ {m.name} : name \in Names(g) /\ MapNamed(k, name) = MapNamed(g, name)
  /\ IF m.name \in Names(g) THEN m = MapNamed(g, m.name) ELSE Taken(m.rows) = {}
  /\ MapNamed(k, m.name).bitmap = m.bitmap /\ Placed(frag, MapNamed(k, m.name), m, id)

(* All agrees when a fragment is received, and no other loses its space. *)
LEMMA ReceivedOK ==
  ASSUME NEW g, GfxOK(g), NEW id \in Fragment, g.frags[id] = NULL, NEW k, NEW m, NEW frag,
         Receives(k, g, id, m, frag)
  PROVE  /\ GfxOK(k)
         /\ \A name \in Names(g) : Taken(MapNamed(g, name).rows) \subseteq Taken(MapNamed(k, name).rows)
         /\ Taken(MapNamed(k, m.name).rows) # {}
<1> DEFINE after == MapNamed(k, m.name)
<1>1. MapsOK(g) /\ SpaceOK(g) /\ BatchOK(g) /\ g.wrong = {} /\ g \in Graphics
  BY DEF GfxOK, MapsOK
<1>2. g.frags \in [Fragment -> Record \cup {NULL}]
  BY <1>1, GraphicsFields
<1>3. MapsOK(k) /\ k.frags = [g.frags EXCEPT ![id] = frag] /\ k.batch = g.batch /\ k.wrong = g.wrong
      /\ Names(g) \subseteq Names(k) /\ m \in Maps /\ m.name \in Names(k) /\ m.name.mgr = ManagerOf[id]
  BY DEF Receives
<1>4. /\ \A name \in Names(k) \ {m.name} : name \in Names(g) /\ MapNamed(k, name) = MapNamed(g, name)
      /\ m.name \in Names(g) => m = MapNamed(g, m.name)
      /\ m.name \notin Names(g) => Taken(m.rows) = {}
      /\ after.bitmap = m.bitmap
  BY DEF Receives
<1>5. /\ frag \in Record /\ frag.map = m.name /\ Edged(frag)
      /\ TakenBy(frag) \notin Taken(m.rows) /\ Taken(after.rows) = Taken(m.rows) \cup {TakenBy(frag)}
      /\ ImageAt(id, frag.rect) \in after.buffer
      /\ \A p \in m.buffer : (\E t \in Taken(m.rows) : Within(p.rect, t)) => p \in after.buffer
  BY DEF Receives, Placed
<1>6. k.frags[id] = frag /\ frag # NULL /\ \A other \in Fragment \ {id} : k.frags[other] = g.frags[other]
  BY <1>2, <1>3, <1>5, NullAssumption
<1> HIDE DEF after
<1>7. \A name \in Names(g) : Taken(MapNamed(g, name).rows) \subseteq Taken(MapNamed(k, name).rows)
  <2> TAKE name \in Names(g)
  <2>1. CASE name = m.name
    BY <1>4, <1>5, <2>1 DEF after
  <2>2. CASE name # m.name
    BY <1>3, <1>4, <2>2
  <2> QED
    BY <2>1, <2>2
<1>8. ASSUME NEW other \in Fragment \ {id}, g.frags[other] # NULL
      PROVE  FragOK(k, other)
  <2> DEFINE f == g.frags[other]
  <2>1. FragOK(g, other) /\ f \in Record
    BY <1>1, <1>2, <1>8 DEF SpaceOK
  <2>2. /\ f.map \in Names(g) /\ f.map.mgr = ManagerOf[other] /\ Edged(f)
        /\ TakenBy(f) \in Taken(MapNamed(g, f.map).rows)
        /\ ImageAt(other, f.rect) \in MapNamed(g, f.map).buffer
    BY <2>1 DEF FragOK
  <2>3. k.frags[other] = f
    BY <1>6
  <2> HIDE DEF f
  <2>4. f.map \in Names(k) /\ TakenBy(f) \in Taken(MapNamed(k, f.map).rows)
    BY <1>3, <1>7, <2>2
  <2>5. ImageAt(other, f.rect) \in MapNamed(k, f.map).buffer
    <3>1. CASE f.map = m.name
      <4>1. m = MapNamed(g, f.map)
        BY <1>4, <2>2, <3>1
      <4>2. Within(f.rect, TakenBy(f)) /\ ImageAt(other, f.rect).rect = f.rect
        BY <2>1, <2>2, EdgedWithin DEF ImageAt
      <4> QED
        BY <1>5, <2>2, <3>1, <4>1, <4>2 DEF after
    <3>2. CASE f.map # m.name
      BY <1>4, <2>2, <2>4, <3>2
    <3> QED
      BY <3>1, <3>2
  <2> QED
    BY <2>2, <2>3, <2>4, <2>5 DEF FragOK
<1>9. FragOK(k, id)
  BY <1>3, <1>5, <1>6 DEF FragOK, after
<1>10. ASSUME NEW a \in Fragment, NEW b \in Fragment, k.frags[a] # NULL, k.frags[b] # NULL,
              k.frags[a].map = k.frags[b].map, TakenBy(k.frags[a]) = TakenBy(k.frags[b])
       PROVE  a = b
  <2>1. ASSUME NEW c \in Fragment \ {id}, g.frags[c] # NULL, g.frags[c].map = m.name
        PROVE  TakenBy(g.frags[c]) # TakenBy(frag)
    <3>1. FragOK(g, c)
      BY <1>1, <2>1 DEF SpaceOK
    <3>2. m.name \in Names(g) /\ TakenBy(g.frags[c]) \in Taken(MapNamed(g, m.name).rows)
      BY <2>1, <3>1 DEF FragOK
    <3> QED
      BY <1>4, <1>5, <3>2
  <2>2. CASE a = id /\ b # id
    BY <1>5, <1>6, <1>10, <2>1, <2>2
  <2>3. CASE b = id /\ a # id
    BY <1>5, <1>6, <1>10, <2>1, <2>3
  <2>4. CASE a # id /\ b # id
    BY <1>1, <1>6, <1>10, <2>4 DEF SpaceOK
  <2> QED
    BY <2>2, <2>3, <2>4
<1>11. ASSUME NEW name \in Names(k), NEW t \in Taken(MapNamed(k, name).rows)
       PROVE  \E other \in Fragment : k.frags[other] # NULL /\ k.frags[other].map = name /\ TakenBy(k.frags[other]) = t
  <2>1. CASE name = m.name /\ t = TakenBy(frag)
    BY <1>5, <1>6, <2>1
  <2>2. CASE ~(name = m.name /\ t = TakenBy(frag))
    <3>1. name \in Names(g) /\ t \in Taken(MapNamed(g, name).rows)
      BY <1>4, <1>5, <1>11, <2>2 DEF after
    <3>2. PICK other \in Fragment : g.frags[other] # NULL /\ g.frags[other].map = name /\ TakenBy(g.frags[other]) = t
      BY <1>1, <3>1 DEF SpaceOK
    <3>3. other # id
      BY <3>2
    <3> QED
      BY <1>6, <3>2, <3>3
  <2> QED
    BY <2>1, <2>2
<1>12. SpaceOK(k)
  <2>1. \A other \in Fragment : k.frags[other] # NULL => FragOK(k, other)
    BY <1>6, <1>8, <1>9
  <2> QED
    BY <1>10, <1>11, <2>1 DEF SpaceOK
<1>13. BatchOK(k)
  <2>1. CASE g.batch.quads = <<>>
    BY <1>1, <1>3, <2>1 DEF BatchOK
  <2>2. CASE g.batch.quads # <<>>
    <3> DEFINE last == g.batch.fragment
               name == g.batch.bitmap
    <3>1. /\ last \in Fragment /\ g.frags[last] # NULL /\ g.frags[last].in_batch = TRUE
          /\ g.frags[last].map = name /\ MapNamed(g, name).bitmap # NULL
          /\ \A i \in 1..Len(g.batch.quads) : QuadOK(g, g.batch.quads[i], name)
      BY <1>1, <2>2 DEF BatchOK
    <3>2. last # id /\ name \in Names(g)
      BY <1>1, <3>1 DEF SpaceOK, FragOK
    <3>3. MapNamed(k, name).bitmap # NULL
      <4>1. CASE name = m.name
        BY <1>4, <3>1, <3>2, <4>1 DEF after
      <4>2. CASE name # m.name
        BY <1>3, <1>4, <3>1, <3>2, <4>2
      <4> QED
        BY <4>1, <4>2
    <3>4. ASSUME NEW i \in 1..Len(g.batch.quads)
          PROVE  QuadOK(k, g.batch.quads[i], name)
      <4> DEFINE q == g.batch.quads[i]
      <4>1. q \in Pixels /\ QuadOK(g, q, name)
        BY <1>1, <3>1, GraphicsFields
      <4> HIDE DEF q
      <4>2. q.id \in Fragment /\ q.id # id
        BY <4>1 DEF Pixels, QuadOK
      <4> QED
        BY <1>6, <4>1, <4>2, ZenonT(20) DEF QuadOK, q
    <3>5. Len(g.batch.quads) <= MaxQuads
      BY <1>1 DEF BatchOK
    <3>6. k.frags[last] = g.frags[last]
      BY <1>6, <3>1, <3>2
    <3> HIDE DEF last, name
    <3>7. last = k.batch.fragment /\ name = k.batch.bitmap /\ g.batch.quads = k.batch.quads
      BY <1>3 DEF last, name
    <3> QED
      BY <2>2, <3>1, <3>3, <3>4, <3>5, <3>6, <3>7 DEF BatchOK
  <2> QED
    BY <2>1, <2>2
<1>14. GfxOK(k)
  BY <1>1, <1>3, <1>12, <1>13 DEF GfxOK
<1> QED
  BY <1>5, <1>7, <1>14 DEF after

(* Another list of maps and another fragment *)
WithFragment(g, k, h, id, frag) ==
  /\ MapsOK(h) /\ Names(h) = Names(k) /\ \A name : MapNamed(h, name) = MapNamed(k, name)
  /\ h.frags = [g.frags EXCEPT ![id] = frag] /\ h.batch = g.batch /\ h.wrong = g.wrong

(* The fields of gfx when a fragment was made *)
LEMMA CreatedFields ==
  ASSUME NEW g, MapsOK(g), NEW mgr \in Manager, NEW list, NEW id \in Fragment, NEW frag \in Record \cup {NULL},
         MapsOK([g EXCEPT !.maps[mgr] = list])
  PROVE  WithFragment(g, [g EXCEPT !.maps[mgr] = list], Created(g, mgr, id, list, frag), id, frag)
<1> DEFINE k == [g EXCEPT !.maps[mgr] = list]
           h == Created(g, mgr, id, list, frag)
<1>1. g \in Graphics /\ k \in Graphics
  BY DEF MapsOK
<1>2. h = [k EXCEPT !.frags[id] = frag]
  BY <1>1 DEF Created, Graphics
<1>3. /\ k.maps = [g.maps EXCEPT ![mgr] = list] /\ k.frags = g.frags /\ k.batch = g.batch /\ k.wrong = g.wrong
  BY <1>1 DEF Graphics
<1> HIDE DEF h
<1> HIDE DEF k
<1>4. /\ h \in Graphics /\ h.maps = k.maps /\ h.frags = [k.frags EXCEPT ![id] = frag]
      /\ h.batch = k.batch /\ h.wrong = k.wrong
  <2>1. [k.frags EXCEPT ![id] = frag] \in [Fragment -> Record \cup {NULL}]
    BY <1>1, GraphicsFields
  <2> QED
    BY <1>1, <1>2, <2>1, ZenonT(20) DEF Graphics
<1>5. h.maps = k.maps
  BY <1>4
<1>6. MapsOK(h)
  <2>1. MapsOK(k)
    BY DEF k
  <2> QED
    BY <1>4, <1>5, <2>1 DEF MapsOK
<1>7. Names(h) = Names(k) /\ \A name : MapNamed(h, name) = MapNamed(k, name)
  BY <1>5 DEF Names, MapNamed, Place
<1> QED
  BY <1>3, <1>4, <1>6, <1>7 DEF h, k, WithFragment

(* A map is made for nothing. *)
LEMMA EmptyMapOK ==
  ASSUME NEW g, GfxOK(g), NEW k, MapsOK(k), Names(g) \subseteq Names(k),
         k.frags = g.frags, k.batch = g.batch, k.wrong = g.wrong,
         \A name \in Names(g) : MapNamed(k, name) = MapNamed(g, name),
         \A name \in Names(k) \ Names(g) : Taken(MapNamed(k, name).rows) = {}
  PROVE  GfxOK(k)
<1>1. MapsOK(g) /\ SpaceOK(g) /\ BatchOK(g) /\ g.wrong = {}
  BY DEF GfxOK
<1>2. SpaceOK(k)
  <2>1. \A id \in Fragment : k.frags[id] # NULL => FragOK(k, id)
    BY <1>1 DEF SpaceOK, FragOK
  <2>2. ASSUME NEW name \in Names(k), NEW t \in Taken(MapNamed(k, name).rows)
        PROVE  \E id \in Fragment : k.frags[id] # NULL /\ k.frags[id].map = name /\ TakenBy(k.frags[id]) = t
    <3>1. name \in Names(g) /\ t \in Taken(MapNamed(g, name).rows)
      BY <2>2
    <3> QED
      BY <1>1, <3>1 DEF SpaceOK
  <2> QED
    BY <1>1, <2>1, <2>2 DEF SpaceOK
<1>3. BatchOK(k)
  <2>1. ASSUME g.batch.quads # <<>>
        PROVE  g.batch.bitmap \in Names(g)
    BY <1>1, <2>1 DEF BatchOK, SpaceOK, FragOK
  <2> QED
    BY <1>1, <2>1, SMTT(20) DEF BatchOK, QuadOK
<1> QED
  BY <1>1, <1>2, <1>3 DEF GfxOK

(* What CreateNewFragment of a manager does *)
Creates(g, h, id) ==
  /\ GfxOK(h) /\ Names(g) \subseteq Names(h)
  /\ \A other \in Fragment \ {id} : h.frags[other] = g.frags[other]
  /\ \A name \in Names(g) : Taken(MapNamed(g, name).rows) \subseteq Taken(MapNamed(h, name).rows)
  /\ \A name \in Names(h) \ Names(g) :
       Taken(MapNamed(h, name).rows) # {} \/ (name.mgr = Skin /\ ~NewMapsFit)

(* In the first map that has room *)
LEMMA CreateInRoom ==
  ASSUME NEW g, GfxOK(g), NEW id \in Fragment, g.frags[id] = NULL,
         NEW i \in 1..Len(g.maps[ManagerOf[id]]),
         CreateInMap(g.maps[ManagerOf[id]][i], id, Size[id], ManagerOf[id] = Skin).frag # NULL
  PROVE  LET mgr == ManagerOf[id]
             got == CreateInMap(g.maps[mgr][i], id, Size[id], mgr = Skin)
             h == Created(g, mgr, id, [g.maps[mgr] EXCEPT ![i] = got.map], got.frag)
         IN  Creates(g, h, id) /\ h.frags[id] # NULL
<1> DEFINE mgr == ManagerOf[id]
           maps == g.maps[mgr]
           m == maps[i]
           got == CreateInMap(m, id, Size[id], mgr = Skin)
           list == [maps EXCEPT ![i] = got.map]
           k == [g EXCEPT !.maps[mgr] = list]
           h == Created(g, mgr, id, list, got.frag)
<1>1. MapsOK(g) /\ mgr \in Manager /\ g \in Graphics
  BY FragmentsAssumption DEF GfxOK, MapsOK
<1>2. m.name \in Names(g) /\ m.name.mgr = mgr /\ Place(g, m.name) = i /\ MapNamed(g, m.name) = m /\ m \in Maps
  <2>1. /\ m.name \in Names(g) /\ m.name.mgr = mgr /\ Place(g, m.name) = i /\ MapNamed(g, m.name) = m
    BY <1>1, MapFound
  <2> QED
    BY <1>1, <2>1, MapFound
<1> HIDE DEF m
<1>3. Base(m) = m
  BY <1>2, MapFields DEF Base
<1>4. got.map \in Maps /\ got.map.name = m.name /\ got.map.bitmap = m.bitmap /\ Placed(got.frag, got.map, m, id)
  <2>1. Size[id] \in [w : Nat \ {0}, h : Nat \ {0}]
    BY FragmentsAssumption
  <2>2. got.frag # NULL
    BY DEF m
  <2> QED
    BY <1>2, <1>3, <2>1, <2>2, CreateInMapOK
<1>5. got.frag \in Record /\ got.frag # NULL
  BY <1>4, NullAssumption DEF Placed
<1> HIDE DEF got
<1>6. SetMap(g, got.map) = k
  BY <1>2, <1>4, ZenonT(20) DEF SetMap
<1>7. /\ MapsOK(k) /\ Names(k) = Names(g) /\ MapNamed(k, m.name) = got.map
      /\ \A name \in Names(g) \ {m.name} : MapNamed(k, name) = MapNamed(g, name)
  <2> HIDE DEF k
  <2> QED
    BY <1>1, <1>2, <1>4, <1>6, SetMapOK
<1>8. /\ MapsOK(h) /\ Names(h) = Names(k) /\ \A name : MapNamed(h, name) = MapNamed(k, name)
      /\ h.frags = [g.frags EXCEPT ![id] = got.frag] /\ h.batch = g.batch /\ h.wrong = g.wrong
  <2>1. MapsOK(k)
    BY <1>7
  <2> HIDE DEF list, mgr
  <2>2. WithFragment(g, k, h, id, got.frag)
    BY <1>1, <1>5, <2>1, CreatedFields
  <2> HIDE DEF k, h
  <2> QED
    BY <2>2 DEF WithFragment
<1>9. g.frags \in [Fragment -> Record \cup {NULL}]
  BY <1>1, GraphicsFields
<1> HIDE DEF h
<1> HIDE DEF k
<1>10. Receives(h, g, id, m, got.frag)
  <2>1. /\ m.name.mgr = ManagerOf[id] /\ m.name \in Names(h)
        /\ MapNamed(h, m.name).bitmap = m.bitmap /\ Placed(got.frag, MapNamed(h, m.name), m, id)
    BY <1>2, <1>4, <1>7, <1>8
  <2> QED
    BY <1>2, <1>7, <1>8, <2>1 DEF Receives
<1>11. /\ GfxOK(h)
       /\ \A name \in Names(g) : Taken(MapNamed(g, name).rows) \subseteq Taken(MapNamed(h, name).rows)
  BY <1>10, ReceivedOK, ZenonT(20)
<1>12. Creates(g, h, id) /\ h.frags[id] # NULL
  BY <1>5, <1>7, <1>8, <1>9, <1>11 DEF Creates
<1> QED
  BY <1>12, ZenonT(20) DEF h, got, m

(* In a new map *)
LEMMA CreateInNew ==
  ASSUME NEW g, GfxOK(g), NEW id \in Fragment, g.frags[id] = NULL,
         MapsLimit[ManagerOf[id]] = 0 \/ Len(g.maps[ManagerOf[id]]) < MapsLimit[ManagerOf[id]]
  PROVE  LET mgr == ManagerOf[id]
             s == NewMapSize(mgr, id)
             got == CreateInMap(NewMap(NewName(g, mgr), s.w, s.h), id, Size[id], mgr = Skin)
             h == Created(g, mgr, id, Append(g.maps[mgr], got.map), got.frag)
         IN  Creates(g, h, id) /\ (h.frags[id] # NULL \/ (mgr = Skin /\ ~NewMapsFit))
<1> DEFINE mgr == ManagerOf[id]
           s == NewMapSize(mgr, id)
           name == NewName(g, mgr)
           map == NewMap(name, s.w, s.h)
           m == Base(map)
           b == Border(map, Size[id], mgr = Skin)
           got == CreateInMap(map, id, Size[id], mgr = Skin)
           list == Append(g.maps[mgr], got.map)
           k == [g EXCEPT !.maps[mgr] = list]
           h == Created(g, mgr, id, list, got.frag)
<1>1. MapsOK(g) /\ mgr \in Manager /\ g \in Graphics
  BY FragmentsAssumption DEF GfxOK, MapsOK
<1>2. /\ s.w \in Nat \ {0} /\ s.h \in Nat \ {0} /\ Size[id].w <= s.w /\ Size[id].h <= s.h
      /\ Size[id] \in [w : Nat \ {0}, h : Nat \ {0}]
      /\ Size[id].w \in Nat \ {0} /\ Size[id].h \in Nat \ {0}
  <2> HIDE DEF mgr
  <2> QED
    BY <1>1, NewMapSizeOK
<1>3. mgr = Skin /\ NewMapsFit =>
        (Size[id].w = s.w /\ Size[id].h = s.h) \/ (Size[id].w + 2 <= s.w /\ Size[id].h + 2 <= s.h)
  BY DEF NewMapsFit
<1> HIDE DEF s
<1>4. name \in Name /\ name.mgr = mgr /\ name \notin Names(g)
  BY <1>1, NewNameOK
<1> HIDE DEF name
<1>5. /\ m \in Maps /\ m.name = name /\ Taken(m.rows) = {} /\ map.w = s.w /\ map.h = s.h
      /\ RoomFor(m.rows, s.w, s.h)
  <2> DEFINE Good(a, c) ==
        LET new == NewMap(name, a, c)
        IN  /\ Base(new) \in Maps /\ Base(new).name = name /\ Taken(Base(new).rows) = {}
            /\ new.w = a /\ new.h = c /\ RoomFor(Base(new).rows, a, c)
  <2>1. \A wide \in Nat \ {0}, high \in Nat \ {0} : Good(wide, high)
    BY <1>4, NewMapBase
  <2> HIDE DEF Good
  <2>2. Good(s.w, s.h)
    BY <1>2, <2>1
  <2> QED
    BY <2>2 DEF Good
<1> HIDE DEF m, map
<1>6. mgr # Skin \/ NewMapsFit => BestRow(m.rows, Size[id].w + 2 * b, Size[id].h + 2 * b) # 0
  <2> SUFFICES ASSUME mgr # Skin \/ NewMapsFit
               PROVE  /\ Size[id].w + 2 * b \in Nat /\ Size[id].w + 2 * b <= s.w
                      /\ Size[id].h + 2 * b \in Nat /\ Size[id].h + 2 * b <= s.h
    BY <1>5 DEF RoomFor
  <2>1. b \in {0, 1} /\ (b = 1 => mgr = Skin /\ (Size[id].w # s.w \/ Size[id].h # s.h))
    BY <1>5 DEF Border
  <2> HIDE DEF b
  <2> QED
    BY <1>2, <1>3, <2>1
<1> HIDE DEF b
<1>7. /\ got.map \in Maps /\ got.map.name = name /\ got.map.bitmap = m.bitmap
      /\ got.frag = NULL => got.map = m
      /\ got.frag # NULL => Placed(got.frag, got.map, m, id)
      /\ mgr # Skin \/ NewMapsFit => got.frag # NULL
  <2>1. /\ got.map \in Maps /\ got.map.name = m.name /\ got.map.bitmap = m.bitmap
        /\ got.frag = NULL <=> BestRow(m.rows, Size[id].w + 2 * b, Size[id].h + 2 * b) = 0
        /\ got.frag = NULL => got.map = m
        /\ got.frag # NULL => Placed(got.frag, got.map, m, id)
    BY <1>2, <1>5, CreateInMapOK DEF m, b
  <2> QED
    BY <1>5, <1>6, <2>1
<1>8. got.frag \in Record \cup {NULL}
  BY <1>7 DEF Placed
<1> HIDE DEF got
<1>9. /\ MapsOK(k) /\ Names(k) = Names(g) \cup {name} /\ MapNamed(k, name) = got.map
      /\ \A other \in Names(g) : MapNamed(k, other) = MapNamed(g, other)
  <2>1. MapAdded(g, k, got.map)
    BY <1>1, <1>4, <1>7, MapAppended
  <2> HIDE DEF k
  <2> QED
    BY <1>7, <2>1 DEF MapAdded
<1>10. /\ MapsOK(h) /\ Names(h) = Names(k) /\ \A other : MapNamed(h, other) = MapNamed(k, other)
       /\ h.frags = [g.frags EXCEPT ![id] = got.frag] /\ h.batch = g.batch /\ h.wrong = g.wrong
  <2>1. MapsOK(k)
    BY <1>9
  <2> HIDE DEF list, mgr
  <2>2. WithFragment(g, k, h, id, got.frag)
    BY <1>1, <1>8, <2>1, CreatedFields
  <2> HIDE DEF k, h
  <2> QED
    BY <2>2 DEF WithFragment
<1>11. g.frags \in [Fragment -> Record \cup {NULL}]
  BY <1>1, GraphicsFields
<1> HIDE DEF h
<1> HIDE DEF k
<1>12. CASE got.frag # NULL
  <2>1. Receives(h, g, id, m, got.frag)
    <3>1. /\ m.name.mgr = ManagerOf[id] /\ m.name \in Names(h) /\ m.name \notin Names(g)
          /\ MapNamed(h, m.name).bitmap = m.bitmap /\ Placed(got.frag, MapNamed(h, m.name), m, id)
          /\ \A other \in Names(h) \ {m.name} : other \in Names(g) /\ MapNamed(h, other) = MapNamed(g, other)
          /\ Names(g) \subseteq Names(h)
      BY <1>4, <1>5, <1>7, <1>9, <1>10, <1>12
    <3> QED
      BY <1>5, <1>10, <3>1 DEF Receives
  <2>2. /\ GfxOK(h) /\ Taken(MapNamed(h, m.name).rows) # {}
        /\ \A other \in Names(g) : Taken(MapNamed(g, other).rows) \subseteq Taken(MapNamed(h, other).rows)
    BY <2>1, ReceivedOK, ZenonT(20)
  <2>3. Creates(g, h, id) /\ h.frags[id] # NULL
    BY <1>5, <1>9, <1>10, <1>11, <1>12, <2>2 DEF Creates
  <2> QED
    BY <2>3 DEF h, got, map, name, s
<1>13. CASE got.frag = NULL
  <2>1. mgr = Skin /\ ~NewMapsFit
    BY <1>7, <1>13
  <2>2. h.frags = g.frags
    BY <1>10, <1>11, <1>13
  <2>3. \A other \in Names(h) \ Names(g) : other = name /\ Taken(MapNamed(h, other).rows) = {}
    BY <1>5, <1>7, <1>9, <1>10, <1>13
  <2>4. Names(g) \subseteq Names(h) /\ \A other \in Names(g) : MapNamed(h, other) = MapNamed(g, other)
    BY <1>9, <1>10
  <2>5. GfxOK(h)
    BY <1>10, <2>2, <2>3, <2>4, EmptyMapOK, ZenonT(20)
  <2>6. Creates(g, h, id)
    BY <1>4, <2>1, <2>2, <2>3, <2>4, <2>5 DEF Creates
  <2> QED
    BY <2>1, <2>6 DEF h, got, map, name, s
<1> QED
  BY <1>12, <1>13

-----------------------------------------------------------------------------
(* BitmapFragmentManager::CreateNewFragment *)

(* CreateNewFragment makes the fragment or, for want of room, none; but for the skin, nothing changes then. *)
LEMMA CreateNewFragmentOK ==
  ASSUME NEW g, GfxOK(g), NEW id \in Fragment, g.frags[id] = NULL
  PROVE  LET h == CreateNewFragment(g, ManagerOf[id], id)
         IN  Creates(g, h, id) /\ (ManagerOf[id] # Skin => h.frags[id] # NULL \/ h = g)
<1> DEFINE mgr == ManagerOf[id]
           maps == g.maps[mgr]
           In(m) == CreateInMap(m, id, Size[id], mgr = Skin)
           room == IF id \in Dedicated THEN {} ELSE {i \in DOMAIN maps : In(maps[i]).frag # NULL}
           first == Min(room)
           s == NewMapSize(mgr, id)
           new == In(NewMap(NewName(g, mgr), s.w, s.h))
           limit == MapsLimit[mgr] = 0 \/ Len(maps) < MapsLimit[mgr]
           one == Created(g, mgr, id, [maps EXCEPT ![first] = In(maps[first]).map], In(maps[first]).frag)
           two == Created(g, mgr, id, Append(maps, new.map), new.frag)
           h == CreateNewFragment(g, mgr, id)
<1>1. h = IF room # {} THEN one ELSE IF limit THEN two ELSE g
  BY DEF CreateNewFragment
<1>2. MapsOK(g) /\ mgr \in Manager /\ maps \in Seq(Maps)
  <2>1. MapsOK(g) /\ mgr \in Manager
    BY FragmentsAssumption DEF GfxOK
  <2> QED
    BY <2>1 DEF MapsOK, ListOK
<1>3. CASE room # {}
  <2>1. first \in room
    <3>1. room \in SUBSET Nat
      BY <1>2
    <3> HIDE DEF room
    <3> QED
      BY <1>3, <3>1, MinIsLeast
  <2>2. \A i : i \in room => i \in DOMAIN maps /\ In(maps[i]).frag # NULL
    OBVIOUS
  <2> HIDE DEF first, room
  <2>3. first \in DOMAIN maps /\ In(maps[first]).frag # NULL
    BY <2>1, <2>2
  <2>4. first \in 1..Len(maps)
    BY <1>2, <2>3
  <2>5. Creates(g, one, id) /\ one.frags[id] # NULL
    BY <2>3, <2>4, CreateInRoom
  <2> HIDE DEF one, two, h
  <2>6. h = one
    BY <1>1, <1>3
  <2> QED
    BY <2>5, <2>6 DEF h
<1>4. CASE room = {} /\ limit
  <2>1. Creates(g, two, id) /\ (two.frags[id] # NULL \/ (mgr = Skin /\ ~NewMapsFit))
    BY <1>4, CreateInNew
  <2> HIDE DEF one, two, h, room, limit
  <2>2. h = two
    BY <1>1, <1>4
  <2> QED
    BY <2>1, <2>2 DEF h
<1>5. CASE room = {} /\ ~limit
  <2> HIDE DEF one, two, h, room, limit
  <2>1. h = g
    BY <1>1, <1>5
  <2>2. Creates(g, g, id)
    BY DEF Creates
  <2> QED
    BY <2>1, <2>2 DEF h
<1> QED
  BY <1>3, <1>4, <1>5

(* When there is room for a glyph *)
CacheHasRoom(g, id) ==
  \/ \A name \in Names(g) : name.mgr # Cache
  \/ \E name \in Names(g) : name.mgr = Cache /\ BestRow(MapNamed(g, name).rows, Size[id].w, Size[id].h) # 0

(* With room in the cache, the glyph gets its fragment. *)
LEMMA GlyphGetsRoom ==
  ASSUME NEW g, GfxOK(g), NEW id \in Glyph, g.frags[id] = NULL, CacheHasRoom(g, id)
  PROVE  CreateNewFragment(g, Cache, id).frags[id] # NULL
<1> DEFINE maps == g.maps[Cache]
           In(m) == CreateInMap(m, id, Size[id], Cache = Skin)
           room == IF id \in Dedicated THEN {} ELSE {i \in DOMAIN maps : In(maps[i]).frag # NULL}
           first == Min(room)
           s == NewMapSize(Cache, id)
           new == In(NewMap(NewName(g, Cache), s.w, s.h))
           one == Created(g, Cache, id, [maps EXCEPT ![first] = In(maps[first]).map], In(maps[first]).frag)
           two == Created(g, Cache, id, Append(maps, new.map), new.frag)
           h == CreateNewFragment(g, Cache, id)
<1>1. h = IF room # {} THEN one ELSE IF MapsLimit[Cache] = 0 \/ Len(maps) < MapsLimit[Cache] THEN two ELSE g
  BY DEF CreateNewFragment
<1>2. /\ MapsOK(g) /\ id \in Fragment /\ ManagerOf[id] = Cache /\ Cache \in Manager /\ Cache # Skin
      /\ id \notin Dedicated /\ MapsLimit[Cache] = 1 /\ Size[id] \in [w : Nat \ {0}, h : Nat \ {0}]
  BY FragmentsAssumption DEF GfxOK, Glyph
<1>3. maps \in Seq(Maps) /\ Len(maps) \in Nat
  BY <1>2 DEF MapsOK, ListOK
<1>4. CASE room # {}
  <2>1. first \in room
    <3>1. room \in SUBSET Nat
      BY <1>3
    <3> HIDE DEF room
    <3> QED
      BY <1>4, <3>1, MinIsLeast
  <2>2. \A i : i \in room => i \in DOMAIN maps /\ In(maps[i]).frag # NULL
    OBVIOUS
  <2> HIDE DEF first, room
  <2>3. first \in DOMAIN maps /\ In(maps[first]).frag # NULL
    BY <2>1, <2>2
  <2>4. first \in 1..Len(maps)
    BY <1>3, <2>3
  <2>5. one.frags[id] # NULL
    BY <1>2, <2>3, <2>4, CreateInRoom
  <2> HIDE DEF one, two, h
  <2>6. h = one
    BY <1>1, <1>4
  <2> QED
    BY <2>5, <2>6 DEF h
<1>5. CASE room = {}
  <2>1. ASSUME NEW name \in Names(g), name.mgr = Cache
        PROVE  BestRow(MapNamed(g, name).rows, Size[id].w, Size[id].h) = 0
    <3> DEFINE i == Place(g, name)
               m == MapNamed(g, name)
    <3>1. i \in 1..Len(maps) /\ maps[i] = m /\ m \in Maps
      BY <1>2, <2>1, MapFound
    <3>2. In(m).frag = NULL
      BY <1>2, <1>3, <1>5, <3>1
    <3> HIDE DEF m
    <3>3. Base(m) = m
      BY <3>1, MapFields DEF Base
    <3>4. Border(m, Size[id], Cache = Skin) = 0
      BY <1>2 DEF Border
    <3>5. In(m).frag = NULL <=> BestRow(m.rows, Size[id].w + 2 * 0, Size[id].h + 2 * 0) = 0
      BY <1>2, <3>1, <3>3, <3>4, CreateInMapOK
    <3>6. Size[id].w + 2 * 0 = Size[id].w /\ Size[id].h + 2 * 0 = Size[id].h
      BY <1>2
    <3> QED
      BY <3>2, <3>5, <3>6 DEF m
  <2>2. \A name \in Names(g) : name.mgr # Cache
    BY <2>1 DEF CacheHasRoom
  <2>3. Len(maps) = 0
    <3> SUFFICES ASSUME Len(maps) # 0
                 PROVE  FALSE
      OBVIOUS
    <3>1. 1 \in 1..Len(maps)
      BY <1>3
    <3>2. maps[1].name \in Names(g) /\ maps[1].name.mgr = Cache
      BY <1>2, <3>1, MapFound
    <3> QED
      BY <2>2, <3>2
  <2>4. h = two
    <3>1. Len(maps) < MapsLimit[Cache]
      BY <1>2, <2>3
    <3> HIDE DEF one, two, h, room
    <3> QED
      BY <1>1, <1>5, <3>1
  <2>5. two.frags[id] # NULL \/ (Cache = Skin /\ ~NewMapsFit)
    <3>1. Len(maps) < MapsLimit[Cache]
      BY <1>2, <2>3
    <3> QED
      BY <1>2, <3>1, CreateInNew
  <2> HIDE DEF two, h
  <2> QED
    BY <1>2, <2>4, <2>5 DEF h
<1> QED
  BY <1>4, <1>5

-----------------------------------------------------------------------------
(* BitmapFragmentManager::FreeFragment *)

(* What freeing a fragment leaves: its map has room for anything no larger, unless
   it is gone. *)
Freed(g, h, id) ==
  /\ GfxOK(h) /\ h.frags[id] = NULL
  /\ \A other \in Fragment \ {id} : h.frags[other] = NULL <=> g.frags[other] = NULL
  /\ Names(h) \subseteq Names(g)
  /\ \A name \in Names(h) : name # g.frags[id].map =>
       Taken(MapNamed(h, name).rows) = Taken(MapNamed(g, name).rows)
  /\ g.frags[id].map \in Names(h) =>
       LET rows == MapNamed(h, g.frags[id].map).rows
       IN  Taken(rows) # {} /\ RoomFor(rows, g.frags[id].space.width, g.frags[id].row_height)

(* Its space is free, and nothing is drawn of it any more. *)
LEMMA SpaceFreed ==
  ASSUME NEW g, GfxOK(g), NEW id \in Fragment, g.frags[id] # NULL,
         g.batch.quads # <<>> => g.frags[id].in_batch # TRUE
  PROVE  LET f == g.frags[id]
             m == FreeFragmentSpace(MapNamed(g, f.map), id, f)
             h == [SetMap(g, m) EXCEPT !.frags[id] = NULL]
         IN  /\ GfxOK(h) /\ m \in Maps /\ m.name = f.map /\ f.map \in Names(g)
             /\ h.frags[id] = NULL /\ \A other \in Fragment \ {id} : h.frags[other] = g.frags[other]
             /\ Names(h) = Names(g) /\ MapNamed(h, f.map) = m
             /\ \A name \in Names(g) \ {f.map} : MapNamed(h, name) = MapNamed(g, name)
             /\ RoomFor(m.rows, f.space.width, f.row_height)
<1> DEFINE f == g.frags[id]
           name == f.map
           old == MapNamed(g, name)
           m == FreeFragmentSpace(old, id, f)
           k == SetMap(g, m)
           h == [k EXCEPT !.frags[id] = NULL]
<1>1. MapsOK(g) /\ SpaceOK(g) /\ BatchOK(g) /\ g.wrong = {} /\ g \in Graphics
  BY DEF GfxOK, MapsOK
<1>2. g.frags \in [Fragment -> Record \cup {NULL}]
  BY <1>1, GraphicsFields
<1>3. f \in Record /\ name \in Names(g) /\ TakenBy(f) \in Taken(old.rows)
  BY <1>1, <1>2 DEF SpaceOK, FragOK
<1>4. old \in Maps /\ old.name = name
  BY <1>1, <1>3, MapFound
<1> HIDE DEF old, name
<1>5. Unplaced(m, old, id, f)
  <2> HIDE DEF f
  <2> QED
    BY <1>3, <1>4, FreeFragmentSpaceOK
<1> HIDE DEF m
<1>6. /\ m \in Maps /\ m.name = name /\ m.bitmap = old.bitmap
      /\ Taken(m.rows) = Taken(old.rows) \ {TakenBy(f)}
      /\ m.buffer = old.buffer \ {ImageAt(id, f.rect)}
      /\ RoomFor(m.rows, f.space.width, f.row_height)
  BY <1>4, <1>5 DEF Unplaced, RoomFor
<1>7. /\ MapsOK(k) /\ k.frags = g.frags /\ k.batch = g.batch /\ k.wrong = g.wrong
      /\ Names(k) = Names(g) /\ MapNamed(k, name) = m
      /\ \A other \in Names(g) \ {name} : MapNamed(k, other) = MapNamed(g, other)
  BY <1>1, <1>3, <1>6, SetMapOK
<1> HIDE DEF k
<1>8. k \in Graphics /\ [g.frags EXCEPT ![id] = NULL] \in [Fragment -> Record \cup {NULL}]
  BY <1>2, <1>7 DEF MapsOK
<1>9. /\ h \in Graphics /\ h.maps = k.maps /\ h.batch = g.batch /\ h.wrong = g.wrong
      /\ h.frags = [g.frags EXCEPT ![id] = NULL]
  BY <1>7, <1>8, ZenonT(20) DEF Graphics
<1> HIDE DEF h
<1>10. h.frags[id] = NULL /\ \A other \in Fragment \ {id} : h.frags[other] = g.frags[other]
  BY <1>2, <1>9
<1>11. h.maps = k.maps
  BY <1>9
<1>12. MapsOK(h)
  BY <1>7, <1>9, <1>11 DEF MapsOK
<1>13. Names(h) = Names(k) /\ \A other : MapNamed(h, other) = MapNamed(k, other)
  BY <1>11 DEF Names, MapNamed, Place
<1>14. ASSUME NEW other \in Fragment \ {id}, g.frags[other] # NULL
       PROVE  FragOK(h, other)
  <2> DEFINE e == g.frags[other]
  <2>1. /\ e.map \in Names(g) /\ e.map.mgr = ManagerOf[other] /\ Edged(e)
        /\ TakenBy(e) \in Taken(MapNamed(g, e.map).rows)
        /\ ImageAt(other, e.rect) \in MapNamed(g, e.map).buffer
    BY <1>1, <1>14 DEF SpaceOK, FragOK
  <2>2. e.map = name => TakenBy(e) # TakenBy(f)
    BY <1>1, <1>14 DEF SpaceOK, name
  <2>3. h.frags[other] = e
    BY <1>10
  <2> HIDE DEF e
  <2>4. /\ TakenBy(e) \in Taken(MapNamed(h, e.map).rows)
        /\ ImageAt(other, e.rect) \in MapNamed(h, e.map).buffer
    <3>1. CASE e.map = name
      <4>1. ImageAt(other, e.rect).id = other /\ ImageAt(id, f.rect).id = id
        BY DEF ImageAt
      <4>2. ImageAt(other, e.rect) # ImageAt(id, f.rect)
        BY <4>1
      <4> QED
        BY <1>6, <1>7, <1>13, <2>1, <2>2, <3>1, <4>2 DEF old
    <3>2. CASE e.map # name
      BY <1>7, <1>13, <2>1, <3>2
    <3> QED
      BY <3>1, <3>2
  <2> QED
    BY <1>7, <1>13, <2>1, <2>3, <2>4 DEF FragOK
<1>15. ASSUME NEW any \in Names(h), NEW t \in Taken(MapNamed(h, any).rows)
       PROVE  \E other \in Fragment : h.frags[other] # NULL /\ h.frags[other].map = any /\ TakenBy(h.frags[other]) = t
  <2>1. /\ any \in Names(g) /\ t \in Taken(MapNamed(g, any).rows)
        /\ any = name => t # TakenBy(f)
    <3>1. CASE any = name
      BY <1>6, <1>7, <1>13, <1>15, <3>1 DEF old
    <3>2. CASE any # name
      BY <1>7, <1>13, <1>15, <3>2
    <3> QED
      BY <3>1, <3>2
  <2>2. PICK other \in Fragment : g.frags[other] # NULL /\ g.frags[other].map = any /\ TakenBy(g.frags[other]) = t
    BY <1>1, <2>1, ZenonT(20) DEF SpaceOK
  <2>3. other # id
    BY <2>1, <2>2 DEF name
  <2> QED
    BY <1>10, <2>2, <2>3
<1>16. SpaceOK(h)
  <2>1. \A other \in Fragment : h.frags[other] # NULL => other # id /\ g.frags[other] # NULL
    BY <1>10
  <2>2. \A other \in Fragment : h.frags[other] # NULL => FragOK(h, other)
    BY <1>14, <2>1
  <2>3. \A a, b \in Fragment :
          /\ h.frags[a] # NULL /\ h.frags[b] # NULL
          /\ h.frags[a].map = h.frags[b].map /\ TakenBy(h.frags[a]) = TakenBy(h.frags[b])
          => a = b
    BY <1>1, <1>10, <2>1 DEF SpaceOK
  <2> QED
    BY <1>15, <2>2, <2>3 DEF SpaceOK
<1>17. BatchOK(h)
  <2>1. CASE g.batch.quads = <<>>
    BY <1>1, <1>9, <2>1 DEF BatchOK
  <2>2. CASE g.batch.quads # <<>>
    <3> DEFINE last == g.batch.fragment
               bitmap == g.batch.bitmap
    <3>1. /\ last \in Fragment /\ g.frags[last] # NULL /\ g.frags[last].in_batch = TRUE
          /\ g.frags[last].map = bitmap /\ MapNamed(g, bitmap).bitmap # NULL
          /\ \A i \in 1..Len(g.batch.quads) : QuadOK(g, g.batch.quads[i], bitmap)
      BY <1>1, <2>2 DEF BatchOK
    <3>2. g.frags[id].in_batch # TRUE
      BY <2>2, ZenonT(20)
    <3>3. last # id /\ bitmap \in Names(g)
      BY <1>1, <3>1, <3>2, ZenonT(20) DEF SpaceOK, FragOK
    <3>4. MapNamed(h, bitmap).bitmap # NULL
      <4>1. CASE bitmap = name
        BY <1>6, <1>7, <1>13, <3>1, <4>1 DEF old
      <4>2. CASE bitmap # name
        BY <1>7, <1>13, <3>1, <3>3, <4>2
      <4> QED
        BY <4>1, <4>2
    <3>5. ASSUME NEW i \in 1..Len(g.batch.quads)
          PROVE  QuadOK(h, g.batch.quads[i], bitmap)
      <4> DEFINE q == g.batch.quads[i]
      <4>1. q \in Pixels /\ QuadOK(g, q, bitmap)
        BY <1>1, <3>1, GraphicsFields
      <4> HIDE DEF q
      <4>2. q.id \in Fragment /\ q.id # id
        BY <3>2, <4>1, ZenonT(20) DEF Pixels, QuadOK
      <4> QED
        BY <1>10, <4>1, <4>2, ZenonT(20) DEF QuadOK, q
    <3>6. Len(g.batch.quads) <= MaxQuads
      BY <1>1 DEF BatchOK
    <3>7. h.frags[last] = g.frags[last]
      BY <1>10, <3>1, <3>3
    <3> HIDE DEF last, bitmap
    <3>8. last = h.batch.fragment /\ bitmap = h.batch.bitmap /\ g.batch.quads = h.batch.quads
      BY <1>9 DEF last, bitmap
    <3> QED
      BY <2>2, <3>1, <3>4, <3>5, <3>6, <3>7, <3>8 DEF BatchOK
  <2> QED
    BY <2>1, <2>2
<1>18. GfxOK(h)
  BY <1>1, <1>9, <1>12, <1>16, <1>17 DEF GfxOK
<1> QED
  BY <1>3, <1>6, <1>7, <1>10, <1>13, <1>18 DEF h, k, m, old, name

(* A map that nothing is taken of is erased, once it is drawn. *)
LEMMA MapDeletedOK ==
  ASSUME NEW g, GfxOK(g), NEW m, m.name \in Names(g), Taken(MapNamed(g, m.name).rows) = {}
  PROVE  LET h == MapDeleted(g, m)
         IN  /\ GfxOK(h) /\ Names(h) = Names(g) \ {m.name}
             /\ \A id \in Fragment : h.frags[id] = NULL <=> g.frags[id] = NULL
             /\ \A name \in Names(h) : MapNamed(h, name).rows = MapNamed(g, name).rows
<1> DEFINE name == m.name
           f == FlushBitmap(g, name)
           h == [f EXCEPT !.maps[name.mgr] = RemoveAt(f.maps[name.mgr], Place(f, name))]
<1>1. GfxOK(f) /\ Steady(g, f) /\ (f.batch.quads # <<>> => f.batch.bitmap # name)
  BY FlushBitmapOK
<1>2. h = MapDeleted(g, m)
  BY DEF MapDeleted
<1> HIDE DEF f, name
<1>3. /\ MapsOK(f) /\ SpaceOK(f) /\ BatchOK(f) /\ f.wrong = {} /\ f \in Graphics
      /\ Names(f) = Names(g) /\ name \in Names(f)
      /\ \A other \in Names(g) : MapNamed(f, other).rows = MapNamed(g, other).rows
      /\ Taken(MapNamed(f, name).rows) = {}
      /\ \A id \in Fragment : f.frags[id] = NULL <=> g.frags[id] = NULL
  BY <1>1 DEF GfxOK, MapsOK, Steady, SameFrag, name
<1>4. /\ MapsOK(h) /\ h.frags = f.frags /\ h.batch = f.batch /\ h.wrong = f.wrong
      /\ Names(h) = Names(f) \ {name}
      /\ \A other \in Names(h) : MapNamed(h, other) = MapNamed(f, other)
  BY <1>3, MapRemoved
<1> HIDE DEF h
<1>5. \A id \in Fragment : f.frags[id] # NULL => f.frags[id].map \in Names(h)
  BY <1>3, <1>4 DEF SpaceOK, FragOK
<1>6. SpaceOK(h)
  <2>1. \A id \in Fragment : h.frags[id] # NULL => FragOK(h, id)
    BY <1>3, <1>4, <1>5 DEF SpaceOK, FragOK
  <2>2. ASSUME NEW other \in Names(h), NEW t \in Taken(MapNamed(h, other).rows)
        PROVE  \E id \in Fragment : h.frags[id] # NULL /\ h.frags[id].map = other /\ TakenBy(h.frags[id]) = t
    BY <1>3, <1>4, <2>2 DEF SpaceOK
  <2>3. \A a, b \in Fragment :
          /\ h.frags[a] # NULL /\ h.frags[b] # NULL
          /\ h.frags[a].map = h.frags[b].map /\ TakenBy(h.frags[a]) = TakenBy(h.frags[b])
          => a = b
    BY <1>3, <1>4 DEF SpaceOK
  <2> QED
    BY <2>1, <2>2, <2>3 DEF SpaceOK
<1>7. BatchOK(h)
  <2>1. ASSUME f.batch.quads # <<>>
        PROVE  f.batch.bitmap \in Names(h)
    BY <1>1, <1>3, <1>4, <2>1 DEF BatchOK, SpaceOK, FragOK
  <2>2. /\ h.batch.quads = <<>> => h.batch = NoBatch
        /\ Len(h.batch.quads) <= MaxQuads
    BY <1>3, <1>4 DEF BatchOK
  <2>3. ASSUME h.batch.quads # <<>>
        PROVE  /\ h.batch.fragment \in Fragment /\ h.frags[h.batch.fragment] # NULL
               /\ h.frags[h.batch.fragment].in_batch = TRUE
               /\ h.frags[h.batch.fragment].map = h.batch.bitmap
               /\ MapNamed(h, h.batch.bitmap).bitmap # NULL
               /\ \A i \in 1..Len(h.batch.quads) : QuadOK(h, h.batch.quads[i], h.batch.bitmap)
    <3>1. /\ f.batch.fragment \in Fragment /\ f.frags[f.batch.fragment] # NULL
          /\ f.frags[f.batch.fragment].in_batch = TRUE
          /\ f.frags[f.batch.fragment].map = f.batch.bitmap
          /\ MapNamed(f, f.batch.bitmap).bitmap # NULL
          /\ \A i \in 1..Len(f.batch.quads) : QuadOK(f, f.batch.quads[i], f.batch.bitmap)
      BY <1>3, <1>4, <2>3 DEF BatchOK
    <3>2. MapNamed(h, h.batch.bitmap).bitmap # NULL
      BY <1>4, <2>1, <2>3, <3>1
    <3>3. \A i \in 1..Len(h.batch.quads) : QuadOK(h, h.batch.quads[i], h.batch.bitmap)
      <4>1. h.batch = f.batch /\ h.frags = f.frags
        BY <1>4
      <4> QED
        BY <3>1, <4>1, ZenonT(20) DEF QuadOK
    <3> QED
      BY <1>4, <3>1, <3>2, <3>3
  <2> QED
    BY <2>2, <2>3 DEF BatchOK
<1>8. GfxOK(h)
  BY <1>3, <1>4, <1>6, <1>7 DEF GfxOK
<1> QED
  BY <1>2, <1>3, <1>4, <1>8 DEF name

(* FreeFragment frees the fragment, and the map if it was the last one in it. *)
LEMMA FreeFragmentOK ==
  ASSUME NEW g, GfxOK(g), NEW id \in Fragment, g.frags[id] # NULL
  PROVE  Freed(g, FreeFragment(g, id), id)
<1> DEFINE f == FlushBitmapFragment(g, id)
           e == f.frags[id]
           m == FreeFragmentSpace(MapNamed(f, e.map), id, e)
           k == [SetMap(f, m) EXCEPT !.frags[id] = NULL]
           h == FreeFragment(g, id)
<1>1. GfxOK(f) /\ Steady(g, f) /\ (f.batch.quads # <<>> => e.in_batch # TRUE)
  BY FlushBitmapFragmentOK, ZenonT(20)
<1>2. h = IF m.allocated = 0 THEN MapDeleted(k, m) ELSE k
  BY DEF FreeFragment
<1> HIDE DEF f
<1>3. /\ e # NULL /\ e.map = g.frags[id].map /\ e.space = g.frags[id].space /\ e.row_height = g.frags[id].row_height
      /\ \A other \in Fragment : f.frags[other] = NULL <=> g.frags[other] = NULL
      /\ Names(f) = Names(g) /\ \A name \in Names(g) : MapNamed(f, name).rows = MapNamed(g, name).rows
  BY <1>1 DEF Steady, SameFrag
<1>4. /\ GfxOK(k) /\ m \in Maps /\ m.name = e.map /\ e.map \in Names(f)
      /\ k.frags[id] = NULL /\ \A other \in Fragment \ {id} : k.frags[other] = f.frags[other]
      /\ Names(k) = Names(f) /\ MapNamed(k, e.map) = m
      /\ \A name \in Names(f) \ {e.map} : MapNamed(k, name) = MapNamed(f, name)
      /\ RoomFor(m.rows, e.space.width, e.row_height)
  BY <1>1, <1>3, SpaceFreed, ZenonT(20)
<1>5. m.allocated = 0 <=> Taken(m.rows) = {}
  BY <1>4, MapFields, ZenonT(20)
<1> HIDE DEF k, m, e, h
<1>6. CASE m.allocated = 0
  <2>1. h = MapDeleted(k, m)
    BY <1>2, <1>6
  <2>2. /\ GfxOK(h) /\ Names(h) = Names(k) \ {e.map}
        /\ \A other \in Fragment : h.frags[other] = NULL <=> k.frags[other] = NULL
        /\ \A name \in Names(h) : MapNamed(h, name).rows = MapNamed(k, name).rows
    BY <1>4, <1>5, <1>6, <2>1, MapDeletedOK
  <2>3. Freed(g, h, id)
    BY <1>3, <1>4, <2>2 DEF Freed
  <2> QED
    BY <2>3 DEF h
<1>7. CASE m.allocated # 0
  <2>1. h = k
    BY <1>2, <1>7
  <2>2. Freed(g, h, id)
    BY <1>3, <1>4, <1>5, <1>7, <2>1 DEF Freed
  <2> QED
    BY <2>2 DEF h
<1> QED
  BY <1>6, <1>7

-----------------------------------------------------------------------------
(* Clear, and lost contexts *)

(* What Clear of a manager leaves *)
Cleared(g, h, mgr) ==
  /\ GfxOK(h) /\ h.batch = g.batch
  /\ \A id \in Fragment : h.frags[id] = IF ManagerOf[id] = mgr THEN NULL ELSE g.frags[id]
  /\ \A name \in Names(h) : name \in Names(g) /\ MapNamed(h, name) = MapNamed(g, name)

(* A manager without maps and fragments *)
LEMMA ClearOK ==
  ASSUME NEW g, GfxOK(g), g.batch.quads = <<>>, NEW mgr \in Manager
  PROVE  Cleared(g, Clear(g, mgr), mgr)
<1> DEFINE k == [g EXCEPT !.maps[mgr] = <<>>]
           frags == [id \in Fragment |-> IF ManagerOf[id] = mgr THEN NULL ELSE g.frags[id]]
           h == Clear(g, mgr)
<1>1. /\ MapsOK(g) /\ SpaceOK(g) /\ BatchOK(g) /\ g.wrong = {} /\ g \in Graphics
      /\ g.frags \in [Fragment -> Record \cup {NULL}]
  BY GraphicsFields DEF GfxOK, MapsOK
<1>2. ListOK(mgr, <<>>)
  <2>1. MapsLimit[mgr] \in Nat /\ Len(<<>>) = 0 /\ <<>> \in Seq(Maps)
    BY FragmentsAssumption
  <2> QED
    BY <2>1 DEF ListOK
<1>3. ListChanges(g, mgr, <<>>, k)
  BY <1>1, <1>2, ListChanged
<1>4. frags \in [Fragment -> Record \cup {NULL}]
  BY <1>1
<1>5. h = [k EXCEPT !.frags = frags]
  BY <1>1 DEF Clear, Graphics
<1> HIDE DEF k, frags, h
<1>6. /\ MapsOK(k) /\ k.batch = g.batch /\ k.wrong = g.wrong /\ k \in Graphics
      /\ \A name : name.mgr # mgr => (name \in Names(k) <=> name \in Names(g))
      /\ \A name \in Names(g) : name.mgr # mgr => MapNamed(k, name) = MapNamed(g, name)
      /\ \A name \in Names(k) : name.mgr # mgr
  <2>1. \A i \in 1..Len(<<>>) : FALSE
    OBVIOUS
  <2> QED
    BY <1>3, <2>1 DEF ListChanges, MapsOK
<1>7. h \in Graphics /\ h.maps = k.maps /\ h.batch = k.batch /\ h.wrong = k.wrong /\ h.frags = frags
  BY <1>4, <1>5, <1>6, ZenonT(20) DEF Graphics
<1>8. h.maps = k.maps
  BY <1>7
<1>9. MapsOK(h) /\ Names(h) = Names(k) /\ \A name : MapNamed(h, name) = MapNamed(k, name)
  <2>1. MapsOK(h)
    BY <1>6, <1>7, <1>8 DEF MapsOK
  <2> QED
    BY <1>8, <2>1 DEF Names, MapNamed, Place
<1>10. \A id \in Fragment : h.frags[id] = IF ManagerOf[id] = mgr THEN NULL ELSE g.frags[id]
  BY <1>7 DEF frags
<1>11. \A name \in Names(h) : name \in Names(g) /\ MapNamed(h, name) = MapNamed(g, name) /\ name.mgr # mgr
  BY <1>6, <1>9
<1>12. SpaceOK(h)
  <2>1. ASSUME NEW id \in Fragment, h.frags[id] # NULL
        PROVE  FragOK(h, id)
    <3>1. h.frags[id] = g.frags[id] /\ ManagerOf[id] # mgr /\ FragOK(g, id)
      BY <1>1, <1>10, <2>1 DEF SpaceOK
    <3>2. g.frags[id].map \in Names(h)
      BY <1>6, <1>9, <3>1 DEF FragOK
    <3> QED
      BY <1>11, <3>1, <3>2 DEF FragOK
  <2>2. ASSUME NEW name \in Names(h), NEW t \in Taken(MapNamed(h, name).rows)
        PROVE  \E id \in Fragment : h.frags[id] # NULL /\ h.frags[id].map = name /\ TakenBy(h.frags[id]) = t
    <3>1. name \in Names(g) /\ t \in Taken(MapNamed(g, name).rows) /\ name.mgr # mgr
      BY <1>11, <2>2
    <3>2. PICK id \in Fragment : g.frags[id] # NULL /\ g.frags[id].map = name /\ TakenBy(g.frags[id]) = t
      BY <1>1, <3>1 DEF SpaceOK
    <3>3. ManagerOf[id] # mgr
      BY <1>1, <3>1, <3>2 DEF SpaceOK, FragOK
    <3> QED
      BY <1>10, <3>2, <3>3
  <2>3. \A a, b \in Fragment :
          /\ h.frags[a] # NULL /\ h.frags[b] # NULL
          /\ h.frags[a].map = h.frags[b].map /\ TakenBy(h.frags[a]) = TakenBy(h.frags[b])
          => a = b
    BY <1>1, <1>10 DEF SpaceOK
  <2> QED
    BY <2>1, <2>2, <2>3 DEF SpaceOK
<1>13. BatchOK(h)
  BY <1>1, <1>6, <1>7 DEF BatchOK
<1>14. GfxOK(h)
  BY <1>1, <1>6, <1>7, <1>9, <1>12, <1>13 DEF GfxOK
<1>15. Cleared(g, h, mgr)
  BY <1>6, <1>7, <1>10, <1>11, <1>14 DEF Cleared
<1> QED
  BY <1>15 DEF h

(* All bitmaps are deleted, and what the maps hold stays. *)
BitmapsGone(g) ==
  [g EXCEPT !.maps = [mgr \in Manager |-> [i \in DOMAIN g.maps[mgr] |-> DeleteBitmaps(g.maps[mgr][i])]]]

(* All bitmaps go with the context, when nothing is pending. *)
LEMMA BitmapsGoneOK ==
  ASSUME NEW g, GfxOK(g), g.batch.quads = <<>>
  PROVE  LET h == BitmapsGone(g)
         IN  /\ GfxOK(h) /\ h.batch = g.batch /\ h.frags = g.frags /\ Names(h) = Names(g)
             /\ \A name \in Names(g) : MapNamed(h, name).rows = MapNamed(g, name).rows
<1> DEFINE h == BitmapsGone(g)
           maps == [mgr \in Manager |-> [i \in DOMAIN g.maps[mgr] |-> DeleteBitmaps(g.maps[mgr][i])]]
<1>1. MapsOK(g) /\ SpaceOK(g) /\ BatchOK(g) /\ g.wrong = {} /\ g \in Graphics
  BY DEF GfxOK, MapsOK
<1>2. ASSUME NEW mgr \in Manager
      PROVE  /\ maps[mgr] \in Seq(Maps) /\ Len(maps[mgr]) = Len(g.maps[mgr])
             /\ \A i \in 1..Len(g.maps[mgr]) :
                  /\ maps[mgr][i].name = g.maps[mgr][i].name /\ maps[mgr][i].rows = g.maps[mgr][i].rows
                  /\ maps[mgr][i].buffer = g.maps[mgr][i].buffer
             /\ ListOK(mgr, maps[mgr])
  <2> DEFINE old == g.maps[mgr]
             new == [i \in DOMAIN old |-> DeleteBitmaps(old[i])]
  <2>1. maps[mgr] = new
    OBVIOUS
  <2>2. ListOK(mgr, old)
    BY <1>1 DEF MapsOK
  <2>3. MapsLimit[mgr] \in Nat
    BY FragmentsAssumption
  <2> HIDE DEF old, maps
  <2>4. old \in Seq(Maps) /\ Len(old) \in Nat /\ DOMAIN old = 1..Len(old)
    BY <2>2 DEF ListOK
  <2>5. \A i \in 1..Len(old) : old[i] \in Maps
    BY <2>4
  <2>6. \A i \in 1..Len(old) : /\ DeleteBitmaps(old[i]) \in Maps /\ DeleteBitmaps(old[i]).name = old[i].name
                               /\ DeleteBitmaps(old[i]).rows = old[i].rows
                               /\ DeleteBitmaps(old[i]).buffer = old[i].buffer
    BY <2>5, DeleteBitmapsOK
  <2>7. \A i \in 1..Len(old) : new[i] = DeleteBitmaps(old[i])
    BY <2>4
  <2>8. new \in Seq(Maps) /\ Len(new) = Len(old)
    BY <2>4, <2>6
  <2> HIDE DEF new
  <2>9. ListOK(mgr, new)
    BY <2>2, <2>3, <2>4, <2>6, <2>7, <2>8 DEF ListOK
  <2> QED
    BY <2>1, <2>6, <2>7, <2>8, <2>9 DEF old
<1>3. maps \in [Manager -> Seq(Maps)]
  BY <1>2, ZenonT(20)
<1>4. h = [g EXCEPT !.maps = maps]
  BY DEF BitmapsGone
<1> HIDE DEF maps, h
<1>5. h \in Graphics /\ h.maps = maps /\ h.batch = g.batch /\ h.frags = g.frags /\ h.wrong = g.wrong
  BY <1>1, <1>3, <1>4, ZenonT(20) DEF Graphics
<1>6. MapsOK(h)
  BY <1>2, <1>5 DEF MapsOK
<1>7. Names(h) = Names(g)
  <2>1. ASSUME NEW name
        PROVE  name \in Names(h) <=> name \in Names(g)
    <3>1. name \in Names(h) <=> \E mgr \in Manager : \E i \in 1..Len(h.maps[mgr]) : name = h.maps[mgr][i].name
      BY <1>6, MapFound
    <3>2. name \in Names(g) <=> \E mgr \in Manager : \E i \in 1..Len(g.maps[mgr]) : name = g.maps[mgr][i].name
      BY <1>1, MapFound
    <3> QED
      BY <1>2, <1>5, <3>1, <3>2
  <2> QED
    BY <2>1, ZenonT(20)
<1>8. ASSUME NEW name \in Names(g)
      PROVE  /\ MapNamed(h, name).rows = MapNamed(g, name).rows
             /\ MapNamed(h, name).buffer = MapNamed(g, name).buffer
  <2> DEFINE mgr == name.mgr
             i == Place(g, name)
  <2>1. mgr \in Manager /\ i \in 1..Len(g.maps[mgr]) /\ g.maps[mgr][i] = MapNamed(g, name) /\ MapNamed(g, name).name = name
    BY <1>1, MapFound
  <2> HIDE DEF mgr, i
  <2>2. i \in 1..Len(h.maps[mgr]) /\ h.maps[mgr][i].name = name
    BY <1>2, <1>5, <2>1
  <2>3. MapNamed(h, name) = h.maps[mgr][i]
    BY <1>6, <2>1, <2>2, MapFound
  <2> QED
    BY <1>2, <1>5, <2>1, <2>3
<1>9. SpaceOK(h)
  <2>1. \A id \in Fragment : h.frags[id] # NULL => FragOK(h, id)
    BY <1>1, <1>5, <1>7, <1>8 DEF SpaceOK, FragOK
  <2>2. ASSUME NEW name \in Names(h), NEW t \in Taken(MapNamed(h, name).rows)
        PROVE  \E id \in Fragment : h.frags[id] # NULL /\ h.frags[id].map = name /\ TakenBy(h.frags[id]) = t
    <3>1. name \in Names(g) /\ t \in Taken(MapNamed(g, name).rows)
      BY <1>7, <1>8, <2>2
    <3>2. PICK id \in Fragment : g.frags[id] # NULL /\ g.frags[id].map = name /\ TakenBy(g.frags[id]) = t
      BY <1>1, <3>1, ZenonT(20) DEF SpaceOK
    <3> QED
      BY <1>5, <3>2
  <2> QED
    BY <1>1, <1>5, <2>1, <2>2 DEF SpaceOK
<1>10. BatchOK(h)
  BY <1>1, <1>5 DEF BatchOK
<1>11. GfxOK(h)
  BY <1>1, <1>5, <1>6, <1>9, <1>10 DEF GfxOK
<1> QED
  BY <1>5, <1>7, <1>8, <1>11 DEF h

-----------------------------------------------------------------------------
(* The inductive invariant *)

(* Every map is in use, but for those of the skin that its fragments may not fit
   into. *)
Used(g) ==
  \A name \in Names(g) : name.mgr # Skin \/ NewMapsFit => Taken(MapNamed(g, name).rows) # {}

(* The inductive invariant *)
Inv ==
  /\ GfxOK(gfx) /\ Used(gfx)
  /\ rendered \in Seq(Fragment) /\ ToSet(rendered) = Live \cap Glyph /\ IsInjective(rendered)
  /\ creating \in Call \cup {NULL}
  /\ creating # NULL => /\ gfx.frags[creating.glyph] = NULL
                        /\ creating.dropped = TRUE => CacheHasRoom(gfx, creating.glyph)

(* No fragment is made yet, and no map. *)
LEMMA InvInit ==
  ASSUME Init
  PROVE  Inv
<1> DEFINE maps == [mgr \in Manager |-> <<>>]
           frags == [id \in Fragment |-> NULL]
<1>1. gfx = [maps |-> maps, frags |-> frags, batch |-> NoBatch, wrong |-> {}]
  BY DEF Init
<1>2. maps \in [Manager -> Seq(Maps)] /\ frags \in [Fragment -> Record \cup {NULL}]
  OBVIOUS
<1>3. NoBatch \in Batches /\ NoBatch.quads = <<>>
  BY DEF NoBatch, Batches
<1>4. gfx \in Graphics
  <2> HIDE DEF maps, frags
  <2> QED
    BY <1>1, <1>2, <1>3 DEF Graphics
<1>5. \A mgr \in Manager : gfx.maps[mgr] = <<>>
  BY <1>1
<1>6. (\A id \in Fragment : gfx.frags[id] = NULL) /\ gfx.batch = NoBatch /\ gfx.wrong = {}
  BY <1>1
<1>7. MapsOK(gfx)
  <2>1. ASSUME NEW mgr \in Manager
        PROVE  ListOK(mgr, <<>>)
    <3>1. MapsLimit[mgr] \in Nat /\ Len(<<>>) = 0 /\ <<>> \in Seq(Maps)
      BY FragmentsAssumption
    <3> QED
      BY <3>1 DEF ListOK
  <2> QED
    BY <1>4, <1>5, <2>1 DEF MapsOK
<1>8. \A name : name \notin Names(gfx)
  <2> SUFFICES ASSUME NEW name, name \in Names(gfx)
               PROVE  FALSE
    OBVIOUS
  <2>1. PICK mgr \in Manager : \E i \in 1..Len(gfx.maps[mgr]) : name = gfx.maps[mgr][i].name
    BY <1>7, MapFound
  <2>2. Len(gfx.maps[mgr]) = 0
    BY <1>5
  <2> QED
    BY <2>1, <2>2
<1>9. SpaceOK(gfx)
  BY <1>6, <1>8 DEF SpaceOK
<1>10. BatchOK(gfx)
  <2>1. Len(<<>>) = 0 /\ MaxQuads \in Nat
    BY FragmentsAssumption
  <2> QED
    BY <1>3, <1>6, <2>1 DEF BatchOK
<1>11. GfxOK(gfx) /\ Used(gfx)
  BY <1>6, <1>7, <1>8, <1>9, <1>10 DEF GfxOK, Used
<1>12. rendered = <<>> /\ creating = NULL
  BY DEF Init
<1>13. ToSet(rendered) = {} /\ IsInjective(rendered) /\ rendered \in Seq(Fragment)
  BY <1>12 DEF ToSet, IsInjective
<1>14. Live = {}
  BY <1>6 DEF Live
<1> QED
  BY <1>11, <1>12, <1>13, <1>14 DEF Inv

(* Fragments of one map that have room of their own *)
LEMMA UsedAfterCreation ==
  ASSUME NEW g, NEW h, NEW id, Used(g), Creates(g, h, id)
  PROVE  Used(h)
<1> SUFFICES ASSUME NEW name \in Names(h), name.mgr # Skin \/ NewMapsFit
             PROVE  Taken(MapNamed(h, name).rows) # {}
  BY DEF Used
<1>1. CASE name \in Names(g)
  BY <1>1 DEF Used, Creates
<1>2. CASE name \notin Names(g)
  BY <1>2 DEF Creates
<1> QED
  BY <1>1, <1>2

(* A map that the last fragment leaves is gone with it. *)
LEMMA UsedAfterFreeing ==
  ASSUME NEW g, NEW h, NEW id, Used(g), Freed(g, h, id)
  PROVE  Used(h)
<1> SUFFICES ASSUME NEW name \in Names(h), name.mgr # Skin \/ NewMapsFit
             PROVE  Taken(MapNamed(h, name).rows) # {}
  BY DEF Used
<1>1. CASE name = g.frags[id].map
  BY <1>1 DEF Freed
<1>2. CASE name # g.frags[id].map
  BY <1>2 DEF Used, Freed
<1> QED
  BY <1>1, <1>2

(* What leaves the maps and fragments alone leaves no map behind. *)
LEMMA UsedSteady ==
  ASSUME NEW g, NEW h, Used(g), Steady(g, h)
  PROVE  Used(h)
BY DEF Used, Steady

(* A manager other than the glyph cache gets or loses a fragment. *)
LEMMA OthersInv ==
  ASSUME Inv, NEW id \in Fragment \ Glyph, GfxOK(gfx'), Used(gfx'), creating = NULL,
         \A other \in Fragment \ {id} : gfx'.frags[other] = NULL <=> gfx.frags[other] = NULL,
         UNCHANGED <<rendered, creating>>
  PROVE  Inv'
<1>1. rendered' = rendered /\ creating' = creating
  OBVIOUS
<1>2. Live' \cap Glyph = Live \cap Glyph
  <2>1. \A other \in Glyph : other \in Fragment \ {id}
    BY DEF Glyph
  <2> QED
    BY <2>1 DEF Live
<1> QED
  BY <1>1, <1>2 DEF Inv

(* An image is loaded. *)
LEMMA FromFileInv ==
  ASSUME Inv, NEW id \in Fragment, GetFragmentFromFile(id)
  PROVE  Inv'
<1>1. /\ creating = NULL /\ id \notin Glyph /\ gfx.frags[id] = NULL
      /\ gfx' = CreateNewFragment(gfx, ManagerOf[id], id) /\ UNCHANGED <<rendered, creating>>
  BY DEF GetFragmentFromFile, Idle
<1>2. GfxOK(gfx) /\ Used(gfx)
  BY DEF Inv
<1>3. Creates(gfx, gfx', id)
  BY <1>1, <1>2, CreateNewFragmentOK
<1>4. Used(gfx')
  BY <1>2, <1>3, UsedAfterCreation
<1>5. /\ GfxOK(gfx')
      /\ \A other \in Fragment \ {id} : gfx'.frags[other] = NULL <=> gfx.frags[other] = NULL
  BY <1>3 DEF Creates
<1> QED
  BY <1>1, <1>4, <1>5, OthersInv

(* The last reference to an image goes. *)
LEMMA RemoveInv ==
  ASSUME Inv, NEW id \in Fragment, RemoveImageRep(id)
  PROVE  Inv'
<1>1. /\ creating = NULL /\ id \notin Glyph /\ gfx.frags[id] # NULL
      /\ gfx' = FreeFragment(gfx, id) /\ UNCHANGED <<rendered, creating>>
  BY DEF RemoveImageRep, Idle, Glyph
<1>2. GfxOK(gfx) /\ Used(gfx)
  BY DEF Inv
<1>3. Freed(gfx, gfx', id)
  BY <1>1, <1>2, FreeFragmentOK
<1>4. Used(gfx')
  BY <1>2, <1>3, UsedAfterFreeing
<1>5. /\ GfxOK(gfx')
      /\ \A other \in Fragment \ {id} : gfx'.frags[other] = NULL <=> gfx.frags[other] = NULL
  BY <1>3 DEF Freed
<1> QED
  BY <1>1, <1>4, <1>5, OthersInv

(* A glyph is rendered. *)
LEMMA RenderInv ==
  ASSUME Inv, NEW id \in Fragment, RenderGlyph(id)
  PROVE  Inv'
<1>1. /\ id \in Glyph /\ gfx.frags[id] = NULL /\ gfx' = gfx /\ rendered' = rendered
      /\ creating' = [glyph |-> id, try_drop_largest |-> TRUE, dropped |-> FALSE]
  BY DEF RenderGlyph
<1>2. creating' \in Call /\ creating'.glyph = id /\ creating'.dropped = FALSE
  BY <1>1 DEF Call
<1>3. Live' = Live
  BY <1>1 DEF Live
<1> QED
  BY <1>1, <1>2, <1>3 DEF Inv

(* The glyph gets its fragment. *)
LEMMA DoneInv ==
  ASSUME Inv, CreateFragmentDone
  PROVE  Inv'
<1> DEFINE id == creating.glyph
<1>1. /\ creating # NULL /\ gfx' = CreateNewFragment(gfx, Cache, id) /\ gfx'.frags[id] # NULL
      /\ rendered' = Append(rendered, id) /\ creating' = NULL
  BY DEF CreateFragmentDone, Idle, Fits, Attempt
<1>2. /\ GfxOK(gfx) /\ Used(gfx) /\ gfx.frags[id] = NULL /\ creating \in Call
      /\ rendered \in Seq(Fragment) /\ ToSet(rendered) = Live \cap Glyph /\ IsInjective(rendered)
  BY <1>1 DEF Inv
<1>3. id \in Glyph /\ id \in Fragment /\ ManagerOf[id] = Cache
  BY <1>2 DEF Call, Glyph
<1> HIDE DEF id
<1>4. Creates(gfx, gfx', id)
  BY <1>1, <1>2, <1>3, CreateNewFragmentOK
<1>5. Used(gfx')
  BY <1>2, <1>4, UsedAfterCreation
<1>6. /\ GfxOK(gfx')
      /\ \A other \in Fragment \ {id} : gfx'.frags[other] = gfx.frags[other]
  BY <1>4 DEF Creates
<1>7. Live' \cap Glyph = (Live \cap Glyph) \cup {id} /\ id \notin Live
  BY <1>1, <1>2, <1>3, <1>6 DEF Live
<1>8. /\ rendered' \in Seq(Fragment) /\ ToSet(rendered') = ToSet(rendered) \cup {id}
      /\ IsInjective(rendered')
  <2>1. id \notin ToSet(rendered)
    BY <1>2, <1>7
  <2> QED
    BY <1>1, <1>2, <1>3, <2>1, AppendedProperties
<1> QED
  BY <1>1, <1>2, <1>5, <1>6, <1>7, <1>8 DEF Inv

(* A glyph is dropped that exists, and one large enough if it is to be. *)
LEMMA VictimOK ==
  ASSUME rendered \in Seq(Fragment)
  PROVE  /\ Victim \in ToSet(rendered) \cup {NULL}
         /\ DropsLarge => Victim \in ToSet(rendered) /\ LargeEnough(Victim)
<1> DEFINE n == IF Len(rendered) < CheckLimit THEN Len(rendered) ELSE CheckLimit
<1>1. Len(rendered) \in Nat /\ n \in Nat /\ n <= Len(rendered)
  BY FragmentsAssumption
<1>2. /\ Checked \in Seq(Fragment) /\ Len(Checked) = n
      /\ \A i \in 1..n : Checked[i] = rendered[i]
  <2>1. Checked = SubSeq(rendered, 1, n)
    BY DEF Checked
  <2> HIDE DEF n
  <2> QED
    BY <1>1, <2>1
<1> HIDE DEF n
<1>3. \A i \in 1..Len(rendered) : rendered[i] \in ToSet(rendered)
  BY DEF ToSet
<1>4. CASE DropsLarge
  <2>1. Large # {} /\ Large \in SUBSET Nat /\ Victim = Checked[Min(Large)]
    BY <1>2, <1>4 DEF DropsLarge, Victim, Large
  <2>2. Min(Large) \in Large
    BY <2>1, MinIsLeast
  <2>3. Min(Large) \in 1..n /\ LargeEnough(Checked[Min(Large)])
    BY <1>2, <2>2 DEF Large
  <2> QED
    BY <1>1, <1>2, <1>3, <2>1, <2>3
<1>5. CASE ~DropsLarge
  <2>1. rendered # <<>> => Head(rendered) \in ToSet(rendered)
    <3>1. rendered # <<>> => 1 \in 1..Len(rendered) /\ Head(rendered) = rendered[1]
      OBVIOUS
    <3> QED
      BY <1>3, <3>1
  <2> QED
    BY <1>5, <2>1 DEF Victim
<1> QED
  BY <1>4, <1>5

(* Once one that is large enough is gone, there is room. *)
LEMMA RoomAfterFreeing ==
  ASSUME NEW g, NEW h, NEW old \in Glyph, NEW id \in Glyph, GfxOK(g), g.frags[old] # NULL, Freed(g, h, old),
         g.frags[old].rect.w >= Size[id].w, g.frags[old].row_height >= Size[id].h
  PROVE  CacheHasRoom(h, id)
<1> DEFINE f == g.frags[old]
           name == f.map
<1>1. MapsOK(g) /\ SpaceOK(g) /\ g \in Graphics /\ old \in Fragment /\ ManagerOf[old] = Cache
  BY DEF GfxOK, MapsOK, Glyph
<1>2. f \in Record /\ name \in Names(g) /\ name.mgr = Cache /\ Edged(f)
  <2>1. f \in Record \cup {NULL}
    BY <1>1, GraphicsFields
  <2> QED
    BY <1>1, <2>1 DEF SpaceOK, FragOK
<1>3. /\ f.rect.w <= f.space.width /\ f.space.width \in Nat /\ f.row_height \in Nat /\ f.rect.w \in Nat
  <2> HIDE DEF f
  <2> QED
    BY <1>2, EdgedWithin
<1>4. Size[id].w \in Nat /\ Size[id].h \in Nat
  <2>1. Size[id] \in [w : Nat \ {0}, h : Nat \ {0}]
    BY FragmentsAssumption DEF Glyph
  <2> QED
    BY <2>1
<1>5. CASE name \in Names(h)
  <2> DEFINE rows == MapNamed(h, name).rows
  <2>1. RoomFor(rows, f.space.width, f.row_height)
    BY <1>5 DEF Freed
  <2> HIDE DEF rows
  <2>2. Size[id].w <= f.space.width /\ Size[id].h <= f.row_height
    BY <1>3, <1>4
  <2>3. BestRow(rows, Size[id].w, Size[id].h) # 0
    <3> HIDE DEF f
    <3> QED
      BY <1>4, <2>1, <2>2 DEF RoomFor
  <2> QED
    BY <1>2, <1>5, <2>3 DEF CacheHasRoom, rows
<1>6. CASE name \notin Names(h)
  <2>1. ASSUME NEW other \in Names(h), other.mgr = Cache
        PROVE  FALSE
    <3> DEFINE list == g.maps[Cache]
    <3>1. other \in Names(g) /\ other # name
      BY <1>6, <2>1 DEF Freed
    <3>2. ListOK(Cache, list) /\ MapsLimit[Cache] = 1
      BY <1>1, FragmentsAssumption DEF MapsOK
    <3>3. Len(list) \in Nat /\ Len(list) <= 1
      BY <3>2 DEF ListOK
    <3>4. /\ Place(g, other) \in 1..Len(list) /\ list[Place(g, other)].name = other
          /\ Place(g, name) \in 1..Len(list) /\ list[Place(g, name)].name = name
      BY <1>1, <1>2, <2>1, <3>1, MapFound, SMTT(20)
    <3>5. Place(g, other) = 1 /\ Place(g, name) = 1
      BY <3>3, <3>4
    <3> QED
      BY <3>1, <3>4, <3>5
  <2> QED
    BY <2>1 DEF CacheHasRoom
<1> QED
  BY <1>5, <1>6

(* The glyph cache drops a glyph, or gives up. *)
LEMMA RetryInv ==
  ASSUME Inv, CreateFragmentRetry
  PROVE  Inv'
<1> DEFINE id == creating.glyph
<1>1. /\ creating # NULL /\ CreateNewFragment(gfx, Cache, id).frags[id] = NULL
      /\ gfx' = IF Victim = NULL THEN Attempt ELSE FreeFragment(Attempt, Victim)
      /\ rendered' = Without(rendered, {Victim})
      /\ creating' = IF Victim = NULL /\ ~creating.dropped THEN NULL
                     ELSE [creating EXCEPT !.try_drop_largest = FALSE,
                                           !.dropped = creating.dropped \/ DropsLarge]
  BY DEF CreateFragmentRetry, Idle, Fits, Attempt
<1>2. /\ GfxOK(gfx) /\ Used(gfx) /\ gfx.frags[id] = NULL /\ creating \in Call
      /\ rendered \in Seq(Fragment) /\ ToSet(rendered) = Live \cap Glyph /\ IsInjective(rendered)
      /\ creating.dropped = TRUE => CacheHasRoom(gfx, id)
  BY <1>1 DEF Inv
<1>3. /\ id \in Glyph /\ id \in Fragment /\ ManagerOf[id] = Cache /\ creating.dropped \in BOOLEAN
      /\ Cache # Skin
  BY <1>2, FragmentsAssumption DEF Call, Glyph
<1>4. creating.dropped = FALSE
  <2> HIDE DEF id
  <2> QED
    BY <1>1, <1>2, <1>3, GlyphGetsRoom
<1>5. Attempt = gfx
  <2>1. Attempt = CreateNewFragment(gfx, ManagerOf[id], id)
    BY <1>3 DEF Attempt
  <2>2. CreateNewFragment(gfx, ManagerOf[id], id).frags[id] = NULL
    BY <1>1, <1>3
  <2> HIDE DEF id
  <2> QED
    BY <1>2, <1>3, <2>1, <2>2, CreateNewFragmentOK
<1>6. /\ Victim \in ToSet(rendered) \cup {NULL}
      /\ DropsLarge => Victim \in ToSet(rendered) /\ LargeEnough(Victim)
  BY <1>2, VictimOK
<1>7. /\ rendered' \in Seq(Fragment) /\ ToSet(rendered') = ToSet(rendered) \ {Victim}
      /\ IsInjective(rendered')
  BY <1>1, <1>2, WithoutProperties
<1>8. CASE Victim = NULL
  <2>1. gfx' = gfx /\ creating' = NULL
    BY <1>1, <1>4, <1>5, <1>8
  <2>2. NULL \notin ToSet(rendered)
    BY <1>2, FragmentsAssumption DEF Glyph
  <2>3. ToSet(rendered') = ToSet(rendered)
    BY <1>7, <1>8, <2>2
  <2>4. Live' = Live
    BY <2>1 DEF Live
  <2> QED
    BY <1>2, <1>7, <2>1, <2>3, <2>4 DEF Inv
<1>9. CASE Victim # NULL
  <2> DEFINE v == Victim
  <2>1. v \in Glyph /\ v \in Fragment /\ gfx.frags[v] # NULL /\ v # id
    BY <1>2, <1>6, <1>9 DEF Live
  <2>2. gfx' = FreeFragment(gfx, v)
    BY <1>1, <1>5, <1>9
  <2> HIDE DEF v
  <2>3. Freed(gfx, gfx', v)
    BY <1>2, <2>1, <2>2, FreeFragmentOK
  <2>4. Used(gfx')
    BY <1>2, <2>3, UsedAfterFreeing
  <2>5. /\ GfxOK(gfx') /\ gfx'.frags[v] = NULL
        /\ \A other \in Fragment \ {v} : gfx'.frags[other] = NULL <=> gfx.frags[other] = NULL
    BY <2>3 DEF Freed
  <2>6. Live' \cap Glyph = (Live \cap Glyph) \ {v}
    BY <2>1, <2>5 DEF Live
  <2>7. /\ creating' \in Call /\ creating'.glyph = id
        /\ creating'.dropped = TRUE => DropsLarge
    <3>1. DropsLarge \in BOOLEAN
      BY <1>2 DEF DropsLarge, Call
    <3>2. creating' = [creating EXCEPT !.try_drop_largest = FALSE, !.dropped = creating.dropped \/ DropsLarge]
      BY <1>1, <1>9
    <3>3. creating.dropped \/ DropsLarge \in BOOLEAN
      BY <1>3, <3>1
    <3> DEFINE now == creating.dropped \/ DropsLarge
    <3>4. now = TRUE => DropsLarge
      BY <1>4, <3>1
    <3> HIDE DEF now
    <3>5. creating' \in Call /\ creating'.glyph = id /\ creating'.dropped = now
      BY <1>2, <3>2, <3>3, ZenonT(20) DEF Call, now
    <3> QED
      BY <3>4, <3>5
  <2>8. DropsLarge => CacheHasRoom(gfx', id)
    <3> SUFFICES ASSUME DropsLarge
                 PROVE  CacheHasRoom(gfx', id)
      OBVIOUS
    <3>1. gfx.frags[v].rect.w >= Size[id].w /\ gfx.frags[v].row_height >= Size[id].h
      BY <1>6 DEF LargeEnough, v
    <3> HIDE DEF id
    <3> QED
      BY <1>2, <1>3, <2>1, <2>3, <3>1, RoomAfterFreeing
  <2>9. gfx'.frags[id] = NULL
    BY <1>2, <1>3, <2>1, <2>5
  <2>10. ToSet(rendered') = Live' \cap Glyph
    BY <1>2, <1>7, <2>6 DEF v
  <2> HIDE DEF id
  <2> QED
    BY <1>7, <2>4, <2>5, <2>7, <2>8, <2>9, <2>10 DEF Inv
<1> QED
  BY <1>8, <1>9

(* A fragment is drawn. *)
LEMMA DrawInv ==
  ASSUME Inv, NEW id \in Fragment, DrawBitmap(id)
  PROVE  Inv'
<1> DEFINE name == gfx.frags[id].map
           g == EnsureBitmap(gfx, name)
<1>1. /\ creating = NULL /\ creating' = creating /\ gfx.frags[id] # NULL /\ gfx' = AddQuad(g, name, id)
      /\ rendered' = IF id \in Glyph THEN Append(Without(rendered, {id}), id) ELSE rendered
  BY DEF DrawBitmap, Idle
<1>2. /\ GfxOK(gfx) /\ Used(gfx)
      /\ rendered \in Seq(Fragment) /\ ToSet(rendered) = Live \cap Glyph /\ IsInjective(rendered)
  BY DEF Inv
<1>3. name \in Names(gfx) /\ Taken(MapNamed(gfx, name).rows) # {}
  BY <1>1, <1>2 DEF GfxOK, SpaceOK, FragOK
<1> HIDE DEF name
<1>4. GfxOK(g) /\ Steady(gfx, g) /\ MapNamed(g, name).bitmap # NULL
  BY <1>2, <1>3, EnsureBitmapOK, ZenonT(20)
<1> HIDE DEF g
<1>5. g.frags[id] # NULL /\ g.frags[id].map = name
  BY <1>1, <1>4 DEF Steady, SameFrag, name
<1>6. GfxOK(gfx') /\ Steady(g, gfx')
  BY <1>1, <1>4, <1>5, AddQuadOK
<1>7. Steady(gfx, gfx')
  BY <1>4, <1>6, SteadyTwice
<1>8. Used(gfx')
  BY <1>2, <1>7, UsedSteady
<1>9. Live' = Live
  BY <1>7 DEF Live, Steady, SameFrag
<1>10. rendered' \in Seq(Fragment) /\ ToSet(rendered') = ToSet(rendered) /\ IsInjective(rendered')
  <2>1. CASE id \in Glyph
    <3> DEFINE rest == Without(rendered, {id})
    <3>1. rest \in Seq(Fragment) /\ ToSet(rest) = ToSet(rendered) \ {id} /\ IsInjective(rest)
      BY <1>2, WithoutProperties
    <3>2. id \in ToSet(rendered)
      BY <1>1, <1>2, <2>1 DEF Live
    <3> HIDE DEF rest
    <3>3. /\ Append(rest, id) \in Seq(Fragment) /\ ToSet(Append(rest, id)) = ToSet(rest) \cup {id}
          /\ IsInjective(Append(rest, id))
      BY <3>1, AppendedProperties
    <3>4. rendered' = Append(rest, id)
      BY <1>1, <2>1 DEF rest
    <3> QED
      BY <3>1, <3>2, <3>3, <3>4
  <2>2. CASE id \notin Glyph
    BY <1>1, <1>2, <2>2
  <2> QED
    BY <2>1, <2>2
<1> QED
  BY <1>1, <1>2, <1>6, <1>8, <1>9, <1>10, ZenonT(20) DEF Inv

(* The batch is drawn. *)
LEMMA FlushInv ==
  ASSUME Inv, FlushAll
  PROVE  Inv'
<1>1. gfx' = FlushBatch(gfx) /\ rendered' = rendered /\ creating' = creating /\ creating = NULL
  BY DEF FlushAll, Idle
<1>2. GfxOK(gfx) /\ Used(gfx)
  BY DEF Inv
<1>3. GfxOK(gfx') /\ Steady(gfx, gfx')
  BY <1>1, <1>2, FlushBatchOK
<1>4. Used(gfx')
  BY <1>2, <1>3, UsedSteady
<1>5. Live' = Live
  BY <1>3 DEF Live, Steady, SameFrag
<1> QED
  BY <1>1, <1>3, <1>4, <1>5 DEF Inv

(* The fragments of the skin go. *)
LEMMA ClearedInv ==
  ASSUME Inv, NEW g, GfxOK(g), g.batch.quads = <<>>, g.frags = gfx.frags, Used(g),
         creating = NULL, gfx' = Clear(g, Skin), UNCHANGED <<rendered, creating>>
  PROVE  Inv'
<1>0. rendered' = rendered /\ creating' = creating
  OBVIOUS
<1>1. Cleared(g, gfx', Skin)
  BY ClearOK, FragmentsAssumption
<1>2. /\ GfxOK(gfx')
      /\ \A id \in Fragment : gfx'.frags[id] = IF ManagerOf[id] = Skin THEN NULL ELSE g.frags[id]
      /\ \A name \in Names(gfx') : name \in Names(g) /\ MapNamed(gfx', name) = MapNamed(g, name)
  BY <1>1 DEF Cleared
<1>3. Used(gfx')
  BY <1>2 DEF Used
<1>4. Live' \cap Glyph = Live \cap Glyph
  <2>1. \A id \in Glyph : id \in Fragment /\ ManagerOf[id] # Skin
    BY FragmentsAssumption DEF Glyph
  <2> QED
    BY <1>2, <2>1 DEF Live
<1> QED
  BY <1>0, <1>2, <1>3, <1>4 DEF Inv

(* The context is lost. *)
LEMMA ContextInv ==
  ASSUME Inv, OnContextLost
  PROVE  Inv'
<1> DEFINE g == BitmapsGone(gfx)
<1>1. /\ creating = NULL /\ gfx.batch.quads = <<>> /\ gfx' = Clear(g, Skin)
      /\ UNCHANGED <<rendered, creating>>
  BY DEF OnContextLost, Idle, Painting, BitmapsGone
<1>2. GfxOK(gfx) /\ Used(gfx)
  BY DEF Inv
<1>3. /\ GfxOK(g) /\ g.batch = gfx.batch /\ g.frags = gfx.frags /\ Names(g) = Names(gfx)
      /\ \A name \in Names(gfx) : MapNamed(g, name).rows = MapNamed(gfx, name).rows
  BY <1>1, <1>2, BitmapsGoneOK
<1> HIDE DEF g
<1>4. Used(g)
  BY <1>2, <1>3 DEF Used
<1> QED
  BY <1>1, <1>3, <1>4, ClearedInv

(* The skin is loaded anew. *)
LEMMA UnloadInv ==
  ASSUME Inv, UnloadBitmaps
  PROVE  Inv'
<1>1. /\ creating = NULL /\ gfx.batch.quads = <<>> /\ gfx' = Clear(gfx, Skin)
      /\ UNCHANGED <<rendered, creating>>
  BY DEF UnloadBitmaps, Idle, Painting
<1>2. GfxOK(gfx) /\ Used(gfx)
  BY DEF Inv
<1> QED
  BY <1>1, <1>2, ClearedInv

(* Every step keeps the invariant. *)
LEMMA InvNext ==
  ASSUME Inv, [Next]_vars
  PROVE  Inv'
<1>1. CASE Next
  <2>1. CASE \E id \in Fragment :
               GetFragmentFromFile(id) \/ RemoveImageRep(id) \/ RenderGlyph(id) \/ DrawBitmap(id)
    BY <2>1, FromFileInv, RemoveInv, RenderInv, DrawInv
  <2>2. CASE CreateFragmentDone \/ CreateFragmentRetry \/ FlushAll \/ OnContextLost \/ UnloadBitmaps
    BY <2>2, DoneInv, RetryInv, FlushInv, ContextInv, UnloadInv
  <2> QED
    BY <1>1, <2>1, <2>2 DEF Next
<1>2. CASE UNCHANGED vars
  <2>1. gfx' = gfx /\ rendered' = rendered /\ creating' = creating
    BY <1>2 DEF vars
  <2> QED
    BY <2>1 DEF Inv, Live
<1> QED
  BY <1>1, <1>2

(* The inductive invariant *)
THEOREM FragmentsInvariant == Spec => []Inv
<1>1. Init => Inv
  BY InvInit
<1>2. Inv /\ [Next]_vars => Inv'
  BY InvNext
<1> QED
  BY <1>1, <1>2, PTL DEF Spec

-----------------------------------------------------------------------------
(* What it implies *)

(* The spaces of a row tile it. *)
LEMMA Tiled ==
  ASSUME NEW width \in Nat, NEW a, AllocatorOK(a, width)
  PROVE  SpacesTile(a, width)
<1>1. /\ a.free \in Seq(Spaces) /\ a.used \in SUBSET Spaces /\ ToSet(a.free) \subseteq Spaces
      /\ \A s, t \in a.used : s = t \/ LeftOf(s, t) \/ LeftOf(t, s)
      /\ \A s \in a.used : s.x + s.width <= width
      /\ Gapped(a.free) /\ a.available = Cardinality(Open(a.used, width))
      /\ (a.free = <<>> /\ a.used = {}) \/ Columns(ToSet(a.free)) = Open(a.used, width)
  BY ColumnsOfSequence DEF AllocatorOK, Allocators
<1>2. ASSUME NEW s \in Spaces, NEW t \in Spaces, LeftOf(s, t) \/ LeftOf(t, s)
      PROVE  Columns({s}) \cap Columns({t}) = {}
  <2>1. {s} \in SUBSET Spaces /\ {t} \in SUBSET Spaces
    OBVIOUS
  <2>2. \A c : c \in Columns({s}) <=> c \in Nat /\ s.x <= c /\ c < s.x + s.width
    BY <2>1, ColumnsMembers
  <2>3. \A c : c \in Columns({t}) <=> c \in Nat /\ t.x <= c /\ c < t.x + t.width
    BY <2>1, ColumnsMembers
  <2>4. s.x \in Nat /\ s.width \in Nat /\ t.x \in Nat /\ t.width \in Nat
    BY DEF Spaces
  <2> SUFFICES ASSUME NEW c, c \in Columns({s}), c \in Columns({t})
               PROVE  FALSE
    BY ZenonT(20)
  <2>5. c \in Nat /\ s.x <= c /\ c < s.x + s.width /\ t.x <= c /\ c < t.x + t.width
    BY <2>2, <2>3, ZenonT(20)
  <2>6. s.x + s.width <= t.x \/ t.x + t.width <= s.x
    BY <1>2 DEF LeftOf
  <2> QED
    BY <2>4, <2>5, <2>6
<1>3. ASSUME NEW S \in SUBSET Spaces, NEW s \in S
      PROVE  Columns({s}) \subseteq Columns(S)
  BY DEF Columns
<1>4. ASSUME NEW s \in a.used \cup ToSet(a.free), NEW t \in a.used \cup ToSet(a.free), s # t
      PROVE  Columns({s}) \cap Columns({t}) = {}
  <2>1. ASSUME NEW u \in a.used, NEW f \in ToSet(a.free)
        PROVE  Columns({u}) \cap Columns({f}) = {}
    <3>1. Columns(ToSet(a.free)) = Open(a.used, width)
      <4>1. ToSet(<<>>) = {}
        BY DEF ToSet
      <4> QED
        BY <1>1, <4>1
    <3>2. Columns(ToSet(a.free)) \cap Columns(a.used) = {}
      BY <3>1 DEF Open
    <3> QED
      BY <1>1, <1>3, <3>2
  <2>2. ASSUME NEW e \in ToSet(a.free), NEW f \in ToSet(a.free), e # f
        PROVE  Columns({e}) \cap Columns({f}) = {}
    <3>1. \A b : b \in ToSet(a.free) => \E i \in 1..Len(a.free) : b = a.free[i]
      BY <1>1 DEF ToSet
    <3>2. PICK i \in 1..Len(a.free) : e = a.free[i]
      BY <3>1
    <3>3. PICK j \in 1..Len(a.free) : f = a.free[j]
      BY <3>1
    <3>4. i < j \/ j < i
      BY <2>2, <3>2, <3>3
    <3>5. e \in Spaces /\ f \in Spaces /\ e.x \in Nat /\ e.width \in Nat /\ f.x \in Nat /\ f.width \in Nat
      BY <1>1, ZenonT(20) DEF Spaces
    <3>6. e.x + e.width < f.x \/ f.x + f.width < e.x
      BY <1>1, <3>2, <3>3, <3>4 DEF Gapped
    <3>7. LeftOf(e, f) \/ LeftOf(f, e)
      BY <3>5, <3>6 DEF LeftOf
    <3> QED
      BY <1>2, <3>5, <3>7
  <2>3. CASE s \in a.used /\ t \in a.used
    BY <1>1, <1>2, <1>4, <2>3
  <2>4. CASE s \in a.used /\ t \in ToSet(a.free)
    BY <2>1, <2>4
  <2>5. CASE s \in ToSet(a.free) /\ t \in a.used
    BY <2>1, <2>5
  <2>6. CASE s \in ToSet(a.free) /\ t \in ToSet(a.free)
    BY <1>4, <2>2, <2>6
  <2> QED
    BY <2>3, <2>4, <2>5, <2>6, ZenonT(20)
<1>5. Columns(a.used) \subseteq 0..width - 1
  <2> SUFFICES ASSUME NEW c \in Columns(a.used)
               PROVE  c \in 0..width - 1
    OBVIOUS
  <2>1. c \in Nat /\ \E s \in a.used : s.x <= c /\ c < s.x + s.width
    BY <1>1, ColumnsMembers
  <2>2. PICK s \in a.used : s.x <= c /\ c < s.x + s.width
    BY <2>1
  <2>3. s.x \in Nat /\ s.width \in Nat /\ s.x + s.width <= width
    BY <1>1 DEF Spaces
  <2> QED
    BY <2>1, <2>2, <2>3
<1>6. \A i \in 1..(Len(a.free) - 1) : a.free[i].x + a.free[i].width < a.free[i + 1].x
  <2> TAKE i \in 1..(Len(a.free) - 1)
  <2>1. i \in 1..Len(a.free) /\ i + 1 \in 1..Len(a.free) /\ i < i + 1
    BY <1>1
  <2> QED
    BY <1>1, <2>1 DEF Gapped
<1> QED
  BY <1>1, <1>4, <1>5, <1>6, ZenonT(20) DEF SpacesTile, Open, empty

(* The maps are those that have names. *)
LEMMA AllMapsNamed ==
  ASSUME MapsOK(gfx), NEW m \in AllMaps
  PROVE  m.name \in Names(gfx) /\ MapNamed(gfx, m.name) = m /\ m \in Maps
<1>1. PICK mgr \in Manager : m \in ToSet(gfx.maps[mgr])
  BY DEF AllMaps
<1>2. ListOK(mgr, gfx.maps[mgr])
  BY DEF MapsOK
<1>3. PICK i \in 1..Len(gfx.maps[mgr]) : m = gfx.maps[mgr][i]
  <2> DEFINE list == gfx.maps[mgr]
  <2>1. list \in Seq(Maps) /\ m \in ToSet(list)
    BY <1>1, <1>2 DEF ListOK
  <2> HIDE DEF list
  <2>2. \E i \in 1..Len(list) : m = list[i]
    BY <2>1 DEF ToSet
  <2> QED
    BY <2>2 DEF list
<1>4. m.name \in Names(gfx) /\ MapNamed(gfx, m.name) = m
  BY <1>3, MapFound
<1> QED
  BY <1>4, MapFound

(* Names and records are what TypeOK asks for. *)
LEMMA InvTypeOK ==
  ASSUME Inv
  PROVE  TypeOK
<1>1. /\ MapsOK(gfx) /\ SpaceOK(gfx) /\ BatchOK(gfx) /\ gfx.frags \in [Fragment -> Record \cup {NULL}]
  BY GraphicsFields DEF Inv, GfxOK, MapsOK
<1>2. ASSUME NEW id \in Live
      PROVE  /\ gfx.frags[id].rect \in Rect /\ gfx.frags[id].in_batch \in BOOLEAN
             /\ gfx.frags[id].map \in {m.name : m \in ToSet(gfx.maps[ManagerOf[id]])}
  <2>1. id \in Fragment /\ gfx.frags[id] \in Record /\ FragOK(gfx, id)
    BY <1>1 DEF Live, SpaceOK
  <2> DEFINE name == gfx.frags[id].map
             list == gfx.maps[ManagerOf[id]]
  <2>2. name \in Names(gfx) /\ name.mgr = ManagerOf[id]
    BY <2>1 DEF FragOK
  <2>3. Place(gfx, name) \in 1..Len(list) /\ list[Place(gfx, name)].name = name
    BY <1>1, <2>2, MapFound, SMTT(20)
  <2>4. list \in Seq(Maps)
    BY <1>1, <2>1, FragmentsAssumption DEF MapsOK, ListOK
  <2> HIDE DEF name, list
  <2>5. list[Place(gfx, name)] \in ToSet(list)
    BY <2>3, <2>4 DEF ToSet
  <2>6. name \in {m.name : m \in ToSet(list)}
    BY <2>3, <2>5
  <2>7. gfx.frags[id].rect \in Rect /\ gfx.frags[id].in_batch \in BOOLEAN
    BY <2>1 DEF Record
  <2> QED
    BY <2>6, <2>7 DEF name, list
<1>3. \A mgr \in Manager : MapsLimit[mgr] = 0 \/ Len(gfx.maps[mgr]) <= MapsLimit[mgr]
  BY <1>1 DEF MapsOK, ListOK
<1>4. Len(gfx.batch.quads) <= MaxQuads
  BY <1>1 DEF BatchOK
<1>5. ToSet(rendered) = Live \cap Glyph /\ IsInjective(rendered) /\ (creating # NULL => creating.glyph \in Glyph)
  BY DEF Inv, Call
<1> QED
  BY <1>2, <1>3, <1>4, <1>5 DEF TypeOK

(* Two fragments of a map take two spaces, which share no column or are of two rows. *)
LEMMA InvFragmentsApart ==
  ASSUME Inv
  PROVE  FragmentsApart
<1>1. /\ MapsOK(gfx) /\ SpaceOK(gfx) /\ gfx.frags \in [Fragment -> Record \cup {NULL}]
  BY GraphicsFields DEF Inv, GfxOK, MapsOK
<1> DEFINE T(id) == TakenBy(gfx.frags[id])
<1>2. ASSUME NEW id \in Live
      PROVE  /\ id \in Fragment /\ gfx.frags[id] # NULL /\ T(id) \in Taken(MapNamed(gfx, gfx.frags[id].map).rows)
             /\ MapNamed(gfx, gfx.frags[id].map) \in Maps
             /\ T(id).y = Area(id).y /\ T(id).space.x = Area(id).x /\ T(id).space.width = Area(id).w
             /\ Area(id).h <= T(id).height /\ Area(id).h \in Nat /\ Area(id).y \in Nat /\ T(id).height \in Nat
             /\ Area(id).x \in Nat /\ Area(id).w \in Nat
  <2> DEFINE f == gfx.frags[id]
  <2>1. id \in Fragment /\ f # NULL /\ f \in Record /\ FragOK(gfx, id)
    BY <1>1 DEF Live, SpaceOK
  <2>2. Edged(f) /\ f.map \in Names(gfx) /\ TakenBy(f) \in Taken(MapNamed(gfx, f.map).rows)
    BY <2>1 DEF FragOK
  <2>3. MapNamed(gfx, f.map) \in Maps
    BY <1>1, <2>2, MapFound
  <2>4. /\ Area(id).x = f.space.x /\ Area(id).y = f.y /\ Area(id).w = f.space.width
        /\ Area(id).h = f.rect.h + 2 * (f.rect.x - f.space.x)
    BY DEF Area
  <2>5. TakenBy(f).y = f.y /\ TakenBy(f).space = f.space /\ TakenBy(f).height = f.row_height
    BY DEF TakenBy
  <2> HIDE DEF f
  <2>6. /\ f.space.x \in Nat /\ f.space.width \in Nat /\ f.y \in Nat /\ f.row_height \in Nat
        /\ f.rect.h \in Nat /\ f.rect.x \in Nat
    BY <2>1 DEF Record, Rect
  <2>7. PICK b \in {0, 1} : f.rect.x = f.space.x + b /\ f.rect.h + 2 * b <= f.row_height
    BY <2>2 DEF Edged
  <2>8. f.rect.h + 2 * (f.rect.x - f.space.x) \in Nat /\ f.rect.h + 2 * (f.rect.x - f.space.x) <= f.row_height
    BY <2>6, <2>7
  <2> QED
    BY <2>1, <2>2, <2>3, <2>4, <2>5, <2>6, <2>8 DEF f
<1> HIDE DEF T
<1>3. ASSUME NEW id \in Live
      PROVE  LET m == MapNamed(gfx, gfx.frags[id].map)
             IN  Area(id).x + Area(id).w <= m.w /\ Area(id).y + Area(id).h <= m.h
  <2> DEFINE m == MapNamed(gfx, gfx.frags[id].map)
  <2>1. T(id) \in Taken(m.rows) /\ m \in Maps
    BY <1>2
  <2> HIDE DEF m
  <2>2. RowsOK(m.rows, m.w, m.h) /\ m.w \in Nat /\ m.h \in Nat
    BY <2>1, MapFields
  <2>3. T(id).space.x + T(id).space.width <= m.w /\ T(id).y + T(id).height <= m.h
    BY <2>1, <2>2, TakenApart
  <2>4. Area(id).x + Area(id).w <= m.w /\ Area(id).y + Area(id).h <= m.h
    BY <1>2, <2>2, <2>3
  <2> QED
    BY <2>4 DEF m
<1>4. ASSUME NEW id \in Live, NEW other \in Live \ {id}, gfx.frags[other].map = gfx.frags[id].map
      PROVE  Apart(Area(id), Area(other))
  <2> DEFINE m == MapNamed(gfx, gfx.frags[id].map)
  <2>1. T(id) \in Taken(m.rows) /\ T(other) \in Taken(m.rows) /\ m \in Maps
    BY <1>2, <1>4
  <2> HIDE DEF m
  <2>2. T(id) # T(other)
    BY <1>1, <1>2, <1>4 DEF SpaceOK, T
  <2>3. RowsOK(m.rows, m.w, m.h)
    BY <2>1, MapFields
  <2>4. \/ LeftOf(T(id).space, T(other).space) \/ LeftOf(T(other).space, T(id).space)
        \/ T(id).y + T(id).height <= T(other).y \/ T(other).y + T(other).height <= T(id).y
    BY <2>1, <2>2, <2>3, TakenApart
  <2>5. /\ T(id).y = Area(id).y /\ T(id).space.x = Area(id).x /\ T(id).space.width = Area(id).w
        /\ Area(id).h <= T(id).height /\ Area(id).h \in Nat /\ Area(id).y \in Nat /\ T(id).height \in Nat
        /\ Area(id).x \in Nat /\ Area(id).w \in Nat
    BY <1>2
  <2>6. /\ T(other).y = Area(other).y /\ T(other).space.x = Area(other).x /\ T(other).space.width = Area(other).w
        /\ Area(other).h <= T(other).height /\ Area(other).h \in Nat /\ Area(other).y \in Nat
        /\ T(other).height \in Nat /\ Area(other).x \in Nat /\ Area(other).w \in Nat
    BY <1>2
  <2> DEFINE p == Area(id)
             q == Area(other)
             t == T(id)
             u == T(other)
  <2> HIDE DEF p, q, t, u
  <2>7. p.x + p.w <= q.x \/ q.x + q.w <= p.x \/ p.y + p.h <= q.y \/ q.y + q.h <= p.y
    BY <2>4, <2>5, <2>6 DEF LeftOf, p, q, t, u
  <2> QED
    BY <2>7 DEF Apart, p, q
<1> QED
  BY <1>3, <1>4 DEF FragmentsApart

(* Rows and spaces divide the map, and its count is that of the pixels its fragments take. *)
LEMMA InvMapsTile ==
  ASSUME Inv
  PROVE  MapsTile
<1>1. MapsOK(gfx)
  BY DEF Inv, GfxOK
<1>2. ASSUME NEW m \in AllMaps
      PROVE  /\ m.rows # <<>> /\ m.rows[1].y = 0 /\ Last(m.rows).y + Last(m.rows).height = m.h
             /\ \A i \in 1..(Len(m.rows) - 1) :
                  /\ m.rows[i + 1].y = m.rows[i].y + m.rows[i].height
                  /\ ~(empty(m.rows[i].spaces) /\ empty(m.rows[i + 1].spaces))
             /\ \A i \in DOMAIN m.rows : m.rows[i].height > 0 /\ SpacesTile(m.rows[i].spaces, m.w)
             /\ m.allocated = Cardinality(Allocated(m))
  <2>1. m \in Maps
    BY <1>1, AllMapsNamed
  <2>2. /\ m.w \in Nat /\ m.h \in Nat /\ RowsOK(m.rows, m.w, m.h)
        /\ m.allocated = Cardinality(Cover(Taken(m.rows)))
    BY <2>1, MapFields
  <2>3. m.allocated = Cardinality(Allocated(m))
    BY <2>2, CoverAllocated
  <2> DEFINE rows == m.rows
             width == m.w
  <2>4. rows \in Seq(Rows(width)) /\ rows # <<>> /\ Stacked(rows, m.h) /\ NoPairs(rows) /\ width \in Nat
    BY <2>2 DEF RowsOK
  <2> HIDE DEF rows, width
  <2>5. /\ rows[1].y = 0 /\ rows[Len(rows)].y + rows[Len(rows)].height = m.h
        /\ \A i \in 1..Len(rows) - 1 : rows[i + 1].y = rows[i].y + rows[i].height
    BY <2>4 DEF Stacked
  <2>6. Last(rows) = rows[Len(rows)]
    BY DEF Last
  <2>7. \A i \in 1..(Len(rows) - 1) : ~(empty(rows[i].spaces) /\ empty(rows[i + 1].spaces))
    BY <2>4, ZenonT(20) DEF NoPairs, Unused, empty
  <2>8. \A i \in DOMAIN rows : rows[i].height > 0 /\ SpacesTile(rows[i].spaces, width)
    <3>1. \A i \in DOMAIN rows : rows[i].height \in Nat \ {0} /\ AllocatorOK(rows[i].spaces, width)
      BY <2>4, RowsMembers
    <3> QED
      BY <2>4, <3>1, Tiled
  <2> QED
    BY <2>3, <2>4, <2>5, <2>6, <2>7, <2>8 DEF rows, width
<1> QED
  BY <1>2, ZenonT(20) DEF MapsTile

(* A map whose manager makes none in vain has a fragment. *)
LEMMA InvMapsInUse ==
  ASSUME Inv, NewMapsFit
  PROVE  MapsInUse
<1>1. MapsOK(gfx) /\ SpaceOK(gfx) /\ Used(gfx)
  BY DEF Inv, GfxOK
<1>2. ASSUME NEW m \in AllMaps
      PROVE  m.allocated > 0 /\ \E id \in Live : gfx.frags[id].map = m.name
  <2>1. m.name \in Names(gfx) /\ MapNamed(gfx, m.name) = m /\ m \in Maps
    BY <1>1, <1>2, AllMapsNamed
  <2>2. Taken(m.rows) # {}
    BY <1>1, <2>1 DEF Used
  <2>3. m.allocated \in Nat /\ m.allocated # 0
    BY <2>1, <2>2, MapFields, ZenonT(20)
  <2>4. PICK t : t \in Taken(m.rows)
    BY <2>2
  <2>5. PICK id \in Fragment : gfx.frags[id] # NULL /\ gfx.frags[id].map = m.name
    BY <1>1, <2>1, <2>4 DEF SpaceOK
  <2> QED
    BY <2>3, <2>5 DEF Live
<1> QED
  BY <1>2 DEF MapsInUse

(* Of the batch, the invariant says more. *)
LEMMA InvBatchesAgree ==
  ASSUME Inv
  PROVE  BatchesAgree
<1>1. BatchOK(gfx) /\ gfx.wrong = {}
  BY DEF Inv, GfxOK
<1> QED
  BY <1>1 DEF BatchesAgree, DrawnRight, BatchValid, BatchOK, Painting, Live

(* Of the cache too: after a drop there is room, and in an empty cache for every glyph. *)
LEMMA InvGlyphFits ==
  ASSUME Inv
  PROVE  GlyphFits
<1> SUFFICES ASSUME creating # NULL, creating.dropped = TRUE \/ rendered = <<>>
             PROVE  Fits
  BY ZenonT(20) DEF GlyphFits, Idle
<1> DEFINE id == creating.glyph
<1>1. /\ GfxOK(gfx) /\ Used(gfx) /\ SpaceOK(gfx) /\ id \in Glyph /\ gfx.frags[id] = NULL
      /\ creating.dropped = TRUE => CacheHasRoom(gfx, id)
      /\ ToSet(rendered) = Live \cap Glyph
  BY DEF Inv, GfxOK, Call
<1>2. rendered = <<>> => CacheHasRoom(gfx, id)
  <2> SUFFICES ASSUME rendered = <<>>, NEW name \in Names(gfx), name.mgr = Cache
               PROVE  FALSE
    BY DEF CacheHasRoom
  <2>1. Taken(MapNamed(gfx, name).rows) # {}
    BY <1>1, FragmentsAssumption DEF Used
  <2>2. PICK other \in Fragment : gfx.frags[other] # NULL /\ gfx.frags[other].map = name
    BY <1>1, <2>1 DEF SpaceOK
  <2>3. other \in Live \cap Glyph
    BY <1>1, <2>2 DEF SpaceOK, FragOK, Live, Glyph
  <2>4. ToSet(<<>>) = {}
    BY DEF ToSet
  <2> QED
    BY <1>1, <2>3, <2>4
<1> HIDE DEF id
<1>3. CreateNewFragment(gfx, Cache, id).frags[id] # NULL
  BY <1>1, <1>2, GlyphGetsRoom
<1> QED
  BY <1>3 DEF Fits, Attempt, id

(* Whatever the sizes, fragments lie apart, and rows and spaces divide the maps
   among them. *)
THEOREM SpaceSafe == Spec => [](TypeOK /\ FragmentsApart /\ MapsTile)
<1>1. Inv => TypeOK /\ FragmentsApart /\ MapsTile
  BY InvTypeOK, InvFragmentsApart, InvMapsTile
<1> QED
  BY <1>1, FragmentsInvariant, PTL

(* The types, and how rows and spaces divide the maps among fragments. *)
THEOREM MapsSafe == ASSUME NewMapsFit PROVE Spec => []MapsAgree
<1>1. Inv => MapsAgree
  BY InvTypeOK, InvFragmentsApart, InvMapsTile, InvMapsInUse DEF MapsAgree
<1> QED
  BY <1>1, FragmentsInvariant, PTL

(* What is drawn of a batch is what its quads were added for. *)
THEOREM BatchesSafe == Spec => []BatchesAgree
<1>1. Inv => BatchesAgree
  BY InvBatchesAgree
<1> QED
  BY <1>1, FragmentsInvariant, PTL

(* Every glyph gets its fragment. *)
THEOREM GlyphsFit == Spec => []GlyphFits
<1>1. Inv => GlyphFits
  BY InvGlyphFits
<1> QED
  BY <1>1, FragmentsInvariant, PTL

-----------------------------------------------------------------------------
(* Images *)

Slot == Image \cup {Returned}

Typed(s) ==
  s \in [alive : BOOLEAN, reps : [Rep -> ImageRep \cup {none}], hash : [Key -> Rep \cup {none}],
         loaded : SUBSET Key, held : [Slot -> Rep \cup {none}]]

(* Counted, but for a rep that nothing refers to yet *)
CountedBut(s, new) ==
  \A r \in Rep : IF s.reps[r] = none THEN Holders(s, r) = {}
                 ELSE s.reps[r].ref_count = Cardinality(Holders(s, r)) /\ (r # new => s.reps[r].ref_count > 0)

(* The keys of files that are asked for *)
RequestedKey == {Hash[f] : f \in Requested}

(* A rep shows a fragment of its own file, which no other file has. *)
RepsNamed(s) ==
  \A r \in Rep : s.reps[r] # none /\ s.reps[r].managed =>
    s.reps[r].hash_key \in RequestedKey /\ s.reps[r].fragment \in Sources(s.reps[r].hash_key)

ImagesInv(s) == Typed(s) /\ Counted(s) /\ Found(s) /\ Kept(s) /\ RepsNamed(s)
Almost(s, new) == Typed(s) /\ CountedBut(s, new) /\ Found(s) /\ Kept(s) /\ RepsNamed(s)

(* Between operations, nothing is on its way. *)
ImagesIInv == ImagesInv(im) /\ im.held[Returned] = none

(* What hash a file has is a key. *)
LEMMA Keys == \A f \in Requested : f \in File /\ Dst[f] \in File /\ Hash[f] \in Key /\ Hash[Dst[f]] \in Key
                               /\ Hash[f] \in RequestedKey /\ Hash[f] \in Sources(Hash[f]) /\ Hash[Dst[f]] \in Sources(Hash[f])
BY ImagesAssumption DEF Key, RequestedKey, Sources

(* There are finitely many images, so that those that refer to a rep can be counted. *)
LEMMA SlotsFinite == ASSUME NEW s, Typed(s), NEW r PROVE IsFiniteSet(Holders(s, r)) /\ Holders(s, r) \subseteq Slot
<1>1. IsFiniteSet(Slot)
  BY ImagesAssumption, FS_AddElement DEF Slot
<1>2. DOMAIN s.held = Slot
  BY DEF Typed
<1>. QED
  BY <1>1, <1>2, FS_Subset DEF Holders

(* What Hold does to each part of the state *)
LEMMA HoldDoes ==
  ASSUME NEW s, Typed(s), NEW i \in Slot, NEW r \in Rep \cup {none}, r # none => s.reps[r] # none
  PROVE  LET t == Hold(s, i, r) IN
         /\ Typed(t) /\ t.alive = s.alive /\ t.hash = s.hash /\ t.loaded = s.loaded
         /\ t.held = [s.held EXCEPT ![i] = r]
         /\ \A q \in Rep : /\ t.reps[q] = none <=> s.reps[q] = none
                           /\ s.reps[q] # none =>
                                /\ t.reps[q].ref_count = s.reps[q].ref_count + (IF q = r THEN 1 ELSE 0)
                                /\ t.reps[q].hash_key = s.reps[q].hash_key /\ t.reps[q].managed = s.reps[q].managed
                                /\ t.reps[q].fragment = s.reps[q].fragment
<1>1. CASE r = none
  BY <1>1, ImagesAssumption DEF Hold, Typed, ImageRep
<1>2. CASE r # none
  <2>1. s.reps[r] \in ImageRep /\ r \in Rep
    BY <1>2 DEF Typed
  <2>. DEFINE new == [s.reps[r] EXCEPT !.ref_count = @ + 1]
  <2>2. /\ new \in ImageRep /\ new.ref_count = s.reps[r].ref_count + 1 /\ new.hash_key = s.reps[r].hash_key
        /\ new.managed = s.reps[r].managed /\ new.fragment = s.reps[r].fragment
    BY <2>1 DEF ImageRep
  <2>3. new # none
    BY <2>2, ImagesAssumption
  <2>. DEFINE reps == [s.reps EXCEPT ![r] = new]
              t == Hold(s, i, r)
  <2>3a. s.held \in [Slot -> Rep \cup {none}] /\ s.reps \in [Rep -> ImageRep \cup {none}]
    BY DEF Typed
  <2>4. /\ t.alive = s.alive /\ t.hash = s.hash /\ t.loaded = s.loaded /\ t.held = [s.held EXCEPT ![i] = r] /\ t.reps = reps
        /\ t = [alive |-> t.alive, reps |-> t.reps, hash |-> t.hash, loaded |-> t.loaded, held |-> t.held]
    <3>. DEFINE u == IncRef(s, r)
    <3>1. u = [s EXCEPT !.reps = reps]
      BY DEF IncRef
    <3>. HIDE DEF reps, new
    <3>2. u \in [alive : BOOLEAN, reps : {reps}, hash : [Key -> Rep \cup {none}], loaded : SUBSET Key, held : [Slot -> Rep \cup {none}]]
      BY <3>1 DEF Typed
    <3>3. u.reps = reps /\ u.alive = s.alive /\ u.hash = s.hash /\ u.loaded = s.loaded /\ u.held = s.held
      BY <3>1 DEF Typed
    <3>4. t = [u EXCEPT !.held = [u.held EXCEPT ![i] = r]]
      BY <1>2 DEF Hold
    <3>. HIDE DEF u, t
    <3>. QED
      BY ONLY <3>2, <3>3, <3>4
  <2>. HIDE DEF new, t
  <2>5. \A q \in Rep : reps[q] = IF q = r THEN new ELSE s.reps[q]
    BY <2>1, <2>3a
  <2>6. reps \in [Rep -> ImageRep \cup {none}] /\ t.held \in [Slot -> Rep \cup {none}]
    BY <2>2, <2>1, <2>3a, <2>4
  <2>7. s.alive \in BOOLEAN /\ s.hash \in [Key -> Rep \cup {none}] /\ s.loaded \in SUBSET Key
    BY DEF Typed
  <2>. HIDE DEF reps
  <2>8. Typed(t)
    BY ONLY <2>4, <2>6, <2>7 DEF Typed
  <2>9. \A q \in Rep : s.reps[q] # none => s.reps[q].ref_count \in Nat
    BY <2>3a DEF ImageRep
  <2>10. ASSUME NEW q \in Rep
         PROVE  /\ reps[q] = none <=> s.reps[q] = none
                /\ s.reps[q] # none =>
                                /\ reps[q].ref_count = s.reps[q].ref_count + (IF q = r THEN 1 ELSE 0)
                                /\ reps[q].hash_key = s.reps[q].hash_key /\ reps[q].managed = s.reps[q].managed
                                /\ reps[q].fragment = s.reps[q].fragment
    <3>1. CASE q = r
      BY ONLY <3>1, <2>2, <2>3, <2>5, <2>1, r # none => s.reps[r] # none, <1>2
    <3>2. CASE q # r
      BY ONLY <3>2, <2>5, <2>9, q \in Rep
    <3>. QED
      BY <3>1, <3>2
  <2>. QED
    BY <2>4, <2>8, <2>10 DEF t
<1>. QED
  BY <1>1, <1>2

(* Who refers to a rep after one image got another one *)
LEMMA HoldersAfter ==
  ASSUME NEW s, NEW t, Typed(s), NEW i \in Slot, NEW r \in Rep \cup {none}, t.held = [s.held EXCEPT ![i] = r]
  PROVE  \A q : Holders(t, q) = IF q = r THEN Holders(s, q) \cup {i} ELSE Holders(s, q) \ {i}
<1>1. s.held \in [Slot -> Rep \cup {none}]
  BY DEF Typed
<1>. QED
  BY <1>1 DEF Holders

(* Found says nothing about the counts. *)
LEMMA HoldFinds ==
  ASSUME NEW s, NEW t, Typed(s), t.alive = s.alive, t.hash = s.hash, t.loaded = s.loaded,
         \A q \in Rep : /\ t.reps[q] = none <=> s.reps[q] = none
                        /\ s.reps[q] # none => /\ t.reps[q].hash_key = s.reps[q].hash_key
                                               /\ t.reps[q].managed = s.reps[q].managed
                                               /\ t.reps[q].fragment = s.reps[q].fragment
  PROVE  /\ Found(s) => Found(t)
         /\ Kept(s) => Kept(t)
         /\ RepsNamed(s) => RepsNamed(t)
<1>1. \A k \in Key : s.hash[k] # none => s.hash[k] \in Rep
  BY DEF Typed
<1>2. Found(s) => Found(t)
  BY <1>1 DEF Found
<1>3. Kept(s) => Kept(t)
  BY DEF Kept
<1>4. RepsNamed(s) => RepsNamed(t)
  BY DEF RepsNamed
<1>. QED
  BY <1>2, <1>3, <1>4

(* An image that refers to nothing may refer to a rep: one that is found, or a new one. *)
LEMMA HoldKeeps ==
  ASSUME NEW s, NEW i \in Slot, NEW r \in Rep \cup {none}, Almost(s, r), s.held[i] = none, r # none => s.reps[r] # none
  PROVE  ImagesInv(Hold(s, i, r)) /\ Hold(s, i, r).held = [s.held EXCEPT ![i] = r]
<1>. DEFINE t == Hold(s, i, r)
<1>0. Typed(s) /\ CountedBut(s, r) /\ Found(s) /\ Kept(s) /\ RepsNamed(s)
  BY DEF Almost
<1>1. /\ Typed(t) /\ t.alive = s.alive /\ t.hash = s.hash /\ t.loaded = s.loaded
      /\ t.held = [s.held EXCEPT ![i] = r]
      /\ \A q \in Rep : /\ t.reps[q] = none <=> s.reps[q] = none
                        /\ s.reps[q] # none =>
                              /\ t.reps[q].ref_count = s.reps[q].ref_count + (IF q = r THEN 1 ELSE 0)
                              /\ t.reps[q].hash_key = s.reps[q].hash_key /\ t.reps[q].managed = s.reps[q].managed
                              /\ t.reps[q].fragment = s.reps[q].fragment
  BY <1>0, HoldDoes
<1>. HIDE DEF t
<1>2. Found(t) /\ Kept(t) /\ RepsNamed(t)
  BY <1>0, <1>1, HoldFinds
<1>3. Counted(t)
  <2>. SUFFICES ASSUME NEW q \in Rep
                PROVE  IF t.reps[q] = none THEN Holders(t, q) = {}
                       ELSE t.reps[q].ref_count = Cardinality(Holders(t, q)) /\ t.reps[q].ref_count > 0
    BY DEF Counted
  <2>1. Holders(t, q) = IF q = r THEN Holders(s, q) \cup {i} ELSE Holders(s, q) \ {i}
    BY <1>0, <1>1, HoldersAfter
  <2>2. i \notin Holders(s, q) /\ IsFiniteSet(Holders(s, q)) /\ Cardinality(Holders(s, q)) \in Nat
    <3>1. i \notin Holders(s, q)
      BY ImagesAssumption DEF Holders
    <3>. QED
      BY <3>1, <1>0, SlotsFinite, FS_CardinalityType
  <2>3. IF s.reps[q] = none THEN Holders(s, q) = {}
        ELSE s.reps[q].ref_count = Cardinality(Holders(s, q)) /\ (q # r => s.reps[q].ref_count > 0)
    BY <1>0 DEF CountedBut
  <2>4. CASE q = r
    <3>1. Cardinality(Holders(t, q)) = Cardinality(Holders(s, q)) + 1
      BY ONLY <2>1, <2>2, <2>4, FS_AddElement
    <3>. QED
      BY <2>4, <3>1, <2>3, <2>2, <1>1, ImagesAssumption
  <2>5. CASE q # r
    <3>1. Holders(t, q) = Holders(s, q)
      BY <2>1, <2>2, <2>5
    <3>. QED
      BY <2>5, <3>1, <2>3, <2>2, <1>1
  <2>. QED
    BY <2>4, <2>5
<1>. QED
  BY <1>1, <1>2, <1>3 DEF ImagesInv, t

(* What Drop does to each part of the state, of an image that refers to a rep: the rep has one reference
   less, or goes with the last one, and with it what the manager has of it. *)
LEMMA DropDoes ==
  ASSUME NEW s, Typed(s), Counted(s), NEW i \in Slot, s.held[i] # none
  PROVE  LET t == Drop(s, i)
             r == s.held[i]
             last == s.reps[r].ref_count = 1
         IN  /\ r \in Rep /\ s.reps[r] # none /\ s.reps[r].ref_count \in Nat \ {0} /\ s.reps[r].hash_key \in Key
             /\ Typed(t) /\ t.alive = s.alive /\ t.held = [s.held EXCEPT ![i] = none]
             /\ t.hash = IF last /\ s.reps[r].managed THEN [s.hash EXCEPT ![s.reps[r].hash_key] = none] ELSE s.hash
             /\ t.loaded = IF last /\ s.reps[r].managed THEN s.loaded \ {s.reps[r].fragment} ELSE s.loaded
             /\ \A q \in Rep : q # r => t.reps[q] = s.reps[q]
             /\ last => t.reps[r] = none
             /\ ~last => /\ t.reps[r] # none /\ t.reps[r].ref_count = s.reps[r].ref_count - 1
                         /\ t.reps[r].hash_key = s.reps[r].hash_key /\ t.reps[r].managed = s.reps[r].managed
                         /\ t.reps[r].fragment = s.reps[r].fragment
<1>. DEFINE t == Drop(s, i)
            r == s.held[i]
            last == s.reps[r].ref_count = 1
            less == [s.reps[r] EXCEPT !.ref_count = @ - 1]
            reps == [s.reps EXCEPT ![r] = IF last THEN none ELSE less]
            hash == IF last /\ s.reps[r].managed THEN [s.hash EXCEPT ![s.reps[r].hash_key] = none] ELSE s.hash
            loaded == IF last /\ s.reps[r].managed THEN s.loaded \ {s.reps[r].fragment} ELSE s.loaded
            u == DecRef(s, r)
<1>1. /\ s.alive \in BOOLEAN /\ s.hash \in [Key -> Rep \cup {none}] /\ s.loaded \in SUBSET Key
      /\ s.held \in [Slot -> Rep \cup {none}] /\ s.reps \in [Rep -> ImageRep \cup {none}]
      /\ s = [alive |-> s.alive, reps |-> s.reps, hash |-> s.hash, loaded |-> s.loaded, held |-> s.held]
  BY DEF Typed
<1>2. r \in Rep /\ i \in Holders(s, r)
  BY <1>1 DEF Holders
<1>3. s.reps[r] # none /\ s.reps[r].ref_count > 0
  BY <1>2 DEF Counted
<1>4. s.reps[r] \in ImageRep
  BY <1>1, <1>2, <1>3
<1>5. s.reps[r].ref_count \in Nat \ {0} /\ s.reps[r].hash_key \in Key
  BY <1>3, <1>4 DEF ImageRep
<1>6. /\ ~last => s.reps[r].ref_count > 1 /\ less \in ImageRep
      /\ less.ref_count = s.reps[r].ref_count - 1 /\ less.hash_key = s.reps[r].hash_key
      /\ less.managed = s.reps[r].managed /\ less.fragment = s.reps[r].fragment
  BY <1>4, <1>5 DEF ImageRep
<1>7. ~last => less # none
  BY <1>6, ImagesAssumption
<1>8. u = [alive |-> s.alive, reps |-> reps, hash |-> hash, loaded |-> loaded, held |-> s.held]
  <2>1. CASE last
    <3>1. CASE s.reps[r].managed
      <4>. DEFINE v == RemoveRep(s, r)
      <4>1. v = [alive |-> s.alive, reps |-> s.reps, hash |-> hash, loaded |-> loaded, held |-> s.held]
        <5>1. hash = [s.hash EXCEPT ![s.reps[r].hash_key] = none] /\ loaded = s.loaded \ {s.reps[r].fragment}
          BY <2>1, <3>1
        <5>. HIDE DEF hash, loaded
        <5>2. v = [s EXCEPT !.loaded = loaded, !.hash = hash]
          BY ONLY <5>1 DEF v, RemoveRep
        <5>. HIDE DEF v
        <5>. QED
          BY ONLY <5>2, <1>1, ZenonT(20)
      <4>2. u = [v EXCEPT !.reps[r] = none]
        BY <1>5, <2>1, <3>1 DEF DecRef
      <4>3. reps = [s.reps EXCEPT ![r] = none]
        BY <2>1
      <4>. HIDE DEF v, u, reps, hash, loaded
      <4>. QED
        BY ONLY <4>1, <4>2, <4>3
    <3>2. CASE ~s.reps[r].managed
      BY <1>1, <1>5, <2>1, <3>2 DEF DecRef
    <3>. QED
      BY <3>1, <3>2
  <2>2. CASE ~last
    BY <1>1, <1>5, <1>6, <2>2 DEF DecRef
  <2>. QED
    BY <2>1, <2>2
<1>9. t = [u EXCEPT !.held[i] = none]
  BY DEF Drop
<1>. HIDE DEF u, t, less
<1>10. t = [alive |-> s.alive, reps |-> reps, hash |-> hash, loaded |-> loaded, held |-> [s.held EXCEPT ![i] = none]]
  BY <1>8, <1>9, ZenonT(20)
<1>11. reps \in [Rep -> ImageRep \cup {none}] /\ hash \in [Key -> Rep \cup {none}] /\ loaded \in SUBSET Key
       /\ [s.held EXCEPT ![i] = none] \in [Slot -> Rep \cup {none}]
  BY <1>1, <1>2, <1>5, <1>6
<1>12. /\ \A q \in Rep : q # r => reps[q] = s.reps[q]
       /\ last => reps[r] = none
       /\ ~last => reps[r] = less
  BY <1>1, <1>2
<1>. HIDE DEF reps, hash, loaded
<1>13. Typed(t)
  BY ONLY <1>1, <1>10, <1>11 DEF Typed
<1>14. t.alive = s.alive /\ t.reps = reps /\ t.hash = hash /\ t.loaded = loaded /\ t.held = [s.held EXCEPT ![i] = none]
  BY ONLY <1>10
<1>. QED
  BY <1>2, <1>3, <1>5, <1>6, <1>7, <1>12, <1>13, <1>14 DEF hash, loaded, t

(* Every image may go at any time; what others refer to stays. *)
LEMMA DropKeeps ==
  ASSUME NEW s, ImagesInv(s), NEW i \in Slot
  PROVE  /\ ImagesInv(Drop(s, i)) /\ Drop(s, i).held = [s.held EXCEPT ![i] = none] /\ Drop(s, i).alive = s.alive
         /\ \A j \in Slot : s.held[j] # none /\ s.held[j] # s.held[i] => Drop(s, i).reps[s.held[j]] # none
<1>. DEFINE t == Drop(s, i)
            r == s.held[i]
            last == s.reps[r].ref_count = 1
<1>0. Typed(s) /\ Counted(s) /\ Found(s) /\ Kept(s) /\ RepsNamed(s) /\ s.held \in [Slot -> Rep \cup {none}]
      /\ s.hash \in [Key -> Rep \cup {none}]
  BY DEF ImagesInv, Typed
<1>a. \A j \in Slot : s.held[j] # none => s.held[j] \in Rep /\ s.reps[s.held[j]] # none
  BY <1>0, ZenonT(20) DEF Counted, Holders
<1>1. CASE s.held[i] = none
  <2>1. t = [s EXCEPT !.held = [s.held EXCEPT ![i] = none]]
    BY <1>1 DEF Drop
  <2>2. [s.held EXCEPT ![i] = none] = s.held
    BY <1>0, <1>1
  <2>3. t = s
    BY <2>1, <2>2, <1>0 DEF Typed
  <2>. QED
    BY <2>3, <2>2, <1>a
<1>2. CASE s.held[i] # none
  <2>1. /\ r \in Rep /\ s.reps[r] # none /\ s.reps[r].ref_count \in Nat \ {0} /\ s.reps[r].hash_key \in Key
        /\ Typed(t) /\ t.alive = s.alive /\ t.held = [s.held EXCEPT ![i] = none]
        /\ t.hash = IF last /\ s.reps[r].managed THEN [s.hash EXCEPT ![s.reps[r].hash_key] = none] ELSE s.hash
        /\ t.loaded = IF last /\ s.reps[r].managed THEN s.loaded \ {s.reps[r].fragment} ELSE s.loaded
        /\ \A q \in Rep : q # r => t.reps[q] = s.reps[q]
        /\ last => t.reps[r] = none
        /\ ~last => /\ t.reps[r] # none /\ t.reps[r].ref_count = s.reps[r].ref_count - 1
                    /\ t.reps[r].hash_key = s.reps[r].hash_key /\ t.reps[r].managed = s.reps[r].managed
                    /\ t.reps[r].fragment = s.reps[r].fragment
    BY <1>0, <1>2, DropDoes, ZenonT(20)
  <2>. HIDE DEF t
  <2>a. \A k \in Key : t.hash[k] = IF last /\ s.reps[r].managed /\ k = s.reps[r].hash_key THEN none ELSE s.hash[k]
    <3>1. t.hash = IF last /\ s.reps[r].managed THEN [s.hash EXCEPT ![s.reps[r].hash_key] = none] ELSE s.hash
      BY <2>1
    <3>2. s.reps[r].hash_key \in Key
      BY <2>1
    <3>. HIDE DEF last
    <3>. QED
      BY ONLY <3>1, <3>2, <1>0
  <2>2. Counted(t)
    <3>. SUFFICES ASSUME NEW q \in Rep
                  PROVE  IF t.reps[q] = none THEN Holders(t, q) = {}
                         ELSE t.reps[q].ref_count = Cardinality(Holders(t, q)) /\ t.reps[q].ref_count > 0
      BY DEF Counted
    <3>1. Holders(t, q) = Holders(s, q) \ {i}
      <4>1. Typed(s) /\ t.held = [s.held EXCEPT ![i] = none]
        BY <1>0, <2>1
      <4>2. Holders(t, q) = IF q = none THEN Holders(s, q) \cup {i} ELSE Holders(s, q) \ {i}
        BY ONLY <4>1, i \in Slot, HoldersAfter
      <4>. QED
        BY ONLY <4>2, ImagesAssumption, q \in Rep
    <3>2. IsFiniteSet(Holders(s, q)) /\ Cardinality(Holders(s, q)) \in Nat
      BY <1>0, SlotsFinite, FS_CardinalityType
    <3>3. IF s.reps[q] = none THEN Holders(s, q) = {}
          ELSE s.reps[q].ref_count = Cardinality(Holders(s, q)) /\ s.reps[q].ref_count > 0
      BY <1>0 DEF Counted
    <3>4. CASE q = r
      <4>1. i \in Holders(s, q)
        BY <1>0, <3>4 DEF Holders
      <4>2. Cardinality(Holders(t, q)) = Cardinality(Holders(s, q)) - 1 /\ IsFiniteSet(Holders(t, q))
        BY <3>1, <3>2, <4>1, FS_RemoveElement
      <4>3. CASE last
        <5>1. Cardinality(Holders(t, q)) = 0
          BY <4>2, <4>3, <3>3, <3>4, <2>1
        <5>. QED
          BY <5>1, <4>2, <4>3, <2>1, <3>4, FS_EmptySet
      <4>4. CASE ~last
        BY <4>4, <4>2, <3>3, <3>4, <2>1
      <4>. QED
        BY <4>3, <4>4
    <3>5. CASE q # r
      <4>1. Holders(t, q) = Holders(s, q)
        BY <3>1, <3>5 DEF Holders
      <4>. QED
        BY <4>1, <3>3, <3>5, <2>1
    <3>. QED
      BY <3>4, <3>5
  <2>3. ASSUME NEW q \in Rep, t.reps[q] # none
        PROVE  /\ s.reps[q] # none /\ t.reps[q].hash_key = s.reps[q].hash_key
               /\ t.reps[q].managed = s.reps[q].managed /\ t.reps[q].fragment = s.reps[q].fragment
               /\ last => q # r
    BY <2>1, <2>3
  <2>4. s.reps[r].managed => s.hash[s.reps[r].hash_key] = r
    BY <2>1, <1>0 DEF Found
  <2>5. \A q \in Rep : s.reps[q] # none => s.reps[q].hash_key \in Key
    BY <1>0 DEF Typed, ImageRep
  <2>6. Found(t)
    <3>1. ASSUME NEW k \in Key, t.hash[k] # none
          PROVE  t.alive /\ t.reps[t.hash[k]] # none /\ t.reps[t.hash[k]].hash_key = k /\ t.reps[t.hash[k]].managed
      <4>1. s.hash[k] = t.hash[k] /\ (last /\ s.reps[r].managed => k # s.reps[r].hash_key)
        BY <3>1, <2>a
      <4>2. s.alive /\ s.reps[s.hash[k]] # none /\ s.reps[s.hash[k]].hash_key = k /\ s.reps[s.hash[k]].managed
            /\ s.hash[k] \in Rep
        BY <4>1, <3>1, <1>0 DEF Found
      <4>3. last => s.hash[k] # r
        BY <4>1, <4>2
      <4>4. t.reps[s.hash[k]] # none
        BY <4>2, <4>3, <2>1
      <4>5. t.reps[s.hash[k]].hash_key = s.reps[s.hash[k]].hash_key /\ t.reps[s.hash[k]].managed = s.reps[s.hash[k]].managed
        BY <4>2, <4>4, <2>3, ZenonT(20)
      <4>6. t.alive = s.alive
        BY <2>1
      <4>. QED
        BY ONLY <4>1, <4>2, <4>4, <4>5, <4>6
    <3>2. ASSUME NEW q \in Rep, t.reps[q] # none, t.reps[q].managed
          PROVE  t.hash[t.reps[q].hash_key] = q
      <4>1. s.reps[q] # none /\ s.reps[q].managed /\ t.reps[q].hash_key = s.reps[q].hash_key /\ (last => q # r)
        BY <2>3, <3>2
      <4>2. s.hash[s.reps[q].hash_key] = q /\ s.reps[q].hash_key \in Key
        BY <4>1, <2>5, <1>0 DEF Found
      <4>3. last /\ s.reps[r].managed => s.reps[q].hash_key # s.reps[r].hash_key
        BY <4>1, <4>2, <2>4
      <4>. QED
        BY <4>1, <4>2, <4>3, <2>a
    <3>. QED
      BY <3>1, <3>2 DEF Found
  <2>7. RepsNamed(t)
    BY <2>3, <1>0 DEF RepsNamed
  <2>8. Kept(t)
    <3>1. ASSUME NEW q \in Rep, t.reps[q] # none
          PROVE  IF t.reps[q].managed THEN t.reps[q].fragment \in t.loaded ELSE t.reps[q].fragment = none
      <4>1. s.reps[q] # none /\ t.reps[q].managed = s.reps[q].managed /\ t.reps[q].fragment = s.reps[q].fragment /\ (last => q # r)
            /\ IF s.reps[q].managed THEN s.reps[q].fragment \in s.loaded ELSE s.reps[q].fragment = none
        BY <2>3, <3>1, <1>0 DEF Kept
      <4>2. ASSUME s.reps[q].managed, last, s.reps[r].managed
            PROVE  s.reps[q].fragment # s.reps[r].fragment
        <5>1. s.hash[s.reps[q].hash_key] = q /\ s.hash[s.reps[r].hash_key] = r /\ q # r
          BY <4>1, <4>2, <2>4, <1>0 DEF Found
        <5>2. s.reps[q].hash_key # s.reps[r].hash_key
          BY <5>1
        <5>3. /\ s.reps[q].hash_key \in RequestedKey /\ s.reps[q].fragment \in Sources(s.reps[q].hash_key)
              /\ s.reps[r].hash_key \in RequestedKey /\ s.reps[r].fragment \in Sources(s.reps[r].hash_key)
          BY <4>1, <4>2, <2>1, <1>0 DEF RepsNamed
        <5>4. Sources(s.reps[q].hash_key) \cap Sources(s.reps[r].hash_key) = {}
          BY <5>2, <5>3, ImagesAssumption, ZenonT(20) DEF RequestedKey
        <5>. QED
          BY <5>3, <5>4
      <4>. QED
        BY <4>1, <4>2, <2>1
    <3>2. ASSUME NEW k \in t.loaded
          PROVE  \E q \in Rep : t.reps[q] # none /\ t.reps[q].fragment = k
      <4>1. k \in s.loaded /\ (last /\ s.reps[r].managed => k # s.reps[r].fragment)
        BY <2>1
      <4>2. PICK q \in Rep : s.reps[q] # none /\ s.reps[q].fragment = k
        BY <4>1, <1>0 DEF Kept
      <4>3. k # none
        BY <4>1, <1>0, ImagesAssumption DEF Typed
      <4>4. q = r => ~last
        BY <4>1, <4>2, <4>3, <1>0 DEF Kept
      <4>. QED
        BY <4>2, <4>4, <2>1
    <3>. QED
      BY <3>1, <3>2 DEF Kept
  <2>9. \A j \in Slot : s.held[j] # none /\ s.held[j] # s.held[i] => t.reps[s.held[j]] # none
    BY <1>a, <2>1
  <2>. QED
    BY <2>1, <2>2, <2>6, <2>7, <2>8, <2>9 DEF ImagesInv, t
<1>. QED
  BY <1>1, <1>2

(* An image may refer to what another one refers to. *)
LEMMA SetKeeps ==
  ASSUME NEW s, ImagesInv(s), NEW i \in Slot, NEW j \in Slot
  PROVE  /\ ImagesInv(set_image_rep(s, i, s.held[j])) /\ set_image_rep(s, i, s.held[j]).held = [s.held EXCEPT ![i] = s.held[j]]
<1>0. s.held \in [Slot -> Rep \cup {none}]
  BY DEF ImagesInv, Typed
<1>1. CASE s.held[i] = s.held[j]
  BY <1>0, <1>1 DEF set_image_rep
<1>2. CASE s.held[i] # s.held[j]
  <2>. DEFINE t == Drop(s, i)
              r == s.held[j]
  <2>1. /\ ImagesInv(t) /\ t.held = [s.held EXCEPT ![i] = none]
        /\ r # none => t.reps[r] # none
    BY <1>2, DropKeeps
  <2>2. t.held[i] = none /\ r \in Rep \cup {none}
    BY <2>1, <1>0
  <2>. HIDE DEF t, r
  <2>3. Almost(t, r)
    BY <2>1 DEF ImagesInv, Almost, Counted, CountedBut
  <2>4. ImagesInv(Hold(t, i, r)) /\ Hold(t, i, r).held = [t.held EXCEPT ![i] = r]
    <3>1. r # none => t.reps[r] # none
      BY <2>1
    <3>. QED
      BY ONLY <3>1, <2>2, <2>3, i \in Slot, HoldKeeps
  <2>5. [t.held EXCEPT ![i] = r] = [s.held EXCEPT ![i] = r]
    BY <2>1, <1>0
  <2>. QED
    BY <2>4, <2>5, <1>2 DEF set_image_rep, t, r
<1>. QED
  BY <1>1, <1>2

(* The image returned refers to the rep of its file: the one there is, a new one, or none. *)
LEMMA GetKeeps ==
  ASSUME NEW s, ImagesInv(s), s.alive, s.held[Returned] = none, NEW f \in Requested, NEW disk, NEW r \in Rep, s.reps[r] = none
  PROVE  ImagesInv(GetImage(s, f, disk, r))
<1>. DEFINE k == Hash[f]
            fragment == LoadFragment(s, f, disk)
<1>0. Typed(s) /\ Counted(s) /\ Found(s) /\ Kept(s) /\ RepsNamed(s) /\ k \in Key /\ k \in RequestedKey /\ Returned \in Slot
  BY Keys DEF ImagesInv, Slot
<1>1. CASE s.hash[k] # none
  <2>1. Almost(s, s.hash[k])
    BY <1>0 DEF Almost, Counted, CountedBut
  <2>2. s.hash[k] \in Rep /\ s.reps[s.hash[k]] # none
    BY <1>0, <1>1 DEF Typed, Found
  <2>3. ImagesInv(Hold(s, Returned, s.hash[k]))
    BY <2>1, <2>2, <1>0, HoldKeeps, ZenonT(20)
  <2>. QED
    BY <1>1, <2>3 DEF GetImage
<1>2. CASE s.hash[k] = none /\ fragment = none
  BY <1>2 DEF GetImage
<1>3. CASE s.hash[k] = none /\ fragment # none
  <2>. DEFINE new == NewRep(k, fragment)
              loaded == s.loaded \cup {fragment}
              reps == [s.reps EXCEPT ![r] = new]
              hash == [s.hash EXCEPT ![k] = r]
              t == [s EXCEPT !.loaded = loaded, !.reps = reps, !.hash = hash]
  <2>1. fragment \in Key /\ fragment \in Sources(k)
    BY <1>3, Keys DEF LoadFragment, FragmentOf
  <2>2. GetImage(s, f, disk, r) = Hold(t, Returned, r)
    BY <1>3 DEF GetImage
  <2>. HIDE DEF fragment
  <2>3. /\ new \in ImageRep /\ new.ref_count = 0 /\ new.hash_key = k /\ new.managed = TRUE /\ new.fragment = fragment
    BY <2>1, <1>0 DEF NewRep, ImageRep
  <2>4. new # none
    BY <2>3, ImagesAssumption
  <2>. HIDE DEF new, k
  <2>5. /\ s.alive \in BOOLEAN /\ s.hash \in [Key -> Rep \cup {none}] /\ s.loaded \in SUBSET Key
        /\ s.held \in [Slot -> Rep \cup {none}] /\ s.reps \in [Rep -> ImageRep \cup {none}]
        /\ s = [alive |-> s.alive, reps |-> s.reps, hash |-> s.hash, loaded |-> s.loaded, held |-> s.held]
    BY <1>0 DEF Typed
  <2>5a. s = [alive |-> s.alive, reps |-> s.reps, hash |-> s.hash, loaded |-> s.loaded, held |-> s.held]
    BY <2>5
  <2>6. t = [alive |-> s.alive, reps |-> reps, hash |-> hash, loaded |-> loaded, held |-> s.held]
    <3>. HIDE DEF reps, hash, loaded
    <3>1. t = [[alive |-> s.alive, reps |-> s.reps, hash |-> s.hash, loaded |-> s.loaded, held |-> s.held]
                 EXCEPT !.loaded = loaded, !.reps = reps, !.hash = hash]
      BY ONLY <2>5a, ZenonT(20) DEF t
    <3>. HIDE DEF t
    <3>. QED
      BY ONLY <3>1, ZenonT(20)
  <2>7. /\ reps \in [Rep -> ImageRep \cup {none}] /\ reps[r] = new /\ \A q \in Rep : q # r => reps[q] = s.reps[q]
        /\ hash \in [Key -> Rep \cup {none}] /\ hash[k] = r /\ \A l \in Key : l # k => hash[l] = s.hash[l]
        /\ loaded \in SUBSET Key
    BY <2>1, <2>3, <2>5, <1>0
  <2>8. loaded = s.loaded \cup {fragment}
    OBVIOUS
  <2>. HIDE DEF t, reps, hash, loaded
  <2>9. t.alive = s.alive /\ t.reps = reps /\ t.hash = hash /\ t.loaded = loaded /\ t.held = s.held
    BY ONLY <2>6
  <2>10. Typed(t)
    BY ONLY <2>5, <2>6, <2>7 DEF Typed
  <2>11. CountedBut(t, r)
    <3>. SUFFICES ASSUME NEW q \in Rep
                  PROVE  IF t.reps[q] = none THEN Holders(t, q) = {}
                         ELSE t.reps[q].ref_count = Cardinality(Holders(t, q)) /\ (q # r => t.reps[q].ref_count > 0)
      BY DEF CountedBut
    <3>1. Holders(t, q) = Holders(s, q)
      BY <2>9 DEF Holders
    <3>2. IF s.reps[q] = none THEN Holders(s, q) = {}
          ELSE s.reps[q].ref_count = Cardinality(Holders(s, q)) /\ s.reps[q].ref_count > 0
      BY <1>0 DEF Counted
    <3>3. CASE q = r
      <4>1. Cardinality(Holders(t, q)) = 0
        BY <3>1, <3>2, <3>3, FS_EmptySet
      <4>. QED
        BY <4>1, <3>3, <2>3, <2>4, <2>7, <2>9
    <3>4. CASE q # r
      BY <3>1, <3>2, <3>4, <2>7, <2>9
    <3>. QED
      BY <3>3, <3>4
  <2>12. Found(t)
    <3>1. ASSUME NEW l \in Key, t.hash[l] # none
          PROVE  t.alive /\ t.reps[t.hash[l]] # none /\ t.reps[t.hash[l]].hash_key = l /\ t.reps[t.hash[l]].managed
      <4>1. CASE l = k
        BY <4>1, <2>3, <2>4, <2>7, <2>9
      <4>2. CASE l # k
        <5>1. t.hash[l] = s.hash[l] /\ s.hash[l] # none /\ s.hash[l] \in Rep
          BY <4>2, <3>1, <2>5, <2>7, <2>9
        <5>2. s.reps[s.hash[l]] # none /\ s.reps[s.hash[l]].hash_key = l /\ s.reps[s.hash[l]].managed
          BY <5>1, <1>0 DEF Found
        <5>. QED
          BY <5>1, <5>2, <2>7, <2>9
      <4>. QED
        BY <4>1, <4>2
    <3>2. ASSUME NEW q \in Rep, t.reps[q] # none, t.reps[q].managed
          PROVE  t.hash[t.reps[q].hash_key] = q
      <4>1. CASE q = r
        BY <4>1, <2>3, <2>7, <2>9
      <4>2. CASE q # r
        <5>1. t.reps[q] = s.reps[q] /\ s.hash[s.reps[q].hash_key] = q
          BY <4>2, <3>2, <2>7, <2>9, <1>0 DEF Found
        <5>2. s.reps[q].hash_key \in Key /\ q # none
          BY <5>1, <3>2, <2>5, ImagesAssumption DEF ImageRep
        <5>3. s.reps[q].hash_key # k
          BY <5>1, <5>2, <1>3 DEF k
        <5>. QED
          BY <5>1, <5>2, <5>3, <2>7, <2>9
      <4>. QED
        BY <4>1, <4>2
    <3>. QED
      BY <3>1, <3>2 DEF Found
  <2>13. Kept(t)
    <3>1. \A q \in Rep : t.reps[q] # none =>
            IF t.reps[q].managed THEN t.reps[q].fragment \in t.loaded ELSE t.reps[q].fragment = none
      BY <1>0, <2>3, <2>7, <2>8, <2>9 DEF Kept
    <3>2. \A l \in t.loaded : \E q \in Rep : t.reps[q] # none /\ t.reps[q].fragment = l
      <4>. SUFFICES ASSUME NEW l \in t.loaded PROVE \E q \in Rep : t.reps[q] # none /\ t.reps[q].fragment = l
        OBVIOUS
      <4>1. CASE l = fragment
        BY <4>1, <2>3, <2>4, <2>7, <2>9
      <4>2. CASE l \in s.loaded
        BY <4>2, <2>7, <2>9, <1>0 DEF Kept
      <4>. QED
        BY <4>1, <4>2, <2>8, <2>9
    <3>. QED
      BY <3>1, <3>2 DEF Kept
  <2>14. RepsNamed(t)
    BY <1>0, <2>1, <2>3, <2>7, <2>9 DEF RepsNamed
  <2>15. ImagesInv(Hold(t, Returned, r))
    <3>1. Almost(t, r)
      BY <2>10, <2>11, <2>12, <2>13, <2>14 DEF Almost
    <3>2. t.held[Returned] = none /\ t.reps[r] # none
      BY <2>4, <2>7, <2>9
    <3>. QED
      BY ONLY <3>1, <3>2, <1>0, r \in Rep, HoldKeeps, ZenonT(20)
  <2>. QED
    BY <2>2, <2>15 DEF t
<1>. QED
  BY <1>1, <1>2, <1>3

-----------------------------------------------------------------------------
(* At first there are no images. *)
LEMMA Initially == InitImages => ImagesIInv
<1>. SUFFICES ASSUME InitImages PROVE ImagesIInv
  OBVIOUS
<1>1. Typed(im)
  BY DEF InitImages, Typed, Slot
<1>2. Counted(im) /\ Found(im) /\ Kept(im) /\ RepsNamed(im)
  BY ImagesAssumption DEF InitImages, Counted, Found, Kept, RepsNamed, Holders
<1>. QED
  BY <1>1, <1>2 DEF InitImages, ImagesIInv, ImagesInv, Slot

(* ~ImageManager finds every rep that is still managed. *)
LEMMA ShutdownKeeps == ASSUME ImagesIInv, Shutdown PROVE ImagesIInv'
<1>. DEFINE reps == [r \in Rep |-> IF \E k \in Key : im.hash[k] = r
                                   THEN [im.reps[r] EXCEPT !.managed = FALSE, !.fragment = none]
                                   ELSE im.reps[r]]
            hash == [k \in Key |-> none]
<1>0. Typed(im) /\ Counted(im) /\ Found(im) /\ Kept(im) /\ RepsNamed(im) /\ im.held[Returned] = none
  BY DEF ImagesIInv, ImagesInv
<1>1. /\ im.held \in [Slot -> Rep \cup {none}] /\ im.reps \in [Rep -> ImageRep \cup {none}]
      /\ im = [alive |-> im.alive, reps |-> im.reps, hash |-> im.hash, loaded |-> im.loaded, held |-> im.held]
  BY <1>0 DEF Typed
<1>2. ASSUME NEW r \in Rep
      PROVE  /\ reps[r] \in ImageRep \cup {none}
             /\ reps[r] = none <=> im.reps[r] = none
             /\ im.reps[r] # none => reps[r].ref_count = im.reps[r].ref_count /\ ~reps[r].managed /\ reps[r].fragment = none
  <2>1. CASE \E k \in Key : im.hash[k] = r
    <3>1. im.reps[r] # none /\ im.reps[r] \in ImageRep
      <4>1. PICK k \in Key : im.hash[k] = r
        BY <2>1
      <4>2. im.hash[k] # none
        BY <4>1, ImagesAssumption
      <4>. QED
        BY <4>1, <4>2, <1>0, <1>1 DEF Found
    <3>. DEFINE gone == [im.reps[r] EXCEPT !.managed = FALSE, !.fragment = none]
    <3>2. reps[r] = gone
      BY <2>1
    <3>3. gone \in ImageRep /\ gone.ref_count = im.reps[r].ref_count /\ gone.managed = FALSE /\ gone.fragment = none
      BY <3>1, ZenonT(20) DEF ImageRep
    <3>. HIDE DEF gone, reps
    <3>4. gone # none
      BY <3>3, ImagesAssumption
    <3>. QED
      BY <3>1, <3>2, <3>3, <3>4
  <2>2. CASE ~\E k \in Key : im.hash[k] = r
    <3>1. reps[r] = im.reps[r]
      BY <2>2
    <3>. HIDE DEF reps
    <3>2. im.reps[r] # none => ~im.reps[r].managed
      <4>1. SUFFICES ASSUME im.reps[r] # none, im.reps[r].managed PROVE FALSE
        OBVIOUS
      <4>2. im.hash[im.reps[r].hash_key] = r /\ im.reps[r].hash_key \in Key
        BY <4>1, <1>0, <1>1 DEF Found, ImageRep
      <4>. QED
        BY <4>2, <2>2
    <3>. QED
      BY <3>1, <3>2, <1>0, <1>1 DEF Kept
  <2>. QED
    BY <2>1, <2>2
<1>3. im' = [im EXCEPT !.alive = FALSE, !.loaded = {}, !.hash = hash, !.reps = reps]
  BY DEF Shutdown
<1>4. reps \in [Rep -> ImageRep \cup {none}] /\ hash \in [Key -> Rep \cup {none}] /\ \A k \in Key : hash[k] = none
  BY <1>2, ZenonT(20)
<1>. HIDE DEF reps, hash
<1>5. im' = [alive |-> FALSE, reps |-> reps, hash |-> hash, loaded |-> {}, held |-> im.held]
  BY <1>1, <1>3, ZenonT(20)
<1>6. Typed(im')
  BY ONLY <1>1, <1>4, <1>5 DEF Typed
<1>7. im'.alive = FALSE /\ im'.reps = reps /\ im'.hash = hash /\ im'.loaded = {} /\ im'.held = im.held
  BY ONLY <1>5
<1>8. \A r : Holders(im', r) = Holders(im, r)
  BY ONLY <1>7 DEF Holders
<1>9. Counted(im')
  BY <1>0, <1>2, <1>7, <1>8 DEF Counted
<1>10. Found(im') /\ Kept(im') /\ RepsNamed(im')
  BY <1>2, <1>4, <1>7 DEF Found, Kept, RepsNamed
<1>. QED
  BY <1>0, <1>6, <1>7, <1>9, <1>10 DEF ImagesIInv, ImagesInv

(* Each operation keeps the invariant. *)
LEMMA StepKeeps == ASSUME ImagesIInv, [ImagesNext]_im PROVE ImagesIInv'
<1>0. ImagesInv(im) /\ im.held[Returned] = none /\ Returned \in Slot /\ Image \subseteq Slot /\ \A i \in Image : i # Returned
  BY ImagesAssumption DEF ImagesIInv, Slot
<1>a. \A s : ImagesInv(s) => s.held \in [Slot -> Rep \cup {none}]
  BY DEF ImagesInv, Typed
<1>1. CASE UNCHANGED im
  BY <1>1 DEF ImagesIInv
<1>2. ASSUME NEW i \in Image, NEW f \in Requested, NEW disk \in SUBSET File, NEW r \in Rep, SetImage(i, f, disk, r)
      PROVE  ImagesIInv'
  <2>. DEFINE got == GetImage(im, f, disk, r)
              set == set_image_rep(got, i, got.held[Returned])
  <2>1. ImagesInv(got)
    BY <1>0, <1>2, GetKeeps DEF SetImage
  <2>. HIDE DEF got
  <2>2. ImagesInv(set)
    BY <2>1, <1>0, SetKeeps, ZenonT(20)
  <2>. HIDE DEF set
  <2>3. ImagesInv(Drop(set, Returned)) /\ Drop(set, Returned).held = [set.held EXCEPT ![Returned] = none]
    BY <2>2, <1>0, DropKeeps
  <2>4. im' = Drop(set, Returned)
    BY <1>2 DEF SetImage, got, set
  <2>. QED
    BY <2>2, <2>3, <2>4, <1>0, <1>a DEF ImagesIInv
<1>3. ASSUME NEW i \in Image, NEW j \in Image, Assign(i, j) PROVE ImagesIInv'
  <2>1. ImagesInv(im') /\ im'.held = [im.held EXCEPT ![i] = im.held[j]]
    BY <1>0, <1>3, SetKeeps DEF Assign
  <2>. QED
    BY <2>1, <1>0, <1>a DEF ImagesIInv
<1>4. ASSUME NEW i \in Image, Reset(i) PROVE ImagesIInv'
  <2>1. ImagesInv(im') /\ im'.held = [im.held EXCEPT ![i] = none]
    BY <1>0, <1>4, DropKeeps, ZenonT(20) DEF Reset
  <2>. QED
    BY <2>1, <1>0, <1>a DEF ImagesIInv
<1>5. CASE Shutdown
  BY <1>5, ShutdownKeeps
<1>6. CASE Initialize
  <2>1. Typed(im)
    BY <1>0 DEF ImagesInv
  <2>2. im' = [alive |-> TRUE, reps |-> im.reps, hash |-> im.hash, loaded |-> im.loaded, held |-> im.held]
    BY <1>6, <2>1, ZenonT(20) DEF Initialize, Typed
  <2>3. Typed(im') /\ im'.alive /\ im'.reps = im.reps /\ im'.hash = im.hash /\ im'.loaded = im.loaded /\ im'.held = im.held
    BY <2>1, <2>2 DEF Typed
  <2>4. \A r : Holders(im', r) = Holders(im, r)
    BY ONLY <2>3 DEF Holders
  <2>5. Counted(im') /\ Found(im') /\ Kept(im') /\ RepsNamed(im')
    BY ONLY <1>0, <2>3, <2>4 DEF ImagesInv, Counted, Found, Kept, RepsNamed
  <2>. QED
    BY <2>3, <2>5, <1>0 DEF ImagesIInv, ImagesInv
<1>. QED
  BY <1>1, <1>2, <1>3, <1>4, <1>5, <1>6 DEF ImagesNext

(* The state of the images and of their manager stays consistent. *)
THEOREM ImagesInvariance == ImagesSpec => []ImagesIInv
BY Initially, StepKeeps, PTL DEF ImagesSpec

(* A rep counts the images that refer to it, is found as long as there are any, and keeps its bitmap
   until the last of them or the manager goes (ImageRep::DecRef, ImageManager::RemoveRep). *)
THEOREM ImagesSafe == ImagesSpec => []ImagesAgree
<1>1. ImagesIInv => ImagesAgree
  BY DEF ImagesIInv, ImagesInv, ImagesAgree
<1>. QED
  BY <1>1, ImagesInvariance, PTL
=============================================================================
