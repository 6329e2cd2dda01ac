--------------------------- MODULE BlobStoreProofs ---------------------------
(***************************************************************************)
(* Proofs about writers, version manager and metadata DHT together: the    *)
(* store is a version manager, its trees are right, and what readers find  *)
(* in them is a sequence of snapshots.                                     *)
(***************************************************************************)
EXTENDS BlobStore, VersionManagerProofs, FiniteSetTheorems, TLAPS

-----------------------------------------------------------------------------
(* Numbers. *)

\* A set of natural numbers that is not empty has a least element.
LEMMA LeastNumber ==
    ASSUME NEW S \in SUBSET Nat, S # {}
    PROVE  \E k \in S : \A j \in S : k <= j
<1>1. PICK n \in S : n \in Nat
  OBVIOUS
<1> DEFINE K == {k \in S : k <= n}
           M == {0..k : k \in K}
           R == StrictSubsetOrdering(0..n)
<1>2. K \subseteq Nat /\ n \in K /\ \A k \in K : k <= n
  <2>1. n <= n
    BY <1>1
  <2> QED BY <1>1, <2>1
<1>3. IsWellFoundedOn(R, FiniteSubsetsOf(0..n))
  BY <1>1, FS_Interval, FS_StrictSubsetOrderingWellFounded
<1>4. M \subseteq FiniteSubsetsOf(0..n) /\ M # {}
  <2>1. SUFFICES ASSUME NEW k \in K PROVE 0..k \in FiniteSubsetsOf(0..n)
    BY <1>2 DEF M
  <2>2. 0..k \in SUBSET (0..n)
    BY <1>1, <1>2
  <2>3. IsFiniteSet(0..k)
    BY <1>2, FS_Interval
  <2> QED BY <2>2, <2>3 DEF FiniteSubsetsOf
<1> HIDE DEF M, R
<1>5. PICK m \in M : \A y \in M : ~(<<y, m>> \in R)
  BY <1>3, <1>4, WFMin
<1>6. PICK k \in K : m = 0..k
  BY <1>5 DEF M
<1>7. ASSUME NEW j \in K, j < k PROVE FALSE
  <2>1. 0..j \in M
    BY <1>7 DEF M
  <2>2. 0..j \in SUBSET (0..n) /\ 0..k \in SUBSET (0..n) /\ 0..j \subseteq 0..k /\ 0..j # 0..k
    <3>1. k \in 0..k /\ k \notin 0..j
      BY <1>2, <1>7
    <3>2. 0..j \in SUBSET (0..n) /\ 0..k \in SUBSET (0..n) /\ 0..j \subseteq 0..k
      BY <1>1, <1>2, <1>7
    <3> QED BY <3>1, <3>2
  <2>3. <<0..j, 0..k>> \in R
    BY <2>2 DEF R, StrictSubsetOrdering
  <2> QED BY <1>5, <1>6, <2>1, <2>3
<1>8. ASSUME NEW j \in S PROVE k <= j
  BY <1>1, <1>2, <1>7
<1> QED BY <1>2, <1>8

\* Induction, for a property given as the set of numbers that have it.
LEMMA Induction ==
    ASSUME NEW n \in Nat, NEW S, 0 \in S, \A k \in 0..(n - 1) : k \in S => k + 1 \in S
    PROVE  0..n \subseteq S
<1> DEFINE C == {k \in 0..n : k \notin S}
<1>1. SUFFICES ASSUME C # {} PROVE FALSE
  OBVIOUS
<1>2. C \in SUBSET Nat
  OBVIOUS
<1>3. PICK k \in C : \A j \in C : k <= j
  BY <1>1, <1>2, LeastNumber
<1>4. k - 1 \in 0..(n - 1) /\ k - 1 \notin C /\ (k - 1) + 1 = k
  BY <1>3
<1>5. k - 1 \in S
  BY <1>4
<1> QED BY <1>3, <1>4, <1>5

\* The largest element of a set of numbers below a bound.
LEMMA MaxOf ==
    ASSUME NEW n \in Nat, NEW S \in SUBSET (0..n), S # {}
    PROVE  Max(S) \in S /\ \A x \in S : x <= Max(S)
<1> DEFINE T == {n - x : x \in S}
<1>1. T \in SUBSET Nat
  OBVIOUS
<1>2. T # {}
  <2>1. PICK x \in S : TRUE
    OBVIOUS
  <2>2. n - x \in T
    BY <2>1
  <2> QED BY <2>2
<1> HIDE DEF T
<1>3. PICK k \in T : \A j \in T : k <= j
  BY <1>1, <1>2, LeastNumber
<1>4. PICK m \in S : k = n - m
  BY <1>3 DEF T
<1>5. \A x \in S : n - x \in T
  BY DEF T
<1>6. \A x \in S : m >= x
  BY <1>3, <1>4, <1>5
<1>7. \E x \in S : \A y \in S : x >= y
  BY <1>6
<1>8. Max(S) \in S /\ \A y \in S : Max(S) >= y
  BY <1>7 DEF Max
<1> QED BY <1>8

\* What is shown of the largest number of a set is shown of Max.
LEMMA MaxIs ==
    ASSUME NEW n \in Nat, NEW S \in SUBSET (0..n), NEW m \in S, \A x \in S : x <= m
    PROVE  Max(S) = m
<1>1. Max(S) \in S /\ \A x \in S : x <= Max(S)
  BY MaxOf
<1> DEFINE k == Max(S)
<1>2. k \in S /\ k <= m /\ m <= k
  BY <1>1
<1> HIDE DEF k
<1>3. k \in 0..n /\ m \in 0..n
  BY <1>2
<1>4. k = m
  BY <1>2, <1>3
<1> QED BY <1>4 DEF k

-----------------------------------------------------------------------------
(* Powers of two, and the places of a tree. *)

\* The product of two powers.
LEMMA PowerSum ==
    ASSUME NEW i \in 0..Width, NEW k \in 0..(Width - i)
    PROVE  2^(i + k) = 2^i * 2^k
<1> DEFINE S == {m \in 0..(Width - i) : 2^(i + m) = 2^i * 2^m}
<1>1. Width \in Nat /\ Width - i \in Nat /\ i \in Nat
  BY WidthAssumption
<1>2. 0 \in S
  <2>1. 2^0 = 1 /\ i + 0 = i /\ 2^i \in Nat
    BY WidthAssumption
  <2> QED BY <1>1, <2>1
<1>3. ASSUME NEW m \in 0..((Width - i) - 1), m \in S PROVE m + 1 \in S
  <2>1. m \in 0..Width /\ i + m \in 0..Width /\ i + (m + 1) = (i + m) + 1
    BY <1>1
  <2>2. 2^((i + m) + 1) = 2 * 2^(i + m) /\ 2^(m + 1) = 2 * 2^m /\ 2^i \in Nat /\ 2^m \in Nat
    BY <2>1, WidthAssumption
  <2>3. 2 * (2^i * 2^m) = 2^i * (2 * 2^m)
    BY <2>2
  <2>4. 2^(i + (m + 1)) = 2^i * 2^(m + 1)
    BY <1>3, <2>1, <2>2, <2>3
  <2> QED BY <1>1, <2>4
<1> HIDE DEF S
<1>4. 0..(Width - i) \subseteq S
  BY <1>1, <1>2, <1>3, Induction
<1> QED BY <1>4 DEF S

\* Powers are words, and their halves and doubles are powers.
LEMMA PowerFacts ==
    ASSUME NEW s \in Powers
    PROVE  /\ s \in Nat \ {0} /\ 1 \in Powers
           /\ s = 1 \/ \E r \in Powers : s = 2 * r
           /\ 2 * s \in Powers \/ 2 * s = Word
<1>1. PICK k \in 0..(Width - 1) : s = 2^k
  BY DEF Powers
<1>2. Width \in Nat /\ k \in 0..Width /\ s \in Nat \ {0} /\ 2 * s = 2^(k + 1)
  BY <1>1, WidthAssumption
<1>3. 1 \in Powers
  <2>1. 0 \in 0..(Width - 1) /\ 2^0 = 1
    BY <1>1, <1>2
  <2> QED BY <2>1 DEF Powers
<1>4. s = 1 \/ \E r \in Powers : s = 2 * r
  <2>1. CASE k = 0
    BY <1>1, <2>1
  <2>2. CASE k # 0
    <3>1. k - 1 \in 0..(Width - 1) /\ k - 1 \in 0..Width /\ (k - 1) + 1 = k
      BY <1>2, <2>2
    <3>2. 2^(k - 1) \in Powers /\ 2^((k - 1) + 1) = 2 * 2^(k - 1)
      BY <3>1, WidthAssumption DEF Powers
    <3> QED BY <1>1, <3>1, <3>2
  <2> QED BY <2>1, <2>2
<1>5. 2 * s \in Powers \/ 2 * s = Word
  <2>1. k + 1 \in 0..(Width - 1) \/ k + 1 = Width
    BY <1>1, <1>2
  <2> QED BY <1>2, <2>1 DEF Powers, Word
<1> QED BY <1>2, <1>3, <1>4, <1>5

\* A larger power is a multiple of twice the smaller.
LEMMA PowersApart ==
    ASSUME NEW s \in Powers, NEW t \in Powers, s < t
    PROVE  2 * s \in Powers /\ 2 * s <= t /\ \E c \in Nat \ {0} : t = c * (2 * s)
<1>1. PICK i \in 0..(Width - 1) : s = 2^i
  BY DEF Powers
<1>2. PICK j \in 0..(Width - 1) : t = 2^j
  BY DEF Powers
<1>3. Width \in Nat /\ s \in Nat \ {0} /\ t \in Nat \ {0} /\ 2 * s = 2^(i + 1)
  BY <1>1, <1>2, WidthAssumption
<1>4. i < j
  <2>1. SUFFICES ASSUME j <= i PROVE FALSE
    BY <1>1, <1>2
  <2>2. i - j \in 0..(Width - j) /\ j \in 0..Width /\ j + (i - j) = i /\ i - j \in 0..Width
    BY <1>1, <1>2, <1>3, <2>1
  <2>3. 2^(j + (i - j)) = 2^j * 2^(i - j) /\ 2^(i - j) \in Nat \ {0}
    BY <2>2, PowerSum, WidthAssumption
  <2>4. \A c \in Nat \ {0} : t <= t * c
    BY <1>3
  <2> QED BY <1>1, <1>2, <1>3, <2>2, <2>3, <2>4
<1>5. j - (i + 1) \in 0..(Width - (i + 1)) /\ i + 1 \in 0..Width /\ (i + 1) + (j - (i + 1)) = j
      /\ j - (i + 1) \in 0..Width /\ i + 1 \in 0..(Width - 1)
  BY <1>1, <1>2, <1>3, <1>4
<1> DEFINE c == 2^(j - (i + 1))
<1>6. 2^((i + 1) + (j - (i + 1))) = 2^(i + 1) * c /\ c \in Nat \ {0}
  BY <1>5, PowerSum, WidthAssumption
<1>7. t = (2 * s) * c /\ 2 * s \in Nat
  BY <1>2, <1>3, <1>5, <1>6
<1> HIDE DEF c
<1>8. t = c * (2 * s) /\ 2 * s <= t
  BY <1>3, <1>6, <1>7
<1> QED BY <1>3, <1>5, <1>6, <1>8 DEF Powers

\* The multiples of a number.
LEMMA Multiple ==
    ASSUME NEW o \in Nat, NEW s \in Nat \ {0}, o % s = 0
    PROVE  \E k \in Nat : o = k * s
<1>1. o \div s \in Nat /\ o = (o \div s) * s + (o % s) /\ (o \div s) * s \in Nat
  BY DivMod
<1> QED BY <1>1

\* A multiple leaves no remainder.
LEMMA IsMultiple ==
    ASSUME NEW k \in Nat, NEW s \in Nat \ {0}
    PROVE  k * s \in Nat /\ (k * s) % s = 0
<1>1. k * s \in Nat /\ k * s = k * s + 0 /\ 0 \in 0..(s - 1)
  OBVIOUS
<1> DEFINE x == k * s
<1>2. x \in Nat /\ x = k * s + 0
  BY <1>1
<1> HIDE DEF x
<1>3. x % s = 0
  BY <1>1, <1>2, DivModUnique
<1> QED BY <1>1, <1>3 DEF x

\* The place of a page is the one it is in.
LEMMA AlignedPlace ==
    ASSUME NEW p \in Nat, NEW s \in Nat \ {0}
    PROVE  /\ Aligned(p, s) \in Nat /\ Aligned(p, s) % s = 0
           /\ Aligned(p, s) <= p /\ p < Aligned(p, s) + s
<1> DEFINE k == p \div s
           r == p % s
<1>1. k \in Nat /\ r \in 0..(s - 1) /\ p = k * s + r
  BY DivMod
<1> HIDE DEF k, r
<1>2. k * s \in Nat /\ (k * s) % s = 0
  BY <1>1, IsMultiple
<1>3. p - r = k * s /\ k * s <= p /\ p < k * s + s
  BY <1>1, <1>2
<1> HIDE DEF k
<1>4. Aligned(p, s) = k * s
  BY ONLY <1>3 DEF Aligned, r
<1> QED BY <1>2, <1>3, <1>4

\* A page lies in one aligned block of each size.
LEMMA AlignedIs ==
    ASSUME NEW p \in Nat, NEW s \in Nat \ {0}, NEW o \in Nat, o % s = 0, o <= p, p < o + s
    PROVE  Aligned(p, s) = o
<1>1. PICK k \in Nat : o = k * s
  BY Multiple
<1> DEFINE r == p - o
<1>2. r \in 0..(s - 1) /\ p = k * s + r /\ k \in Int /\ p - r = o
  BY <1>1
<1> HIDE DEF r
<1>3. p % s = r
  BY <1>2, DivModUnique
<1> QED BY <1>2, <1>3 DEF Aligned

\* A place has two halves, which are brothers.
LEMMA Halves ==
    ASSUME NEW o \in Nat, NEW s \in Nat \ {0}, o % (2 * s) = 0
    PROVE  /\ o % s = 0 /\ (o + s) % s = 0
           /\ Brother(o, s) = o + s /\ Brother(o + s, s) = o
<1>1. PICK k \in Nat : o = k * (2 * s)
  BY Multiple
<1>2. o = (2 * k) * s /\ o + s = (2 * k + 1) * s /\ 2 * k \in Nat /\ 2 * k + 1 \in Nat
  BY <1>1
<1>3. o % s = 0 /\ (o + s) % s = 0
  BY <1>2, IsMultiple
<1>4. (o + s) % (2 * s) = s
  BY <1>1, DivModUnique
<1> QED BY <1>3, <1>4 DEF Brother

\* The place of a page on the next level is a half of its place on this one.
LEMMA HalfOf ==
    ASSUME NEW p \in Nat, NEW s \in Nat \ {0}
    PROVE  Aligned(p, s) = IF p < Aligned(p, 2 * s) + s THEN Aligned(p, 2 * s) ELSE Aligned(p, 2 * s) + s
<1> DEFINE o == Aligned(p, 2 * s)
<1>1. o \in Nat /\ o % (2 * s) = 0 /\ o <= p /\ p < o + 2 * s
  BY AlignedPlace
<1> HIDE DEF o
<1>2. o % s = 0 /\ (o + s) % s = 0
  BY <1>1, Halves
<1>3. Aligned(p, s) = IF p < o + s THEN o ELSE o + s
  BY <1>1, <1>2, AlignedIs
<1> QED BY <1>3 DEF o

\* A place that starts inside a tree that is not smaller ends inside it.
LEMMA PlaceInside ==
    ASSUME NEW s \in Powers, NEW t \in Powers, s <= t, NEW o \in Nat, o % s = 0, o < t
    PROVE  o + s <= t
<1>1. s \in Nat \ {0} /\ t \in Nat \ {0}
  BY PowerFacts
<1>2. PICK m \in Nat : t = m * s
  <2>1. CASE s = t
    BY <1>1, <2>1
  <2>2. CASE s < t
    <3>1. PICK c \in Nat \ {0} : t = c * (2 * s)
      BY <2>2, PowersApart
    <3>2. t = (2 * c) * s /\ 2 * c \in Nat
      BY <1>1, <3>1
    <3> QED BY <3>2
  <2> QED BY <1>1, <2>1, <2>2
<1>3. PICK k \in Nat : o = k * s
  BY <1>1, Multiple
<1>4. k < m
  <2>1. SUFFICES ASSUME m <= k PROVE FALSE
    OBVIOUS
  <2>2. m = k \/ m < k
    BY <2>1
  <2> QED BY <1>1, <1>2, <1>3, <2>2, Below
<1> QED BY <1>1, <1>2, <1>3, <1>4, Below

\* A place that starts before its size is the first one.
LEMMA FirstPlace ==
    ASSUME NEW s \in Nat \ {0}, NEW o \in Nat, o % s = 0, o < s
    PROVE  o = 0
<1>1. o = 0 * s + o /\ o \in 0..(s - 1)
  OBVIOUS
<1> QED BY <1>1, DivModUnique

\* Induction from the root to the leaves.
LEMMA FromTheRoot ==
    ASSUME NEW t \in Powers, NEW S, t \in S, \A s \in Levels(t) : 2 * s \in S => s \in S
    PROVE  Levels(t) \cup {t} \subseteq S
<1> DEFINE C == {s \in Levels(t) : s \notin S}
<1>1. SUFFICES ASSUME C # {} PROVE FALSE
  OBVIOUS
<1>2. t \in Nat /\ \A s \in Powers : s \in Nat
  BY PowerFacts
<1>3. C \in SUBSET (0..t)
  <2>1. SUFFICES ASSUME NEW s \in C PROVE s \in 0..t
    OBVIOUS
  <2>2. s \in Nat /\ s < t
    BY <1>2 DEF Levels
  <2> QED BY <1>2, <2>2
<1>4. Max(C) \in C /\ \A s \in C : s <= Max(C)
  BY <1>1, <1>2, <1>3, MaxOf
<1> DEFINE m == Max(C)
<1>5. m \in Levels(t) /\ m \notin S /\ m \in Powers /\ m < t /\ m \in Nat \ {0}
  BY <1>4, PowerFacts DEF Levels
<1>6. 2 * m \in Powers /\ 2 * m <= t
  BY <1>5, PowersApart
<1>7. 2 * m \notin C
  <2>1. ~(2 * m <= m)
    BY <1>5
  <2> QED BY <1>4, <2>1
<1> HIDE DEF m
<1>8. 2 * m \in S
  <2>1. 2 * m = t \/ 2 * m < t
    <3>1. m \in Nat /\ 2 * m <= t
      BY <1>5, <1>6 DEF m
    <3> QED BY <1>2, <3>1
  <2> QED BY <1>6, <1>7, <2>1 DEF Levels
<1> QED BY <1>5, <1>8

\* Where a walk goes from a node.
StepDown(d, parent, page, s) ==
    IF parent \notin DOMAIN d THEN Empty
    ELSE IF page < parent.offset + s THEN d[parent].left ELSE d[parent].right

\* The definition of Path is one: there is a path, and it takes these steps.
LEMMA PathSteps ==
    ASSUME NEW d, NEW root, root.size \in Powers, NEW page
    PROVE  /\ Path(d, root, page)[root.size] = RootNode(root)
           /\ \A s \in Levels(root.size) :
                 Path(d, root, page)[s] = StepDown(d, Path(d, root, page)[2 * s], page, s)
<1> DEFINE t == root.size
           D == Levels(t) \cup {t}
           E(f, s) == IF s = t THEN RootNode(root) ELSE StepDown(d, f[2 * s], page, s)
           Good(f, s) == f = [r \in D |-> f[r]] /\ \A r \in D : r >= s => f[r] = E(f, r)
           S == {s \in D : \E f : Good(f, s)}
<1>0. t \in Nat \ {0} /\ t \in D
  BY PowerFacts
<1>1. \A s \in D : s \in Nat \ {0} /\ s <= t /\ (s # t => s < t /\ 2 * s \in D /\ 2 * s # s)
  <2> SUFFICES ASSUME NEW s \in D
               PROVE  s \in Nat \ {0} /\ s <= t /\ (s # t => s < t /\ 2 * s \in D /\ 2 * s # s)
    OBVIOUS
  <2>1. s \in Powers /\ s \in Nat \ {0} /\ t \in Nat \ {0} /\ (s # t => s < t)
    BY PowerFacts DEF Levels
  <2>2. ASSUME s # t PROVE 2 * s \in D
    <3>1. 2 * s \in Powers /\ 2 * s <= t /\ 2 * s \in Nat
      BY <2>1, <2>2, PowersApart
    <3> QED BY <2>1, <3>1 DEF Levels
  <2> QED BY <2>1, <2>2
<1>2. t \in S
  <2> DEFINE f == [r \in D |-> RootNode(root)]
  <2>1. Good(f, t)
    <3>1. ASSUME NEW r \in D, r >= t PROVE r = t
      <4> HIDE DEF t, D
      <4>1. r \in Nat /\ t \in Nat /\ r <= t
        BY <1>1, <1>0
      <4> QED BY <3>1, <4>1
    <3> QED BY <3>1
  <2> QED BY <2>1
<1>3. ASSUME NEW s \in Levels(t), 2 * s \in S PROVE s \in S
  <2>1. PICK f : Good(f, 2 * s)
    BY <1>3
  <2> DEFINE g == [r \in D |-> IF r = s THEN E(f, s) ELSE f[r]]
  <2>2. s \in D /\ s # t /\ s \in Nat \ {0} /\ 2 * s \in D /\ 2 * s # s /\ s \in Powers
    BY <1>1, PowerFacts DEF Levels
  <2>3. ASSUME NEW r \in D, r >= s PROVE g[r] = E(g, r)
    <3>1. CASE r = s
      BY <2>2, <3>1
    <3>2. CASE r # s
      <4>1. r \in Powers /\ s < r /\ r \in Nat
        BY <1>1, <2>2, <2>3, <3>2 DEF Levels
      <4>2. r >= 2 * s
        BY <2>2, <4>1, PowersApart
      <4>3. g[r] = E(f, r)
        BY <2>1, <3>2, <4>2
      <4>4. r # t => 2 * r \in D /\ 2 * r # s
        BY <1>1, <2>2, <4>1
      <4>5. E(f, r) = E(g, r)
        BY <4>4
      <4> QED BY <4>3, <4>5
    <3> QED BY <3>1, <3>2
  <2>4. g = [r \in D |-> g[r]]
    OBVIOUS
  <2> HIDE DEF g
  <2>5. Good(g, s)
    BY <2>3, <2>4
  <2> QED BY <2>2, <2>5
<1> HIDE DEF S
<1>4. D \subseteq S
  BY <1>2, <1>3, FromTheRoot
<1>5. 1 \in D
  <2>1. 1 \in Powers /\ (1 < t \/ 1 = t)
    BY PowerFacts
  <2> QED BY <2>1 DEF Levels
<1>6. PICK f : Good(f, 1)
  BY <1>4, <1>5 DEF S
<1>7. f = [s \in D |-> E(f, s)]
  <2>1. ASSUME NEW r \in D PROVE r >= 1
    <3> HIDE DEF D
    <3>1. r \in Nat \ {0}
      BY <1>1
    <3> QED BY <3>1
  <2> QED BY <1>6, <2>1
<1> DEFINE P == CHOOSE f_1 : f_1 = [s \in D |-> E(f_1, s)]
<1>8. P = [s \in D |-> E(P, s)]
  BY <1>7
<1>9. Path(d, root, page) = P
  BY DEF Path, StepDown
<1> HIDE DEF P
<1>10. t \in D /\ \A s \in Levels(t) : s \in D /\ s # t
  BY <1>1, PowerFacts DEF Levels
<1> QED BY <1>8, <1>9, <1>10

-----------------------------------------------------------------------------
(* The tree a version should have.  A history h is what has been written to *)
(* a blob: its id, the root it started from (base), the last ticket (last)  *)
(* and what each writer knows (ws).                                         *)

KeyAt(id, v, o, s) == [id |-> id, version |-> v, offset |-> o, size |-> s]

IsNode(q) == q = KeyAt(q.id, q.version, q.offset, q.size)

\* A node of id 0 is no node, whatever its other fields say.
Norm(q) == IF q.id = 0 THEN Empty ELSE q

Like(q, n) == IsNode(q) /\ Norm(q) = n

\* The range of w has pages in the place of size s at o.
Touches(o, s, w) == o < w.offset + w.size /\ w.offset < o + s

\* The size of the tree of version x.
SizeAt(h, x) == IF x = 0 THEN h.base.size ELSE h.ws[x].root_size

IsRoot(h, x, root) ==
    IF x = 0 THEN root = h.base
    ELSE root.id = h.id /\ root.version = x /\ root.size = h.ws[x].root_size

\* A range starts in the tree before it and ends in its own.
RangeOK(h, x) ==
    LET w == h.ws[x]
    IN  /\ w.id = h.id /\ w.version = x
        /\ w.offset \in Nat /\ w.size \in Nat \ {0} /\ w.root_size \in Powers
        /\ w.offset <= SizeAt(h, x - 1)
        /\ w.offset + w.size <= w.root_size

\* Trees grow, and only by writing the first page behind the smaller one.
Grown(h, x, y) ==
    /\ SizeAt(h, x) <= SizeAt(h, y)
    /\ SizeAt(h, x) < SizeAt(h, y) => \E z \in (x + 1)..y : Touches(SizeAt(h, x), 1, h.ws[z])

HistoryOK(h) ==
    /\ h.id \in Nat \ {0} /\ h.last \in Nat
    /\ h.base.size = 0 \/ h.base.size \in Powers
    /\ \A x \in 1..h.last : RangeOK(h, x)
    /\ \A y \in 1..h.last : \A x \in 0..(y - 1) : Grown(h, x, y)

\* The versions up to v that have a node in a place, and the node version v
\* has there: that of the last of them, or else that of the base.
Touchers(h, v, o, s) == {x \in 1..v : Touches(o, s, h.ws[x])}

BaseNode(d, h, o, s) ==
    IF o < h.base.size /\ s <= h.base.size THEN Norm(Path(d, h.base, o)[s]) ELSE Empty

NodeAt(d, h, v, o, s) ==
    IF Touchers(h, v, o, s) = {} THEN BaseNode(d, h, o, s)
    ELSE KeyAt(h.id, Max(Touchers(h, v, o, s)), o, s)

\* The keys in the DHT are those of nodes.
KeysOK(d) == \A q \in DOMAIN d : q.id # 0

\* What can be reached from a root is stored, and in its place.
ClosedAt(d, q, o, s) == IsNode(q) /\ (q.id = 0 \/ (q \in DOMAIN d /\ q.offset = o /\ q.size = s))

Closed(d, root) ==
    \A p \in 0..(root.size - 1) : \A s \in Levels(root.size) \cup {root.size} :
        ClosedAt(d, Path(d, root, p)[s], Aligned(p, s), s)

\* Types.
LEMMA HistoryFacts ==
    ASSUME NEW h, HistoryOK(h)
    PROVE  /\ \A x \in 0..h.last : SizeAt(h, x) \in Nat /\ (SizeAt(h, x) \in Powers \/ (x = 0 /\ SizeAt(h, x) = 0))
           /\ \A x \in 1..h.last :
                 LET w == h.ws[x]
                 IN  /\ w.offset \in Nat /\ w.size \in Nat \ {0} /\ w.root_size = SizeAt(h, x)
                     /\ w.offset + w.size <= SizeAt(h, x)
<1>1. \A s \in Powers : s \in Nat
  BY PowerFacts
<1> QED BY <1>1 DEF HistoryOK, RangeOK, SizeAt

\* The last version with a node in a place.
LEMMA LastToucher ==
    ASSUME NEW h, NEW v \in Nat, NEW o, NEW s, Touchers(h, v, o, s) # {}
    PROVE  LET x == Max(Touchers(h, v, o, s))
           IN  /\ x \in 1..v /\ Touches(o, s, h.ws[x])
               /\ \A z \in 1..v : Touches(o, s, h.ws[z]) => z <= x
<1> DEFINE T == Touchers(h, v, o, s)
<1>1. T \in SUBSET (0..v)
  BY DEF Touchers
<1>2. Max(T) \in T /\ \A z \in T : z <= Max(T)
  BY <1>1, MaxOf
<1> HIDE DEF T
<1>3. T = Touchers(h, v, o, s)
  BY DEF T
<1> QED BY <1>2, <1>3 DEF Touchers

\* The same versions have a node in a place up to x and up to v, if all of
\* them are up to x.
LEMMA SameNode ==
    ASSUME NEW d, NEW h, NEW v \in Nat, NEW x \in 0..v, NEW o, NEW s,
           \A z \in 1..v : Touches(o, s, h.ws[z]) => z <= x
    PROVE  NodeAt(d, h, x, o, s) = NodeAt(d, h, v, o, s)
<1>1. Touchers(h, x, o, s) = Touchers(h, v, o, s)
  BY DEF Touchers
<1> QED BY <1>1 DEF NodeAt

\* A version that writes in a place has a node of its own there.
LEMMA OwnNodeAt ==
    ASSUME NEW d, NEW h, NEW v \in Nat \ {0}, NEW o, NEW s, Touches(o, s, h.ws[v])
    PROVE  NodeAt(d, h, v, o, s) = KeyAt(h.id, v, o, s)
<1>1. v \in Touchers(h, v, o, s) /\ Touchers(h, v, o, s) \in SUBSET (0..v)
      /\ \A x \in Touchers(h, v, o, s) : x <= v
  BY DEF Touchers
<1>2. Max(Touchers(h, v, o, s)) = v
  BY <1>1, MaxIs
<1> QED BY <1>1, <1>2 DEF NodeAt

\* Where the tree of x is smaller than a place of the tree of v, either the
\* place is not x's or a version after x writes there.
LEMMA LaterWriter ==
    ASSUME NEW h, HistoryOK(h), NEW v \in 0..h.last, NEW x \in 0..v, NEW t \in Powers,
           SizeAt(h, x) < t, t <= SizeAt(h, v)
    PROVE  \E z \in (x + 1)..v : Touches(0, t, h.ws[z])
<1>1. t \in Nat \ {0} /\ SizeAt(h, x) \in Nat /\ SizeAt(h, v) \in Nat /\ h.last \in Nat
  BY PowerFacts, HistoryFacts DEF HistoryOK
<1>2. v \in 1..h.last /\ x \in 0..(v - 1)
  BY <1>1
<1>3. PICK z \in (x + 1)..v : Touches(SizeAt(h, x), 1, h.ws[z])
  BY <1>1, <1>2 DEF HistoryOK, Grown
<1>4. z \in 1..h.last /\ h.ws[z].offset \in Nat /\ h.ws[z].size \in Nat \ {0}
  BY <1>1, <1>2, HistoryFacts
<1>5. Touches(0, t, h.ws[z])
  BY <1>1, <1>3, <1>4 DEF Touches
<1> QED BY <1>5

\* The tree of the last version with a node in a place has that place.
LEMMA LastHasPlace ==
    ASSUME NEW h, HistoryOK(h), NEW v \in 0..h.last, NEW t \in Powers, t <= SizeAt(h, v),
           NEW o \in Nat, o % t = 0, Touchers(h, v, o, t) # {}
    PROVE  t <= SizeAt(h, Max(Touchers(h, v, o, t)))
<1> DEFINE x == Max(Touchers(h, v, o, t))
<1>1. v \in Nat /\ h.last \in Nat
  BY DEF HistoryOK
<1>2. x \in 1..v /\ Touches(o, t, h.ws[x]) /\ \A z \in 1..v : Touches(o, t, h.ws[z]) => z <= x
  BY <1>1, LastToucher
<1> HIDE DEF x
<1>3. x \in 1..h.last /\ h.ws[x].offset + h.ws[x].size <= SizeAt(h, x) /\ SizeAt(h, x) \in Nat
      /\ h.ws[x].offset \in Nat /\ h.ws[x].size \in Nat
  BY <1>1, <1>2, HistoryFacts
<1>0. t \in Nat \ {0}
  BY PowerFacts
<1> SUFFICES ASSUME SizeAt(h, x) < t PROVE FALSE
  BY <1>0, <1>3 DEF x
<1>4. o < t /\ t \in Nat \ {0}
  <2>1. o < h.ws[x].offset + h.ws[x].size
    BY <1>2 DEF Touches
  <2> QED BY <1>0, <1>3, <2>1
<1>5. o = 0
  BY <1>4, FirstPlace
<1>6. PICK z \in (x + 1)..v : Touches(0, t, h.ws[z])
  BY <1>2, LaterWriter
<1>7. z \in 1..v /\ ~(z <= x)
  BY <1>1, <1>2
<1> QED BY <1>2, <1>5, <1>6, <1>7

-----------------------------------------------------------------------------
(* The tree a version has. *)

\* The leaves version x has stored, and its inner nodes, are right: the
\* children of an inner node are the nodes x should have there.
LeavesOK(d, h, x) ==
    \A p \in Written(h.ws[x]) :
        KeyAt(h.id, x, p, 1) \in DOMAIN d =>
            d[KeyAt(h.id, x, p, 1)].left = PageKey(h.id, x, p - h.ws[x].offset)

\* The places of size 2 * s where x has a node.
ParentPlaces(h, x, s) == {o \in Nat : o % (2 * s) = 0 /\ Touches(o, 2 * s, h.ws[x])}

ChildrenOK(d, h, x, o, s, node) ==
    Like(node.left, NodeAt(d, h, x, o, s)) /\ Like(node.right, NodeAt(d, h, x, o + s, s))

InnerOK(d, h, x) ==
    \A s \in Levels(SizeAt(h, x)) : \A o \in ParentPlaces(h, x, s) :
        KeyAt(h.id, x, o, 2 * s) \in DOMAIN d => ChildrenOK(d, h, x, o, s, d[KeyAt(h.id, x, o, 2 * s)])

\* All of them are stored.
LeavesIn(d, h, x) == \A p \in Written(h.ws[x]) : KeyAt(h.id, x, p, 1) \in DOMAIN d

InnerIn(d, h, x) ==
    \A s \in Levels(SizeAt(h, x)) : \A o \in ParentPlaces(h, x, s) : KeyAt(h.id, x, o, 2 * s) \in DOMAIN d

\* Version x and those before it are complete.
CompleteTo(d, h, v) ==
    \A x \in 1..v : LeavesOK(d, h, x) /\ InnerOK(d, h, x) /\ LeavesIn(d, h, x) /\ InnerIn(d, h, x)

\* The node sizes of a tree.
LEMMA LevelFacts ==
    ASSUME NEW t \in Powers
    PROVE  /\ t \in Nat \ {0}
           /\ 1 \in Levels(t) \cup {t}
           /\ \A s \in Levels(t) \cup {t} : s \in Powers /\ s \in Nat \ {0} /\ s <= t
           /\ \A s \in Levels(t) : s < t /\ 2 * s \in Levels(t) \cup {t} /\ 2 * s \in Powers
<1>1. t \in Nat \ {0} /\ 1 \in Powers
  BY PowerFacts
<1>2. 1 \in Levels(t) \cup {t}
  BY <1>1 DEF Levels
<1>3. \A s \in Levels(t) \cup {t} : s \in Powers /\ s \in Nat \ {0} /\ s <= t
  BY <1>1, PowerFacts DEF Levels
<1>4. ASSUME NEW s \in Levels(t) PROVE s < t /\ 2 * s \in Levels(t) \cup {t} /\ 2 * s \in Powers
  <2>1. s < t /\ s \in Powers /\ s \in Nat
    BY <1>3 DEF Levels
  <2>2. 2 * s \in Powers /\ 2 * s <= t /\ 2 * s \in Nat
    BY <2>1, PowersApart
  <2> QED BY <1>1, <2>1, <2>2 DEF Levels
<1> QED BY <1>1, <1>2, <1>3, <1>4

\* Two pages in one place are reached through the same node.
LEMMA PathShared ==
    ASSUME NEW d, NEW root, root.size \in Powers, Closed(d, root), KeysOK(d),
           NEW p \in 0..(root.size - 1), NEW q \in 0..(root.size - 1),
           NEW t \in Levels(root.size) \cup {root.size}, Aligned(p, t) = Aligned(q, t)
    PROVE  Path(d, root, p)[t] = Path(d, root, q)[t]
<1> DEFINE S == {s \in Levels(root.size) \cup {root.size} :
                    Aligned(p, s) = Aligned(q, s) => Path(d, root, p)[s] = Path(d, root, q)[s]}
<1>1. p \in Nat /\ q \in Nat
  BY LevelFacts
<1>2. root.size \in S
  <2>1. Path(d, root, p)[root.size] = Path(d, root, q)[root.size]
    BY PathSteps
  <2> QED BY <2>1
<1>3. ASSUME NEW s \in Levels(root.size), 2 * s \in S PROVE s \in S
  <2> SUFFICES ASSUME Aligned(p, s) = Aligned(q, s) PROVE Path(d, root, p)[s] = Path(d, root, q)[s]
    OBVIOUS
  <2>1. s \in Nat \ {0} /\ 2 * s \in Nat \ {0} /\ 2 * s \in Levels(root.size) \cup {root.size}
    BY LevelFacts
  <2> DEFINE o == Aligned(p, 2 * s)
             n == Path(d, root, p)[2 * s]
  <2>2. o \in Nat /\ o % (2 * s) = 0
    BY <1>1, <2>1, AlignedPlace
  <2>3. /\ Aligned(p, s) \in Nat /\ Aligned(p, s) <= q /\ q < Aligned(p, s) + s
        /\ Aligned(p, s) = IF p < o + s THEN o ELSE o + s
        /\ Aligned(p, s) <= p /\ p < Aligned(p, s) + s
    BY <1>1, <2>1, AlignedPlace, HalfOf
  <2> HIDE DEF o
  <2>4. o <= q /\ q < o + 2 * s /\ (p < o + s <=> q < o + s)
    BY <1>1, <2>1, <2>2, <2>3
  <2>5. Aligned(q, 2 * s) = o
    BY <1>1, <2>1, <2>2, <2>4, AlignedIs
  <2>6. Path(d, root, q)[2 * s] = n
    BY <1>3, <2>5 DEF o
  <2>7. n \in DOMAIN d => n.offset = o
    BY <2>1 DEF Closed, ClosedAt, KeysOK, o
  <2> HIDE DEF n
  <2>8. StepDown(d, n, p, s) = StepDown(d, n, q, s)
    BY <2>4, <2>7 DEF StepDown
  <2> QED BY <2>6, <2>8, PathSteps DEF n
<1> HIDE DEF S
<1>4. t \in S
  BY <1>2, <1>3, FromTheRoot
<1> QED BY <1>4 DEF S

\* From a node of the base that no version has replaced, the walk goes on in
\* the base.
LEMMA BaseStep ==
    ASSUME NEW d, NEW h, KeysOK(d), h.base.size \in Powers, Closed(d, h.base),
           NEW s \in Levels(h.base.size), NEW p \in 0..(h.base.size - 1),
           NEW n, Like(n, BaseNode(d, h, Aligned(p, 2 * s), 2 * s))
    PROVE  Like(StepDown(d, n, p, s), BaseNode(d, h, Aligned(p, s), s))
<1> DEFINE o == Aligned(p, 2 * s)
           c == Aligned(p, s)
           b == h.base
           m == Path(d, b, p)[2 * s]
           D == Levels(b.size) \cup {b.size}
<1>1. b.size \in Nat \ {0} /\ p \in Nat /\ s \in Nat \ {0} /\ s < b.size /\ s \in D /\ 2 * s \in D /\ 2 * s <= b.size
  BY LevelFacts
<1>2. o \in Nat /\ o <= p /\ o % (2 * s) = 0 /\ c \in Nat /\ c <= p /\ c % s = 0
  BY <1>1, AlignedPlace
<1>3. o \in 0..(b.size - 1) /\ c \in 0..(b.size - 1)
  BY <1>1, <1>2
<1>4. Aligned(o, 2 * s) = o /\ Aligned(c, s) = c
  BY <1>1, <1>2, AlignedIs
<1>5. Path(d, b, o)[2 * s] = m /\ Path(d, b, c)[s] = Path(d, b, p)[s]
  BY <1>1, <1>3, <1>4, PathShared
<1>6. BaseNode(d, h, o, 2 * s) = Norm(m) /\ BaseNode(d, h, c, s) = Norm(Path(d, b, p)[s])
  BY <1>1, <1>3, <1>5 DEF BaseNode
<1>7. Path(d, b, p)[s] = StepDown(d, m, p, s)
  BY PathSteps
<1>8. ClosedAt(d, m, o, 2 * s) /\ ClosedAt(d, Path(d, b, p)[s], c, s)
  BY <1>1 DEF Closed
<1> HIDE DEF m, o, c, D
<1>9. StepDown(d, n, p, s) = StepDown(d, m, p, s)
  <2>1. CASE m.id = 0
    <3>1. n.id = 0
      BY <1>6, <2>1 DEF Like, Norm, Empty, o
    <3>2. n \notin DOMAIN d /\ m \notin DOMAIN d
      BY <2>1, <3>1 DEF KeysOK
    <3> QED BY <3>2 DEF StepDown
  <2>2. CASE m.id # 0
    <3>1. n = m
      BY <1>6, <2>2 DEF Like, Norm, Empty, o
    <3> QED BY <3>1
  <2> QED BY <2>1, <2>2
<1>10. Like(Path(d, b, p)[s], BaseNode(d, h, c, s))
  BY <1>6, <1>8 DEF Like, ClosedAt
<1> QED BY <1>7, <1>9, <1>10 DEF c

\* No version up to v has a node in the upper place: the lower one is the
\* base's, if it has one.
LEMMA UntouchedStep ==
    ASSUME NEW d, NEW h, HistoryOK(h), KeysOK(d), Closed(d, h.base), NEW v \in 1..h.last,
           NEW s \in Levels(SizeAt(h, v)), NEW p \in Nat,
           Touchers(h, v, Aligned(p, 2 * s), 2 * s) = {},
           NEW n, Like(n, BaseNode(d, h, Aligned(p, 2 * s), 2 * s))
    PROVE  Like(StepDown(d, n, p, s), BaseNode(d, h, Aligned(p, s), s))
<1> DEFINE o == Aligned(p, 2 * s)
           c == Aligned(p, s)
           b == h.base
<1>1. /\ SizeAt(h, v) \in Powers /\ s \in Powers /\ s \in Nat \ {0} /\ 2 * s \in Powers
      /\ 2 * s <= SizeAt(h, v) /\ h.last \in Nat
  BY HistoryFacts, LevelFacts DEF HistoryOK
<1>2. o \in Nat /\ o <= p /\ p < o + 2 * s /\ o % (2 * s) = 0
      /\ c \in Nat /\ c <= p /\ p < c + s /\ c % s = 0 /\ (c = o \/ c = o + s)
  BY <1>1, AlignedPlace, HalfOf
<1>3. CASE c < b.size /\ s <= b.size
  <2>1. b.size \in Powers /\ b.size \in Nat \ {0}
    <3>1. b.size = 0 \/ b.size \in Powers
      BY DEF HistoryOK
    <3>2. b.size # 0
      BY <1>1, <1>2, <1>3
    <3> QED BY <3>1, <3>2, PowerFacts
  <2>2. c + s <= b.size
    BY <1>1, <1>2, <1>3, <2>1, PlaceInside
  <2>3. p \in 0..(b.size - 1)
    BY <1>1, <1>2, <2>1, <2>2
  <2>4. s < b.size
    <3>1. SUFFICES ASSUME s = b.size PROVE FALSE
      BY <1>1, <1>3, <2>1
    <3>2. p < 2 * s
      BY <1>1, <2>3, <3>1
    <3>3. o = 0
      BY <1>1, <1>2, <3>2, FirstPlace
    <3>4. SizeAt(h, 0) = s /\ s < 2 * s /\ 0 \in 0..v /\ v \in 0..h.last
      BY <1>1, <3>1 DEF SizeAt
    <3>5. PICK z \in (0 + 1)..v : Touches(0, 2 * s, h.ws[z])
      BY <1>1, <3>4, LaterWriter
    <3>6. z \in Touchers(h, v, o, 2 * s)
      BY <1>1, <3>3, <3>5 DEF Touchers
    <3> QED BY <3>6
  <2>5. s \in Levels(b.size)
    BY <1>1, <2>4 DEF Levels
  <2> QED BY <2>1, <2>3, <2>5, BaseStep
<1>4. CASE ~(c < b.size /\ s <= b.size)
  <2>1. BaseNode(d, h, c, s) = Empty
    BY <1>4 DEF BaseNode
  <2>2. BaseNode(d, h, o, 2 * s) = Empty
    <3>1. SUFFICES ASSUME o < b.size, 2 * s <= b.size PROVE FALSE
      BY DEF BaseNode
    <3>2. b.size \in Powers /\ b.size \in Nat
      BY <1>2, <3>1, PowerFacts DEF HistoryOK
    <3>3. o + 2 * s <= b.size
      BY <1>1, <1>2, <3>1, <3>2, PlaceInside
    <3> QED BY <1>1, <1>2, <1>4, <3>1, <3>2, <3>3
  <2>3. n.id = 0
    BY <2>2 DEF Like, Norm, Empty
  <2>4. StepDown(d, n, p, s) = Empty
    BY <2>3 DEF StepDown, KeysOK
  <2> QED BY <2>1, <2>4 DEF Like, Norm, IsNode, KeyAt, Empty
<1> QED BY <1>3, <1>4

\* A walk from the root of a version whose predecessors are complete meets the
\* nodes this version should have.
LEMMA PathRight ==
    ASSUME NEW d, NEW h, HistoryOK(h), KeysOK(d), Closed(d, h.base), NEW v \in 1..h.last,
           CompleteTo(d, h, v), NEW root, IsRoot(h, v, root),
           NEW p \in 0..(root.size - 1), NEW t \in Levels(root.size) \cup {root.size}
    PROVE  Like(Path(d, root, p)[t], NodeAt(d, h, v, Aligned(p, t), t))
<1> DEFINE S == {s \in Levels(root.size) \cup {root.size} :
                    Like(Path(d, root, p)[s], NodeAt(d, h, v, Aligned(p, s), s))}
<1>1. /\ root.size = SizeAt(h, v) /\ root.size \in Powers /\ root.size \in Nat \ {0} /\ p \in Nat
      /\ h.last \in Nat /\ v \in Nat \ {0} /\ h.id # 0
  BY HistoryFacts, LevelFacts DEF IsRoot, SizeAt, HistoryOK
<1>2. root.size \in S
  <2>1. Aligned(p, root.size) = 0
    BY <1>1, AlignedIs
  <2>2. Touches(0, root.size, h.ws[v])
    BY <1>1, HistoryFacts DEF Touches
  <2>3. NodeAt(d, h, v, 0, root.size) = KeyAt(h.id, v, 0, root.size)
    BY <1>1, <2>2, OwnNodeAt
  <2>4. Path(d, root, p)[root.size] = KeyAt(h.id, v, 0, root.size)
    BY <1>1, PathSteps DEF RootNode, KeyAt, IsRoot
  <2> QED BY <1>1, <2>1, <2>3, <2>4 DEF Like, Norm, IsNode, KeyAt
<1>3. ASSUME NEW s \in Levels(root.size), 2 * s \in S PROVE s \in S
  <2> DEFINE o == Aligned(p, 2 * s)
             c == Aligned(p, s)
             n == Path(d, root, p)[2 * s]
  <2>1. s \in Nat \ {0} /\ 2 * s \in Powers /\ 2 * s <= root.size
    BY <1>1, LevelFacts
  <2>2. o \in Nat /\ o <= p /\ p < o + 2 * s /\ o % (2 * s) = 0 /\ c = IF p < o + s THEN o ELSE o + s
    BY <1>1, <2>1, AlignedPlace, HalfOf
  <2>3. Path(d, root, p)[s] = StepDown(d, n, p, s) /\ Like(n, NodeAt(d, h, v, o, 2 * s))
    BY <1>1, <1>3, PathSteps
  <2> HIDE DEF n, o, c
  <2>4. ASSUME NEW z \in 1..v, Touches(c, s, h.ws[z]) PROVE Touches(o, 2 * s, h.ws[z])
    <3>1. h.ws[z].offset \in Nat /\ h.ws[z].size \in Nat
      BY <1>1, HistoryFacts
    <3>2. o \in Nat /\ c \in Nat /\ o <= c /\ c + s <= o + 2 * s
      BY <2>1, <2>2
    <3> QED BY <2>1, <2>4, <3>1, <3>2 DEF Touches
  <2>5. CASE Touchers(h, v, o, 2 * s) = {}
    <3>1. Touchers(h, v, c, s) = {}
      BY <2>4, <2>5 DEF Touchers
    <3>2. Like(n, BaseNode(d, h, o, 2 * s)) /\ NodeAt(d, h, v, c, s) = BaseNode(d, h, c, s)
      BY <2>3, <2>5, <3>1 DEF NodeAt
    <3>3. Like(StepDown(d, n, p, s), BaseNode(d, h, c, s))
      BY <1>1, <2>5, <3>2, UntouchedStep DEF o, c
    <3> QED BY <2>3, <3>2, <3>3 DEF c
  <2>6. CASE Touchers(h, v, o, 2 * s) # {}
    <3> DEFINE x == Max(Touchers(h, v, o, 2 * s))
    <3>1. x \in 1..v /\ Touches(o, 2 * s, h.ws[x]) /\ \A z \in 1..v : Touches(o, 2 * s, h.ws[z]) => z <= x
      BY <1>1, <2>6, LastToucher
    <3>2. 2 * s <= SizeAt(h, x)
      BY <1>1, <2>1, <2>2, <2>6, LastHasPlace
    <3>3. n = KeyAt(h.id, x, o, 2 * s)
      BY <1>1, <2>3, <2>6 DEF Like, Norm, NodeAt, KeyAt, Empty
    <3> HIDE DEF x
    <3>4. s \in Levels(SizeAt(h, x)) /\ o \in ParentPlaces(h, x, s)
      <4>1. x \in 0..h.last /\ s \in Powers
        BY <1>1, <3>1, LevelFacts
      <4>2. SizeAt(h, x) \in Nat
        BY <4>1, HistoryFacts
      <4> QED BY <2>1, <2>2, <3>1, <3>2, <4>1, <4>2 DEF Levels, ParentPlaces
    <3>5. n \in DOMAIN d /\ ChildrenOK(d, h, x, o, s, d[n])
      BY <3>1, <3>3, <3>4 DEF CompleteTo, InnerIn, InnerOK
    <3>6. Like(StepDown(d, n, p, s), NodeAt(d, h, x, c, s))
      <4>1. n.offset = o
        BY <3>3 DEF KeyAt
      <4> QED BY <2>2, <3>5, <4>1 DEF StepDown, ChildrenOK
    <3>7. NodeAt(d, h, x, c, s) = NodeAt(d, h, v, c, s)
      BY <1>1, <2>4, <3>1, SameNode
    <3> QED BY <2>3, <3>6, <3>7 DEF c
  <2> QED BY <2>5, <2>6
<1> HIDE DEF S
<1>4. t \in S
  BY <1>1, <1>2, <1>3, FromTheRoot
<1> QED BY <1>4 DEF S

\* A complete version has stored its node in every place of its tree that it
\* writes in.
LEMMA NodeStored ==
    ASSUME NEW d, NEW h, HistoryOK(h), NEW x \in 1..h.last, LeavesIn(d, h, x), InnerIn(d, h, x),
           NEW s \in Powers, s <= SizeAt(h, x), NEW o \in Nat, o % s = 0, Touches(o, s, h.ws[x])
    PROVE  KeyAt(h.id, x, o, s) \in DOMAIN d
<1>1. SizeAt(h, x) \in Nat /\ h.ws[x].offset \in Nat /\ h.ws[x].size \in Nat
  BY HistoryFacts DEF HistoryOK
<1>2. CASE s = 1
  <2>1. o \in Written(h.ws[x])
    BY <1>1, <1>2 DEF Touches, Written
  <2> QED BY <1>2, <2>1 DEF LeavesIn
<1>3. CASE s # 1
  <2>1. PICK r \in Powers : s = 2 * r
    BY <1>3, PowerFacts
  <2>2. r \in Nat \ {0}
    BY PowerFacts
  <2>3. r \in Levels(SizeAt(h, x)) /\ o \in ParentPlaces(h, x, r)
    BY <1>1, <2>1, <2>2 DEF Levels, ParentPlaces
  <2> QED BY <2>1, <2>3 DEF InnerIn
<1> QED BY <1>2, <1>3

\* So what can be reached from its root is stored.
LEMMA RootClosed ==
    ASSUME NEW d, NEW h, HistoryOK(h), KeysOK(d), Closed(d, h.base), NEW v \in 1..h.last,
           CompleteTo(d, h, v), NEW root, IsRoot(h, v, root)
    PROVE  Closed(d, root)
<1> SUFFICES ASSUME NEW p \in 0..(root.size - 1), NEW s \in Levels(root.size) \cup {root.size}
             PROVE  ClosedAt(d, Path(d, root, p)[s], Aligned(p, s), s)
  BY DEF Closed
<1> DEFINE o == Aligned(p, s)
           q == Path(d, root, p)[s]
           b == h.base
<1>1. /\ root.size = SizeAt(h, v) /\ root.size \in Powers /\ p \in Nat /\ h.last \in Nat /\ v \in Nat
      /\ s \in Powers /\ s <= root.size /\ s \in Nat \ {0} /\ h.id # 0
  BY HistoryFacts, LevelFacts DEF IsRoot, SizeAt, HistoryOK
<1>2. Like(q, NodeAt(d, h, v, o, s))
  BY PathRight
<1>3. o \in Nat /\ o % s = 0
  BY <1>1, AlignedPlace
<1> HIDE DEF q, o
<1>4. CASE Touchers(h, v, o, s) # {}
  <2> DEFINE x == Max(Touchers(h, v, o, s))
  <2>1. x \in 1..v /\ Touches(o, s, h.ws[x])
    BY <1>1, <1>4, LastToucher
  <2>2. s <= SizeAt(h, x)
    BY <1>1, <1>3, <1>4, LastHasPlace
  <2>3. q = KeyAt(h.id, x, o, s)
    BY <1>1, <1>2, <1>4 DEF Like, Norm, NodeAt, KeyAt, Empty
  <2> HIDE DEF x
  <2>4. x \in 1..h.last
    BY <1>1, <2>1
  <2>5. q \in DOMAIN d
    BY <1>1, <1>3, <2>1, <2>2, <2>3, <2>4, NodeStored DEF CompleteTo
  <2>6. q.offset = o /\ q.size = s
    BY <2>3 DEF KeyAt
  <2>7. IsNode(q)
    BY <2>3 DEF IsNode, KeyAt
  <2> QED BY <2>5, <2>6, <2>7 DEF ClosedAt, q, o
<1>5. CASE Touchers(h, v, o, s) = {}
  <2>1. IsNode(q) /\ Norm(q) = BaseNode(d, h, o, s)
    BY <1>2, <1>5 DEF Like, NodeAt
  <2>2. CASE ~(o < b.size /\ s <= b.size)
    <3>1. q.id = 0
      BY <2>1, <2>2 DEF BaseNode, Norm, Empty
    <3> QED BY <2>1, <3>1 DEF ClosedAt, q
  <2>3. CASE o < b.size /\ s <= b.size
    <3>1. b.size \in Powers /\ b.size \in Nat
      BY <1>3, <2>3, PowerFacts DEF HistoryOK
    <3>2. s \in Levels(b.size) \cup {b.size} /\ o \in 0..(b.size - 1) /\ Aligned(o, s) = o
      BY <1>1, <1>3, <2>3, <3>1, AlignedIs DEF Levels
    <3>3. ClosedAt(d, Path(d, b, o)[s], o, s)
      BY <3>2 DEF Closed
    <3>4. q.id = 0 \/ q = Path(d, b, o)[s]
      BY <2>1, <2>3 DEF BaseNode, Norm, Empty
    <3> QED BY <2>1, <3>3, <3>4 DEF ClosedAt, q, o
  <2> QED BY <2>2, <2>3
<1> QED BY <1>4, <1>5

\* What a reader finds at the end of a walk.
Content(d, q) == IF q \in DOMAIN d THEN d[q].left ELSE Unreadable

\* A child of a node reads as the node meant there; a child of id 0, which stands
\* for pages nobody wrote (query_t's default), reads as nothing.
LEMMA LikeContent ==
    ASSUME NEW d, KeysOK(d), NEW q, NEW n, Like(q, n)
    PROVE  Content(d, q) = Content(d, n)
<1>1. CASE q.id = 0
  <2>1. n = Empty /\ Empty.id = 0
    BY <1>1 DEF Like, Norm, Empty
  <2> QED BY <1>1, <2>1 DEF Content, KeysOK
<1>2. CASE q.id # 0
  BY <1>2 DEF Like, Norm
<1> QED BY <1>1, <1>2

\* Sizes never shrink.
LEMMA SizesGrow ==
    ASSUME NEW h, HistoryOK(h), NEW v \in 0..h.last, NEW x \in 0..v
    PROVE  SizeAt(h, x) <= SizeAt(h, v)
<1>1. h.last \in Nat /\ SizeAt(h, v) \in Nat
  BY HistoryFacts DEF HistoryOK
<1>2. CASE x = v
  BY <1>1, <1>2
<1>3. CASE x # v
  <2>1. v \in 1..h.last /\ x \in 0..(v - 1)
    BY <1>1, <1>3
  <2> QED BY <2>1 DEF HistoryOK, Grown
<1> QED BY <1>2, <1>3

\* A reader finds in a page what the node that should be there holds.
LEMMA ReadRight ==
    ASSUME NEW d, NEW h, HistoryOK(h), KeysOK(d), Closed(d, h.base), NEW v \in 0..h.last,
           CompleteTo(d, h, v), NEW root, IsRoot(h, v, root), NEW p \in Nat
    PROVE  ReadPage(d, root, p) = Content(d, NodeAt(d, h, v, p, 1))
<1>1. /\ root.size = SizeAt(h, v) /\ root.size \in Nat /\ h.last \in Nat /\ v \in Nat
      /\ root.size \in Powers \/ root.size = 0
      /\ h.base.size = SizeAt(h, 0) /\ h.base.size \in Nat
  BY HistoryFacts DEF IsRoot, SizeAt, HistoryOK
<1>2. CASE p >= root.size
  <2>1. Touchers(h, v, p, 1) = {}
    <3>1. SUFFICES ASSUME NEW x \in 1..v, Touches(p, 1, h.ws[x]) PROVE FALSE
      BY DEF Touchers
    <3>2. x \in 1..h.last /\ x \in 0..v
      BY <1>1
    <3>3. SizeAt(h, x) <= SizeAt(h, v)
      BY <3>2, SizesGrow
    <3> QED BY <1>1, <1>2, <3>1, <3>2, <3>3, HistoryFacts DEF Touches
  <2>2. SizeAt(h, 0) <= SizeAt(h, v)
    BY <1>1, SizesGrow
  <2>3. NodeAt(d, h, v, p, 1) = Empty
    BY <1>1, <1>2, <2>1, <2>2 DEF NodeAt, BaseNode
  <2>4. Empty.id = 0
    BY DEF Empty
  <2> QED BY <1>2, <2>3, <2>4 DEF ReadPage, Content, KeysOK
<1>3. CASE p < root.size
  <2>1. root.size \in Powers /\ p \in 0..(root.size - 1) /\ 1 \in Levels(root.size) \cup {root.size}
    BY <1>1, <1>3, LevelFacts
  <2>2. Aligned(p, 1) = p
    <3>1. p = p * 1 + 0
      OBVIOUS
    <3>2. p % 1 = 0
      BY <3>1, DivModUnique
    <3> QED BY <3>2, AlignedIs
  <2>3. ReadPage(d, root, p) = Content(d, Path(d, root, p)[1])
    BY <1>1, <1>3 DEF ReadPage, Content
  <2>4. Like(Path(d, root, p)[1], NodeAt(d, h, v, p, 1))
    <3>1. CASE v = 0
      <4>1. root = h.base /\ Touchers(h, v, p, 1) = {}
        BY <3>1 DEF IsRoot, Touchers
      <4>2. 1 <= h.base.size /\ p < h.base.size
        BY <1>1, <1>3, <4>1
      <4>3. NodeAt(d, h, v, p, 1) = Norm(Path(d, root, p)[1])
        BY <4>1, <4>2 DEF NodeAt, BaseNode
      <4>4. IsNode(Path(d, root, p)[1])
        BY <2>1, <4>1 DEF Closed, ClosedAt
      <4> QED BY <4>3, <4>4 DEF Like
    <3>2. CASE v # 0
      <4>1. v \in 1..h.last
        BY <1>1, <3>2
      <4> QED BY <2>1, <2>2, <4>1, PathRight
    <3> QED BY <3>1, <3>2
  <2> QED BY <2>3, <2>4, LikeContent
<1> QED BY <1>1, <1>2, <1>3

\* A version reads as the one before it with its write applied.
LEMMA WriteApplied ==
    ASSUME NEW d, NEW h, HistoryOK(h), KeysOK(d), Closed(d, h.base), NEW v \in 1..h.last,
           CompleteTo(d, h, v), NEW root, IsRoot(h, v, root), NEW before, IsRoot(h, v - 1, before),
           NEW p \in Nat
    PROVE  ReadPage(d, root, p) = IF p >= h.ws[v].offset /\ p < h.ws[v].offset + h.ws[v].size
                                  THEN PageKey(h.id, v, p - h.ws[v].offset)
                                  ELSE ReadPage(d, before, p)
<1> DEFINE w == h.ws[v]
<1>1. /\ h.last \in Nat /\ v \in Nat \ {0} /\ v \in 0..h.last /\ v - 1 \in 0..h.last
      /\ w.offset \in Nat /\ w.size \in Nat /\ v - 1 \in 0..v
  BY HistoryFacts DEF HistoryOK
<1>2. CompleteTo(d, h, v - 1)
  BY <1>1 DEF CompleteTo
<1>3. /\ ReadPage(d, root, p) = Content(d, NodeAt(d, h, v, p, 1))
      /\ ReadPage(d, before, p) = Content(d, NodeAt(d, h, v - 1, p, 1))
  BY <1>1, <1>2, ReadRight
<1> HIDE DEF w
<1>4. CASE p >= w.offset /\ p < w.offset + w.size
  <2>1. Touches(p, 1, w) /\ p \in Written(w)
    BY <1>1, <1>4 DEF Touches, Written
  <2>2. NodeAt(d, h, v, p, 1) = KeyAt(h.id, v, p, 1)
    BY <1>1, <2>1, OwnNodeAt DEF w
  <2>3. KeyAt(h.id, v, p, 1) \in DOMAIN d /\ d[KeyAt(h.id, v, p, 1)].left = PageKey(h.id, v, p - w.offset)
    BY <1>1, <2>1 DEF CompleteTo, LeavesIn, LeavesOK, w
  <2> QED BY <1>3, <1>4, <2>2, <2>3 DEF Content, w
<1>5. CASE ~(p >= w.offset /\ p < w.offset + w.size)
  <2>1. ~Touches(p, 1, w)
    BY <1>1, <1>5 DEF Touches
  <2>2. \A z \in 1..v : Touches(p, 1, h.ws[z]) => z <= v - 1
    BY <1>1, <2>1 DEF w
  <2>3. NodeAt(d, h, v - 1, p, 1) = NodeAt(d, h, v, p, 1)
    BY <1>1, <2>2, SameNode
  <2> QED BY <1>3, <1>5, <2>3 DEF w
<1> QED BY <1>4, <1>5

-----------------------------------------------------------------------------
(* The DHT grows. *)

DhtGrows(d, e) == DOMAIN d \subseteq DOMAIN e /\ \A q \in DOMAIN d : e[q] = d[q]

\* A walk that met stored nodes only meets the same ones later.
LEMMA PathGrows ==
    ASSUME NEW d, NEW e, DhtGrows(d, e), KeysOK(e), NEW root, root.size \in Powers, Closed(d, root),
           NEW p \in 0..(root.size - 1), NEW t \in Levels(root.size) \cup {root.size}
    PROVE  Path(e, root, p)[t] = Path(d, root, p)[t]
<1> DEFINE S == {s \in Levels(root.size) \cup {root.size} : Path(e, root, p)[s] = Path(d, root, p)[s]}
<1>1. root.size \in S
  BY PathSteps
<1>2. ASSUME NEW s \in Levels(root.size), 2 * s \in S PROVE s \in S
  <2> DEFINE n == Path(d, root, p)[2 * s]
  <2>1. Path(e, root, p)[2 * s] = n /\ 2 * s \in Levels(root.size) \cup {root.size}
    BY <1>2
  <2>2. n.id = 0 \/ n \in DOMAIN d
    BY <2>1 DEF Closed, ClosedAt
  <2>3. Path(e, root, p)[s] = StepDown(e, n, p, s) /\ Path(d, root, p)[s] = StepDown(d, n, p, s)
    BY <2>1, PathSteps
  <2> HIDE DEF n
  <2>4. StepDown(e, n, p, s) = StepDown(d, n, p, s)
    BY <2>2 DEF StepDown, DhtGrows, KeysOK
  <2> QED BY <2>3, <2>4
<1> HIDE DEF S
<1>3. t \in S
  BY <1>1, <1>2, FromTheRoot
<1> QED BY <1>3 DEF S

\* A tree whose nodes are all there stays so when writers add nodes of their own.
LEMMA ClosedGrows ==
    ASSUME NEW d, NEW e, DhtGrows(d, e), KeysOK(e), NEW root, root.size = 0 \/ root.size \in Powers,
           Closed(d, root)
    PROVE  Closed(e, root)
<1> SUFFICES ASSUME NEW p \in 0..(root.size - 1), NEW s \in Levels(root.size) \cup {root.size}
             PROVE  ClosedAt(e, Path(e, root, p)[s], Aligned(p, s), s)
  BY DEF Closed
<1>1. root.size \in Powers
  OBVIOUS
<1>2. Path(e, root, p)[s] = Path(d, root, p)[s]
  BY <1>1, PathGrows
<1>3. ClosedAt(d, Path(d, root, p)[s], Aligned(p, s), s)
  BY DEF Closed
<1> QED BY <1>2, <1>3 DEF ClosedAt, DhtGrows

\* And a reader finds what it found.
LEMMA ReadGrows ==
    ASSUME NEW d, NEW e, DhtGrows(d, e), KeysOK(e), NEW root, root.size = 0 \/ root.size \in Powers,
           Closed(d, root), NEW p \in Nat
    PROVE  ReadPage(e, root, p) = ReadPage(d, root, p)
<1>1. CASE p >= root.size
  BY <1>1 DEF ReadPage
<1>2. CASE p < root.size
  <2>1. root.size \in Powers /\ p \in 0..(root.size - 1) /\ 1 \in Levels(root.size) \cup {root.size}
    <3>1. root.size \in Powers
      BY <1>2
    <3>2. root.size \in Nat
      BY <3>1, PowerFacts
    <3> QED BY <1>2, <3>1, <3>2, LevelFacts
  <2>2. Path(e, root, p)[1] = Path(d, root, p)[1]
    BY <2>1, PathGrows
  <2>3. Path(d, root, p)[1].id = 0 \/ Path(d, root, p)[1] \in DOMAIN d
    BY <2>1 DEF Closed, ClosedAt
  <2> QED BY <2>2, <2>3 DEF ReadPage, DhtGrows, KeysOK
<1>3. root.size \in Nat
  BY PowerFacts
<1> QED BY <1>1, <1>2, <1>3

\* h is a part of the history g of the same blob.
Before(h, g) ==
    /\ h.id = g.id /\ h.base = g.base /\ h.last <= g.last
    /\ \A x \in 1..h.last : h.ws[x] = g.ws[x]

\* The node a version should have somewhere does not change.
LEMMA NodeStays ==
    ASSUME NEW d, NEW e, DhtGrows(d, e), KeysOK(e), NEW h, NEW g, HistoryOK(h), Before(h, g),
           Closed(d, h.base), NEW v \in 0..h.last, NEW o \in Nat, NEW s \in Powers
    PROVE  NodeAt(e, g, v, o, s) = NodeAt(d, h, v, o, s)
<1>1. Touchers(g, v, o, s) = Touchers(h, v, o, s)
  BY DEF Touchers, Before, HistoryOK
<1>2. BaseNode(e, g, o, s) = BaseNode(d, h, o, s)
  <2>1. g.base = h.base
    BY DEF Before
  <2>2. CASE ~(o < h.base.size /\ s <= h.base.size)
    BY <2>1, <2>2 DEF BaseNode
  <2>3. CASE o < h.base.size /\ s <= h.base.size
    <3>1. h.base.size \in Powers /\ h.base.size \in Nat /\ s \in Nat
      BY <2>3, PowerFacts DEF HistoryOK
    <3>2. s \in Levels(h.base.size) \cup {h.base.size} /\ o \in 0..(h.base.size - 1)
      BY <2>3, <3>1 DEF Levels
    <3>3. Path(e, h.base, o)[s] = Path(d, h.base, o)[s]
      BY <3>1, <3>2, PathGrows
    <3> QED BY <2>1, <3>3 DEF BaseNode
  <2> QED BY <2>2, <2>3
<1>3. g.id = h.id
  BY DEF Before
<1> QED BY <1>1, <1>2, <1>3 DEF NodeAt

-----------------------------------------------------------------------------
(* The siblings a writer collects. *)

\* What the writer of x was told: the latest root then published, n, and the
\* ranges of those after it and before its own.
Told(h, x, n) ==
    LET w == h.ws[x]
    IN  /\ n \in 0..(x - 1) /\ IsRoot(h, n, w.stable)
        /\ DOMAIN w.intervals = (n + 1)..(x - 1)
        /\ \A u \in (n + 1)..(x - 1) :
              w.intervals[u].offset = h.ws[u].offset /\ w.intervals[u].size = h.ws[u].size

\* Ranges intersect if each starts before the other ends.
LEMMA IntersectsIs ==
    ASSUME NEW a, NEW b, a.offset \in Nat, b.offset \in Nat, a.size \in Nat \ {0}, b.size \in Nat \ {0}
    PROVE  Intersects(a, b) <=> Touches(a.offset, a.size, b)
BY DEF Intersects, Touches

\* No version has a node behind the end of its tree.
LEMMA OutsideNode ==
    ASSUME NEW d, NEW h, HistoryOK(h), NEW n \in 0..h.last, NEW c \in Nat, NEW s, c >= SizeAt(h, n)
    PROVE  NodeAt(d, h, n, c, s) = Empty
<1>1. h.last \in Nat /\ n \in Nat /\ SizeAt(h, n) \in Nat /\ h.base.size = SizeAt(h, 0)
  BY HistoryFacts DEF HistoryOK, SizeAt
<1>2. Touchers(h, n, c, s) = {}
  <2>1. SUFFICES ASSUME NEW x \in 1..n, Touches(c, s, h.ws[x]) PROVE FALSE
    BY DEF Touchers
  <2>2. x \in 1..h.last /\ x \in 0..n /\ x \in 0..h.last
    BY <1>1
  <2>3. SizeAt(h, x) <= SizeAt(h, n) /\ SizeAt(h, x) \in Nat
    BY <2>2, SizesGrow, HistoryFacts
  <2> QED BY <1>1, <2>1, <2>2, <2>3, HistoryFacts DEF Touches
<1>3. SizeAt(h, 0) <= SizeAt(h, n) /\ SizeAt(h, 0) \in Nat
  BY <1>1, SizesGrow, HistoryFacts
<1> QED BY <1>1, <1>2, <1>3 DEF NodeAt, BaseNode

\* PathRight and RootClosed, for the base too.
LEMMA StableWalk ==
    ASSUME NEW d, NEW h, HistoryOK(h), KeysOK(d), Closed(d, h.base), NEW n \in 0..h.last,
           CompleteTo(d, h, n), NEW root, IsRoot(h, n, root), root.size \in Powers
    PROVE  /\ Closed(d, root)
           /\ \A p \in 0..(root.size - 1) : \A t \in Levels(root.size) \cup {root.size} :
                 Like(Path(d, root, p)[t], NodeAt(d, h, n, Aligned(p, t), t))
<1>1. CASE n # 0
  <2>1. n \in 1..h.last
    BY <1>1 DEF HistoryOK
  <2> QED BY <2>1, PathRight, RootClosed
<1>2. CASE n = 0
  <2>1. root = h.base
    BY <1>2 DEF IsRoot
  <2> SUFFICES ASSUME NEW p \in 0..(root.size - 1), NEW t \in Levels(root.size) \cup {root.size}
               PROVE  Like(Path(d, root, p)[t], NodeAt(d, h, n, Aligned(p, t), t))
    BY <2>1
  <2> DEFINE o == Aligned(p, t)
  <2>2. root.size \in Nat /\ p \in Nat /\ t \in Nat \ {0} /\ t <= root.size
    BY LevelFacts
  <2>3. o \in Nat /\ o <= p /\ o % t = 0
    BY <2>2, AlignedPlace
  <2>4. o \in 0..(root.size - 1) /\ Aligned(o, t) = o
    BY <2>2, <2>3, AlignedIs
  <2>5. Path(d, root, o)[t] = Path(d, root, p)[t]
    BY <2>1, <2>4, PathShared
  <2>6. Touchers(h, n, o, t) = {}
    BY <1>2 DEF Touchers
  <2>7. NodeAt(d, h, n, o, t) = Norm(Path(d, root, p)[t])
    BY <2>1, <2>2, <2>4, <2>5, <2>6 DEF NodeAt, BaseNode
  <2>8. IsNode(Path(d, root, p)[t])
    BY <2>1 DEF Closed, ClosedAt
  <2> QED BY <2>7, <2>8 DEF Like
<1> QED BY <1>1, <1>2

\* The children of a node on the way to a page are on the way to others.
LEMMA ChildrenOnPaths ==
    ASSUME NEW d, NEW root, root.size \in Powers, Closed(d, root), KeysOK(d),
           NEW p \in 0..(root.size - 1), NEW s \in Levels(root.size)
    PROVE  LET o == Aligned(p, 2 * s)
               n == Path(d, root, p)[2 * s]
           IN  /\ o \in 0..(root.size - 1) /\ o + s \in 0..(root.size - 1)
               /\ Aligned(o, s) = o /\ Aligned(o + s, s) = o + s
               /\ ClosedAt(d, Path(d, root, o)[s], o, s) /\ ClosedAt(d, Path(d, root, o + s)[s], o + s, s)
               /\ n \in DOMAIN d => /\ n.offset = o
                                    /\ d[n].left = Path(d, root, o)[s]
                                    /\ d[n].right = Path(d, root, o + s)[s]
               /\ n \notin DOMAIN d => Path(d, root, o)[s] = Empty /\ Path(d, root, o + s)[s] = Empty
<1> DEFINE o == Aligned(p, 2 * s)
           n == Path(d, root, p)[2 * s]
           D == Levels(root.size) \cup {root.size}
<1>1. /\ root.size \in Nat /\ p \in Nat /\ s \in Nat \ {0} /\ 2 * s \in D /\ s \in D
      /\ 2 * s \in Powers /\ 2 * s <= root.size
  BY LevelFacts
<1>2. o \in Nat /\ o <= p /\ o % (2 * s) = 0 /\ p < root.size
  <2>1. 2 * s \in Nat \ {0} /\ p < root.size
    BY <1>1
  <2> QED BY <1>1, <2>1, AlignedPlace
<1>3. o + 2 * s <= root.size
  BY <1>1, <1>2, PlaceInside
<1>4. o % s = 0 /\ (o + s) % s = 0
  BY <1>1, <1>2, Halves
<1>5. o \in 0..(root.size - 1) /\ o + s \in 0..(root.size - 1)
  BY <1>1, <1>2, <1>3
<1>6. Aligned(o, s) = o /\ Aligned(o + s, s) = o + s /\ Aligned(o, 2 * s) = o /\ Aligned(o + s, 2 * s) = o
  BY <1>1, <1>2, <1>4, AlignedIs
<1>7. Path(d, root, o)[2 * s] = n /\ Path(d, root, o + s)[2 * s] = n
  BY <1>1, <1>5, <1>6, PathShared
<1>8. Path(d, root, o)[s] = StepDown(d, n, o, s) /\ Path(d, root, o + s)[s] = StepDown(d, n, o + s, s)
  BY <1>7, PathSteps
<1>9. n \in DOMAIN d => n.offset = o
  BY <1>1 DEF Closed, ClosedAt, KeysOK
<1>10. ClosedAt(d, Path(d, root, o)[s], o, s) /\ ClosedAt(d, Path(d, root, o + s)[s], o + s, s)
  BY <1>1, <1>5, <1>6 DEF Closed
<1> HIDE DEF o, n
<1>11. n \in DOMAIN d => d[n].left = Path(d, root, o)[s] /\ d[n].right = Path(d, root, o + s)[s]
  BY <1>1, <1>2, <1>8, <1>9 DEF StepDown, o
<1>12. n \notin DOMAIN d => Path(d, root, o)[s] = Empty /\ Path(d, root, o + s)[s] = Empty
  BY <1>8 DEF StepDown
<1> QED BY <1>5, <1>6, <1>9, <1>10, <1>11, <1>12 DEF o, n

AtPlace(q, o, s) == q.offset = o /\ q.size = s

\* All that a set has in a place stands for n; if it has nothing there, n is empty.
Offers(sibs, o, s, n) ==
    /\ \A q \in sibs : AtPlace(q, o, s) => Like(q, n)
    /\ (\A q \in sibs : ~AtPlace(q, o, s)) => n = Empty

\* What search_list then finds.
LEMMA Found ==
    ASSUME NEW sibs, NEW o, NEW s, NEW n, Offers(sibs, o, s, n)
    PROVE  Like(SearchList(sibs, o, s), n)
<1>1. CASE \E q \in sibs : q.offset = o /\ q.size = s
  <2> DEFINE c == CHOOSE q \in sibs : q.offset = o /\ q.size = s
  <2>1. c \in sibs /\ c.offset = o /\ c.size = s
    BY <1>1
  <2>2. SearchList(sibs, o, s) = c
    BY <1>1 DEF SearchList
  <2> HIDE DEF c
  <2> QED BY <2>1, <2>2 DEF Offers, AtPlace
<1>2. CASE ~\E q \in sibs : q.offset = o /\ q.size = s
  <2>1. SearchList(sibs, o, s) = Empty /\ n = Empty
    BY <1>2 DEF SearchList, Offers, AtPlace
  <2> QED BY <2>1 DEF Like, IsNode, Norm, KeyAt, Empty
<1> QED BY <1>1, <1>2

\* Filling in keeps what is there and adds what is missing.
LEMMA FilledIn ==
    ASSUME NEW A, NEW B, NEW o, NEW s, NEW n,
           IF \E q \in A : AtPlace(q, o, s)
           THEN \A q \in A : AtPlace(q, o, s) => q = n /\ n.id # 0 /\ IsNode(n)
           ELSE Offers(B, o, s, n)
    PROVE  Like(SearchList(FillIn(A, B), o, s), n)
<1>1. CASE \E q \in A : AtPlace(q, o, s)
  <2>1. n \in A /\ AtPlace(n, o, s) /\ n.id # 0 /\ IsNode(n) /\ \A q \in A : AtPlace(q, o, s) => q = n
    BY <1>1
  <2>2. SearchList(A, o, s) = n
    BY <2>1 DEF SearchList, AtPlace
  <2>3. n # Empty
    BY <2>1 DEF Empty
  <2>4. \A q \in FillIn(A, B) : AtPlace(q, o, s) => q = n
    BY <2>1, <2>2, <2>3 DEF FillIn, AtPlace
  <2>5. n \in FillIn(A, B)
    BY <2>1 DEF FillIn
  <2>6. Offers(FillIn(A, B), o, s, n)
    BY <2>1, <2>4, <2>5 DEF Offers, Like, Norm
  <2> QED BY <2>6, Found
<1>2. CASE ~\E q \in A : AtPlace(q, o, s)
  <2>1. SearchList(A, o, s) = Empty
    BY <1>2 DEF SearchList, AtPlace
  <2>2. \A q : AtPlace(q, o, s) => (q \in FillIn(A, B) <=> q \in B)
    BY <1>2, <2>1 DEF FillIn, AtPlace
  <2>3. Offers(FillIn(A, B), o, s, n)
    BY <1>2, <2>2 DEF Offers
  <2> QED BY <2>3, Found
<1> QED BY <1>1, <1>2

\* The writes in flight, after version n and before x, with pages in a place.
FlightsAt(h, n, x, o, s) == {u \in (n + 1)..(x - 1) : Touches(o, s, h.ws[u])}

\* What A has of version x in a place is from the last of them, and nothing
\* if there is none, when x has there what n has.
FromFlights(d, h, n, x, c, s, A) ==
    LET F == FlightsAt(h, n, x, c, s)
        N == NodeAt(d, h, x, c, s)
    IN  /\ F = {} => \A q \in A : ~AtPlace(q, c, s)
        /\ F # {} => /\ N \in A /\ AtPlace(N, c, s) /\ N.id # 0 /\ IsNode(N)
                     /\ \A q \in A : AtPlace(q, c, s) => q = N
        /\ F = {} => NodeAt(d, h, n, c, s) = N

\* compute_sibling_versions finds the last of the writes in flight that has a
\* node in the place of a brother, and nothing if there is none.
LEMMA InFlight ==
    ASSUME NEW d, NEW h, HistoryOK(h), NEW x \in 1..h.last, NEW n, Told(h, x, n),
           NEW s \in Levels(SizeAt(h, x)), NEW edge \in Nat,
           NEW c \in Nat, c = Brother(Aligned(edge, s), s), ~Touches(c, s, h.ws[x])
    PROVE  FromFlights(d, h, n, x, c, s, ComputeSiblingVersions(h.ws[x], edge))
<1> DEFINE w == h.ws[x]
           A == ComputeSiblingVersions(w, edge)
           F == FlightsAt(h, n, x, c, s)
           N == NodeAt(d, h, x, c, s)
           Place(r) == [offset |-> Brother(Aligned(edge, r), r), size |-> r]
           Creators(r) == {v \in DOMAIN w.intervals : Intersects(Place(r), w.intervals[v])}
           Node(r) == [id |-> w.id, version |-> Max(Creators(r)), offset |-> Place(r).offset, size |-> r]
<1>1. /\ h.last \in Nat /\ x \in Nat \ {0} /\ n \in 0..(x - 1) /\ n \in Nat /\ w.id = h.id /\ h.id # 0
      /\ w.root_size = SizeAt(h, x) /\ SizeAt(h, x) \in Powers /\ s \in Nat \ {0}
  BY HistoryFacts, LevelFacts DEF HistoryOK, Told, RangeOK, SizeAt
<1>2. A = {Node(r) : r \in {r \in Levels(w.root_size) : Creators(r) # {}}}
  BY DEF ComputeSiblingVersions
<1>3. Creators(s) = F
  <2> USE DEF FlightsAt
  <2>1. DOMAIN w.intervals = (n + 1)..(x - 1)
    BY DEF Told
  <2>2. ASSUME NEW u \in (n + 1)..(x - 1) PROVE Intersects(Place(s), w.intervals[u]) <=> Touches(c, s, h.ws[u])
    <3>1. u \in 1..h.last /\ w.intervals[u].offset = h.ws[u].offset /\ w.intervals[u].size = h.ws[u].size
      BY <1>1 DEF Told
    <3>2. h.ws[u].offset \in Nat /\ h.ws[u].size \in Nat \ {0}
      BY <3>1, HistoryFacts
    <3>3. Place(s).offset = c /\ Place(s).size = s
      OBVIOUS
    <3> HIDE DEF Place
    <3>4. Intersects(Place(s), w.intervals[u]) <=> Touches(c, s, w.intervals[u])
      BY <1>1, <3>1, <3>2, <3>3, IntersectsIs
    <3> QED BY <3>1, <3>4 DEF Touches
  <2> QED BY <2>1, <2>2
<1>4. ASSUME NEW q \in A, AtPlace(q, c, s) PROVE F # {} /\ q = KeyAt(h.id, Max(F), c, s)
  <2>1. PICK r \in Levels(w.root_size) : Creators(r) # {} /\ q = Node(r)
    BY <1>2
  <2>2. q.size = r
    BY <2>1
  <2>3. r = s
    BY <1>4, <2>2 DEF AtPlace
  <2> QED BY <1>1, <1>3, <2>1, <2>3 DEF KeyAt
<1>5. ASSUME F # {} PROVE KeyAt(h.id, Max(F), c, s) \in A
  <2>1. Node(s) = KeyAt(h.id, Max(F), c, s)
    BY <1>1, <1>3 DEF KeyAt
  <2>2. Node(s) \in {Node(r) : r \in {r \in Levels(w.root_size) : Creators(r) # {}}}
    BY <1>1, <1>3, <1>5
  <2> QED BY <1>2, <2>1, <2>2
<1> HIDE DEF A
<1>6. ASSUME F # {} PROVE N = KeyAt(h.id, Max(F), c, s)
  <2>1. F \in SUBSET (0..x)
    BY <1>1 DEF FlightsAt
  <2>2. Max(F) \in F /\ \A u \in F : u <= Max(F)
    BY <1>1, <1>6, <2>1, MaxOf
  <2> DEFINE m == Max(F)
             T == Touchers(h, x, c, s)
  <2>3. m \in (n + 1)..(x - 1) /\ Touches(c, s, h.ws[m])
    BY <2>2 DEF FlightsAt
  <2>4. m \in T /\ T \in SUBSET (0..x)
    BY <1>1, <2>3 DEF Touchers
  <2>5. \A z \in T : z <= m
    <3>1. SUFFICES ASSUME NEW z \in T PROVE z <= m
      OBVIOUS
    <3>2. z \in 1..x /\ Touches(c, s, h.ws[z])
      BY DEF Touchers
    <3>3. z # x
      BY <3>2
    <3>4. z \in F \/ z <= n
      BY <1>1, <3>2, <3>3 DEF FlightsAt
    <3> QED BY <1>1, <2>2, <2>3, <3>2, <3>4
  <2> HIDE DEF T, m
  <2>6. Max(T) = m
    BY <1>1, <2>4, <2>5, MaxIs
  <2> QED BY <2>4, <2>6 DEF NodeAt, T, m
<1>7. ASSUME F = {} PROVE NodeAt(d, h, n, c, s) = N
  <2>1. \A z \in 1..x : Touches(c, s, h.ws[z]) => z <= n
    <3>1. SUFFICES ASSUME NEW z \in 1..x, Touches(c, s, h.ws[z]), ~(z <= n) PROVE FALSE
      OBVIOUS
    <3>2. z # x
      BY <3>1
    <3>3. z \in F
      BY <1>1, <3>1, <3>2 DEF FlightsAt
    <3> QED BY <1>7, <3>3
  <2>2. n \in 0..x
    BY <1>1
  <2> QED BY <1>1, <2>1, <2>2, SameNode
<1>8. ASSUME F # {} PROVE N.id # 0 /\ IsNode(N) /\ AtPlace(N, c, s)
  BY <1>1, <1>6, <1>8 DEF IsNode, AtPlace, KeyAt
<1> HIDE DEF N, F
<1>9. /\ F = {} => \A q \in A : ~AtPlace(q, c, s)
      /\ F # {} => /\ N \in A /\ AtPlace(N, c, s) /\ N.id # 0 /\ IsNode(N)
                   /\ \A q \in A : AtPlace(q, c, s) => q = N
      /\ F = {} => NodeAt(d, h, n, c, s) = N
  BY <1>4, <1>5, <1>6, <1>7, <1>8
<1> QED BY <1>9 DEF N, F, A, w, FromFlights

\* So a writer finds the right sibling, if the stable tree offers it where no
\* write in flight does.
LEMMA SiblingFound ==
    ASSUME NEW d, NEW h, HistoryOK(h), NEW x \in 1..h.last, NEW n, Told(h, x, n),
           NEW s \in Levels(SizeAt(h, x)), NEW edge \in Nat,
           NEW c \in Nat, c = Brother(Aligned(edge, s), s), ~Touches(c, s, h.ws[x]),
           NEW B, (\A u \in (n + 1)..(x - 1) : ~Touches(c, s, h.ws[u])) => Offers(B, c, s, NodeAt(d, h, n, c, s))
    PROVE  Like(SearchList(FillIn(ComputeSiblingVersions(h.ws[x], edge), B), c, s), NodeAt(d, h, x, c, s))
<1> DEFINE A == ComputeSiblingVersions(h.ws[x], edge)
           F == FlightsAt(h, n, x, c, s)
           N == NodeAt(d, h, x, c, s)
<1>1. /\ F = {} => \A q \in A : ~AtPlace(q, c, s)
      /\ F # {} => /\ N \in A /\ AtPlace(N, c, s) /\ N.id # 0 /\ IsNode(N)
                   /\ \A q \in A : AtPlace(q, c, s) => q = N
      /\ F = {} => NodeAt(d, h, n, c, s) = N
  <2>1. FromFlights(d, h, n, x, c, s, A)
    BY InFlight
  <2> QED BY <2>1 DEF FromFlights
<1>2. F = {} => Offers(B, c, s, N)
  BY <1>1 DEF FlightsAt
<1> HIDE DEF A, F, N
<1>3. IF \E q \in A : AtPlace(q, c, s)
      THEN \A q \in A : AtPlace(q, c, s) => q = N /\ N.id # 0 /\ IsNode(N)
      ELSE Offers(B, c, s, N)
  BY <1>1, <1>2
<1>4. Like(SearchList(FillIn(A, B), c, s), N)
  BY <1>3, FilledIn
<1> QED BY <1>4 DEF A, N

\* A key with another place.
LEMMA Renamed ==
    ASSUME NEW q, IsNode(q), NEW a, NEW r
    PROVE  [q EXCEPT !.offset = a, !.size = r] = KeyAt(q.id, q.version, a, r)
<1>1. PICK i, v, b, t : q = KeyAt(i, v, b, t)
  BY DEF IsNode
<1>2. q.id = i /\ q.version = v /\ [q EXCEPT !.offset = a] = KeyAt(i, v, a, t)
  BY <1>1 DEF KeyAt
<1>3. [KeyAt(i, v, a, t) EXCEPT !.size = r] = KeyAt(i, v, a, r)
  BY DEF KeyAt
<1> QED BY <1>2, <1>3

\* The stable tree offers the brothers of the nodes on the way to a page in it:
\* the left ones where the page is in the right half of their parent, and vice
\* versa.
LEMMA StableOffers ==
    ASSUME NEW d, NEW h, HistoryOK(h), KeysOK(d), Closed(d, h.base), NEW n \in 0..h.last,
           CompleteTo(d, h, n), NEW root, IsRoot(h, n, root), root.size \in Powers,
           NEW p \in 0..(root.size - 1), NEW isLeft \in BOOLEAN,
           NEW s \in Levels(root.size), NEW o, o = Aligned(p, 2 * s), isLeft <=> ~(p < o + s),
           NEW c, c = IF isLeft THEN o ELSE o + s
    PROVE  Offers(StableSiblings(d, root, p, isLeft), c, s, NodeAt(d, h, n, c, s))
<1> DEFINE P == Path(d, root, p)
           B == StableSiblings(d, root, p, isLeft)
           N == NodeAt(d, h, n, c, s)
           Child(r) == IF isLeft THEN d[P[2 * r]].left ELSE d[P[2 * r]].right
           Start(r) == IF isLeft THEN P[2 * r].offset ELSE P[2 * r].offset + r
           Node(r) == [Child(r) EXCEPT !.offset = Start(r), !.size = r]
           R == {r \in Levels(root.size) : P[2 * r] \in DOMAIN d /\ (isLeft <=> ~(p < P[2 * r].offset + r))}
<1>1. Closed(d, root) /\ Like(Path(d, root, c)[s], NodeAt(d, h, n, Aligned(c, s), s))
  <2>1. c \in 0..(root.size - 1)
    BY StableWalk, ChildrenOnPaths
  <2>2. s \in Levels(root.size) \cup {root.size}
    OBVIOUS
  <2> QED BY <2>1, <2>2, StableWalk
<1>2. /\ ClosedAt(d, Path(d, root, c)[s], c, s) /\ Aligned(c, s) = c
      /\ P[2 * s] \in DOMAIN d => P[2 * s].offset = o /\ Child(s) = Path(d, root, c)[s]
      /\ P[2 * s] \notin DOMAIN d => Path(d, root, c)[s] = Empty
  BY <1>1, ChildrenOnPaths
<1>3. B = {Node(r) : r \in R}
  <2>1. CASE isLeft
    <3>1. isLeft = TRUE
      BY <2>1
    <3>2. B = {[d[P[2 * r]].left EXCEPT !.offset = P[2 * r].offset, !.size = r] :
                  r \in {r \in {r \in Levels(root.size) : P[2 * r] \in DOMAIN d} : ~(p < P[2 * r].offset + r)}}
      BY <3>1 DEF StableSiblings
    <3> QED BY <3>1, <3>2
  <2>2. CASE ~isLeft
    <3>1. isLeft = FALSE
      BY <2>2
    <3>2. B = {[d[P[2 * r]].right EXCEPT !.offset = P[2 * r].offset + r, !.size = r] :
                  r \in {r \in {r \in Levels(root.size) : P[2 * r] \in DOMAIN d} : p < P[2 * r].offset + r}}
      BY <3>1 DEF StableSiblings
    <3> QED BY <3>1, <3>2
  <2> QED BY <2>1, <2>2
<1>4. ASSUME NEW r \in R
      PROVE  IsNode(Child(r)) /\ Node(r) = KeyAt(Child(r).id, Child(r).version, Start(r), r)
  <2>1. IsNode(Child(r))
    BY <1>1, ChildrenOnPaths DEF ClosedAt
  <2> DEFINE q == Child(r)
             a == Start(r)
  <2>2. IsNode(q)
    BY <2>1
  <2> HIDE DEF q, a
  <2>3. [q EXCEPT !.offset = a, !.size = r] = KeyAt(q.id, q.version, a, r)
    BY <2>2, Renamed
  <2> QED BY <2>1, <2>3 DEF q, a
<1>5. ASSUME P[2 * s] \in DOMAIN d PROVE s \in R /\ Start(s) = c
  BY <1>2, <1>5
<1> HIDE DEF Child, Start, Node, R, B, P
<1>6. ASSUME NEW q \in B, AtPlace(q, c, s) PROVE Like(q, N)
  <2>1. PICK r \in R : q = Node(r)
    BY <1>3
  <2>2. q = KeyAt(Child(r).id, Child(r).version, Start(r), r) /\ r = s
    BY <1>4, <1>6, <2>1 DEF AtPlace, KeyAt
  <2>3. P[2 * s] \in DOMAIN d
    BY <2>1, <2>2 DEF R
  <2>4. Like(Child(s), N) /\ ClosedAt(d, Child(s), c, s)
    BY <1>1, <1>2, <2>3
  <2>5. q = KeyAt(Child(s).id, Child(s).version, c, s)
    BY <1>5, <2>2, <2>3
  <2>6. CASE Child(s).id = 0
    BY <2>4, <2>5, <2>6 DEF Like, Norm, IsNode, KeyAt
  <2>7. CASE Child(s).id # 0
    <3>1. Child(s) = q
      BY <2>4, <2>5, <2>7 DEF ClosedAt, IsNode
    <3> QED BY <2>4, <3>1
  <2> QED BY <2>6, <2>7
<1>7. ASSUME \A q \in B : ~AtPlace(q, c, s) PROVE N = Empty
  <2>1. P[2 * s] \notin DOMAIN d
    <3>1. SUFFICES ASSUME P[2 * s] \in DOMAIN d PROVE FALSE
      OBVIOUS
    <3>2. Node(s) \in B
      BY <1>3, <1>5, <3>1
    <3>3. AtPlace(Node(s), c, s)
      BY <1>4, <1>5, <3>1 DEF AtPlace, KeyAt
    <3> QED BY <1>7, <3>2, <3>3
  <2> QED BY <1>1, <1>2, <2>1 DEF Like, Norm, Empty
<1> QED BY <1>6, <1>7 DEF Offers, B

\* Where the pages are that a writer has no node of its own for.
LEMMA Edges ==
    ASSUME NEW w, w.offset \in Nat, w.size \in Nat \ {0}, NEW s \in Nat \ {0}, NEW o \in Nat, o % (2 * s) = 0
    PROVE  /\ Touches(o + s, s, w) /\ ~Touches(o, s, w) =>
                 LET e == w.offset
                 IN  o + s <= e /\ e < o + 2 * s /\ Aligned(e, 2 * s) = o /\ Brother(Aligned(e, s), s) = o
           /\ Touches(o, s, w) /\ ~Touches(o + s, s, w) =>
                 LET e == w.offset + w.size - 1
                 IN  /\ e \in Nat /\ o <= e /\ e < o + s
                     /\ Aligned(e, 2 * s) = o /\ Brother(Aligned(e, s), s) = o + s
<1>1. o % s = 0 /\ (o + s) % s = 0 /\ Brother(o, s) = o + s /\ Brother(o + s, s) = o
  BY Halves
<1>2. ASSUME Touches(o + s, s, w), ~Touches(o, s, w)
      PROVE  LET e == w.offset
             IN  o + s <= e /\ e < o + 2 * s /\ Aligned(e, 2 * s) = o /\ Brother(Aligned(e, s), s) = o
  <2>1. o + s <= w.offset /\ w.offset < o + 2 * s
    BY <1>2 DEF Touches
  <2>2. Aligned(w.offset, 2 * s) = o /\ Aligned(w.offset, s) = o + s
    <3>1. 2 * s \in Nat \ {0} /\ o <= w.offset /\ o + s \in Nat /\ w.offset < (o + s) + s
      BY <2>1
    <3> HIDE <1>2
    <3> QED BY <1>1, <2>1, <3>1, AlignedIs
  <2> QED BY <1>1, <2>1, <2>2
<1>3. ASSUME Touches(o, s, w), ~Touches(o + s, s, w)
      PROVE  LET e == w.offset + w.size - 1
             IN  /\ e \in Nat /\ o <= e /\ e < o + s
                 /\ Aligned(e, 2 * s) = o /\ Brother(Aligned(e, s), s) = o + s
  <2> DEFINE e == w.offset + w.size - 1
  <2>1. e \in Nat /\ o <= e /\ e < o + s
    BY <1>3 DEF Touches
  <2> HIDE DEF e
  <2>2. Aligned(e, 2 * s) = o /\ Aligned(e, s) = o
    BY <1>1, <2>1, AlignedIs
  <2> QED BY <1>1, <2>1, <2>2 DEF e
<1> QED BY <1>2, <1>3

\* What a writer that was told of version n knows.
LEMMA ToldFacts ==
    ASSUME NEW h, HistoryOK(h), NEW x \in 1..h.last, NEW n, Told(h, x, n)
    PROVE  LET w == h.ws[x]
           IN  /\ h.last \in Nat /\ x \in Nat \ {0} /\ n \in 0..(x - 1) /\ n \in 0..h.last /\ n \in Nat
               /\ IsRoot(h, n, w.stable) /\ w.offset \in Nat /\ w.size \in Nat \ {0}
               /\ w.offset <= SizeAt(h, x - 1) /\ x - 1 \in 0..h.last /\ SizeAt(h, x) \in Powers
<1>1. h.last \in Nat /\ RangeOK(h, x)
  BY DEF HistoryOK
<1>2. x \in Nat \ {0} /\ x - 1 \in 0..h.last /\ x \in 0..h.last
  BY <1>1
<1>3. n \in 0..(x - 1) /\ IsRoot(h, n, h.ws[x].stable)
  BY DEF Told
<1>4. n \in 0..h.last /\ n \in Nat
  BY <1>1, <1>2, <1>3
<1>5. SizeAt(h, x) \in Powers
  BY <1>2, HistoryFacts
<1> QED BY <1>1, <1>2, <1>3, <1>4, <1>5 DEF RangeOK

\* The left siblings are right.
LEMMA LeftSiblingRight ==
    ASSUME NEW d, NEW h, HistoryOK(h), KeysOK(d), Closed(d, h.base), NEW x \in 1..h.last,
           NEW n, Told(h, x, n), CompleteTo(d, h, n), NEW s \in Levels(SizeAt(h, x)),
           NEW o \in Nat, o % (2 * s) = 0, Touches(o + s, s, h.ws[x]), ~Touches(o, s, h.ws[x])
    PROVE  Like(SearchList(LeftSiblings(d, h.ws[x]), o, s), NodeAt(d, h, x, o, s))
<1> DEFINE w == h.ws[x]
           root == w.stable
           e == w.offset
           B == IF Intersects(RootNode(root), FirstLeaf(w))
                THEN StableSiblings(d, root, FirstLeaf(w).offset, TRUE)
                ELSE {RootNode(root)}
           N == NodeAt(d, h, n, o, s)
<1>1. /\ h.last \in Nat /\ x \in Nat \ {0} /\ n \in 0..(x - 1) /\ n \in 0..h.last /\ n \in Nat /\ IsRoot(h, n, root)
      /\ w.offset \in Nat /\ w.size \in Nat \ {0} /\ w.offset <= SizeAt(h, x - 1) /\ x - 1 \in 0..h.last
      /\ SizeAt(h, x) \in Powers
  BY ToldFacts
<1>2. s \in Powers /\ s \in Nat \ {0} /\ 2 * s \in Powers
  BY <1>1, LevelFacts
<1>3. root.size = SizeAt(h, n) /\ root.size \in Nat /\ (root.size = 0 \/ root.size \in Powers)
  BY <1>1, HistoryFacts DEF IsRoot, SizeAt
<1>4. o + s <= e /\ e < o + 2 * s /\ Aligned(e, 2 * s) = o /\ Brother(Aligned(e, s), s) = o /\ e \in Nat
  BY <1>1, <1>2, Edges
<1>5. Intersects(RootNode(root), FirstLeaf(w)) <=> e < root.size
  BY <1>1, <1>3 DEF Intersects, RootNode, FirstLeaf
<1> HIDE DEF w
<1>6. ASSUME \A u \in (n + 1)..(x - 1) : ~Touches(o, s, h.ws[u]) PROVE Offers(B, o, s, N)
  <2>1. CASE e < root.size
    <3>1. B = StableSiblings(d, root, e, TRUE)
      BY <1>5, <2>1 DEF FirstLeaf
    <3>2. root.size \in Powers /\ e \in 0..(root.size - 1)
      BY <1>3, <1>4, <2>1
    <3>3. s \in Levels(root.size)
      BY <1>2, <1>3, <1>4, <2>1 DEF Levels
    <3>4. (TRUE <=> ~(e < o + s)) /\ o = IF TRUE THEN o ELSE o + s
      BY <1>2, <1>4
    <3>5. Offers(StableSiblings(d, root, e, TRUE), o, s, NodeAt(d, h, n, o, s))
      BY <1>1, <1>4, <3>2, <3>3, <3>4, StableOffers
    <3> QED BY <3>1, <3>5
  <2>2. CASE root.size <= e
    <3>1. B = {RootNode(root)}
      <4>1. ~(e < root.size)
        BY <1>3, <1>4, <2>2
      <4> QED BY <1>5, <4>1
    <3>2. AtPlace(RootNode(root), o, s) <=> o = 0 /\ s = root.size
      BY DEF AtPlace, RootNode
    <3>3. CASE o = 0 /\ s = root.size
      <4>1. Like(Path(d, root, 0)[root.size], NodeAt(d, h, n, Aligned(0, root.size), root.size))
        <5>1. root.size \in Powers /\ 0 \in 0..(root.size - 1)
          BY <1>2, <3>3
        <5> QED BY <1>1, <5>1, StableWalk
      <4>2. Aligned(0, root.size) = 0 /\ Path(d, root, 0)[root.size] = RootNode(root)
        <5>1. root.size \in Powers /\ root.size \in Nat \ {0}
          BY <1>2, <3>3
        <5>2. 0 % root.size = 0
          BY <5>1
        <5>3. Aligned(0, root.size) = 0
          BY <5>2 DEF Aligned
        <5> QED BY <5>1, <5>3, PathSteps
      <4> QED BY <3>1, <3>2, <3>3, <4>1, <4>2 DEF Offers
    <3>4. CASE ~(o = 0 /\ s = root.size)
      <4>1. o >= root.size
        <5>1. SUFFICES ASSUME o < root.size PROVE FALSE
          BY <1>3
        <5>2. CASE s < root.size
          <6>1. root.size \in Powers /\ 2 * s <= root.size
            BY <1>2, <1>3, <5>1, <5>2, PowersApart
          <6>2. o + 2 * s <= root.size
            BY <1>2, <5>1, <6>1, PlaceInside
          <6> QED BY <1>2, <1>3, <1>4, <2>2, <6>2
        <5>3. CASE s >= root.size
          <6>1. o = 0
            BY <1>2, <1>3, <5>1, <5>3, FirstPlace
          <6>2. s > root.size
            BY <1>2, <1>3, <3>4, <5>3, <6>1
          <6>3. s <= SizeAt(h, x - 1)
            <7>1. SizeAt(h, x - 1) \in Nat /\ e <= SizeAt(h, x - 1)
              BY <1>1, HistoryFacts DEF w
            <7> QED BY <1>2, <1>4, <6>1, <7>1
          <6>4. n \in 0..(x - 1)
            BY <1>1
          <6>5. PICK z \in (n + 1)..(x - 1) : Touches(0, s, h.ws[z])
            BY <1>1, <1>2, <1>3, <6>2, <6>3, <6>4, LaterWriter
          <6> QED BY <1>6, <6>1, <6>5
        <5> QED BY <1>2, <1>3, <5>2, <5>3
      <4>2. N = Empty
        BY <1>1, <1>3, <4>1, OutsideNode
      <4> QED BY <3>1, <3>2, <3>4, <4>2 DEF Offers
    <3> QED BY <3>3, <3>4
  <2>3. e < root.size \/ root.size <= e
    BY <1>3, <1>4
  <2> HIDE DEF B, N
  <2> QED BY <2>1, <2>2, <2>3
<1>7. LeftSiblings(d, w) = FillIn(ComputeSiblingVersions(w, e), B)
  BY DEF LeftSiblings, FirstLeaf
<1> HIDE DEF B
<1>8. Like(SearchList(FillIn(ComputeSiblingVersions(w, e), B), o, s), NodeAt(d, h, x, o, s))
  BY <1>4, <1>6, SiblingFound DEF w
<1> QED BY <1>7, <1>8 DEF w

\* And so are the right ones.
LEMMA RightSiblingRight ==
    ASSUME NEW d, NEW h, HistoryOK(h), KeysOK(d), Closed(d, h.base), NEW x \in 1..h.last,
           NEW n, Told(h, x, n), CompleteTo(d, h, n), NEW s \in Levels(SizeAt(h, x)),
           NEW o \in Nat, o % (2 * s) = 0, Touches(o, s, h.ws[x]), ~Touches(o + s, s, h.ws[x])
    PROVE  Like(SearchList(RightSiblings(d, h.ws[x]), o + s, s), NodeAt(d, h, x, o + s, s))
<1> DEFINE w == h.ws[x]
           root == w.stable
           e == w.offset + w.size - 1
           c == o + s
           B == IF Intersects(RootNode(root), LastLeaf(w))
                THEN StableSiblings(d, root, LastLeaf(w).offset, FALSE)
                ELSE {}
           N == NodeAt(d, h, n, c, s)
<1>1. /\ h.last \in Nat /\ x \in Nat \ {0} /\ n \in 0..h.last /\ IsRoot(h, n, root)
      /\ w.offset \in Nat /\ w.size \in Nat \ {0}
      /\ SizeAt(h, x) \in Powers
  BY ToldFacts
<1>2. s \in Powers /\ s \in Nat \ {0} /\ 2 * s \in Powers /\ c \in Nat
  BY <1>1, LevelFacts
<1>3. root.size = SizeAt(h, n) /\ root.size \in Nat /\ (root.size = 0 \/ root.size \in Powers)
  BY <1>1, HistoryFacts DEF IsRoot, SizeAt
<1>4. e \in Nat /\ o <= e /\ e < o + s /\ Aligned(e, 2 * s) = o /\ Brother(Aligned(e, s), s) = c
  BY <1>1, <1>2, Edges
<1>5. Intersects(RootNode(root), LastLeaf(w)) <=> e < root.size
  BY <1>1, <1>3, <1>4 DEF Intersects, RootNode, LastLeaf
<1>6. LastLeaf(w).offset = e
  BY DEF LastLeaf
<1> HIDE DEF w, e
<1>7. Offers(B, c, s, N)
  <2>1. CASE e < root.size /\ s < root.size
    <3>1. B = StableSiblings(d, root, e, FALSE)
      BY <1>5, <1>6, <2>1
    <3>2. root.size \in Powers /\ e \in 0..(root.size - 1)
      BY <1>3, <1>4, <2>1
    <3>3. s \in Levels(root.size)
      BY <1>2, <2>1 DEF Levels
    <3>4. e < o + s /\ (FALSE <=> ~(e < o + s)) /\ c = IF FALSE THEN o ELSE o + s
      BY <1>4
    <3>5. Offers(StableSiblings(d, root, e, FALSE), c, s, NodeAt(d, h, n, c, s))
      BY <1>1, <1>4, <3>2, <3>3, <3>4, StableOffers
    <3> QED BY <3>1, <3>5
  <2>2. CASE e < root.size /\ s >= root.size
    <3>1. B = StableSiblings(d, root, e, FALSE)
      BY <1>5, <1>6, <2>2
    <3>2. \A q \in B : ~AtPlace(q, c, s)
      <4>1. root.size \in Powers /\ e \in 0..(root.size - 1)
        BY <1>3, <1>4, <2>2
      <4>2. Closed(d, root)
        BY <1>1, <4>1, StableWalk
      <4> DEFINE P == Path(d, root, e)
      <4>3. SUFFICES ASSUME NEW r \in Levels(root.size), P[2 * r] \in DOMAIN d,
                            AtPlace([d[P[2 * r]].right EXCEPT !.offset = P[2 * r].offset + r, !.size = r], c, s)
                     PROVE  FALSE
        BY <3>1 DEF StableSiblings
      <4>4. IsNode(d[P[2 * r]].right)
        BY <4>1, <4>2, <4>3, ChildrenOnPaths DEF ClosedAt
      <4> DEFINE q == d[P[2 * r]].right
                 a == P[2 * r].offset + r
      <4>5. [q EXCEPT !.offset = a, !.size = r].size = r
        <5> HIDE DEF q, a
        <5>1. \A i, v, b, t : [KeyAt(i, v, b, t) EXCEPT !.offset = a, !.size = r].size = r
          BY DEF KeyAt
        <5>2. q = KeyAt(q.id, q.version, q.offset, q.size)
          BY <4>4 DEF IsNode, q
        <5> QED BY <5>1, <5>2
      <4>6. r = s
        BY <4>3, <4>5 DEF AtPlace
      <4>7. r < root.size /\ r \in Nat
        BY <4>1, LevelFacts
      <4> QED BY <1>2, <1>3, <2>2, <4>6, <4>7
    <3>3. N = Empty
      BY <1>1, <1>2, <1>3, <2>2, OutsideNode
    <3> QED BY <3>2, <3>3 DEF Offers
  <2>3. CASE root.size <= e
    <3>1. B = {}
      <4>1. ~(e < root.size)
        BY <1>3, <1>4, <2>3
      <4> QED BY <1>5, <4>1
    <3>2. c >= SizeAt(h, n)
      BY <1>2, <1>3, <1>4, <2>3
    <3>3. N = Empty
      BY <1>1, <1>2, <3>2, OutsideNode
    <3> QED BY <3>1, <3>3 DEF Offers
  <2>4. (e < root.size /\ s < root.size) \/ (e < root.size /\ s >= root.size) \/ root.size <= e
    BY <1>2, <1>3, <1>4
  <2> HIDE DEF B, N
  <2> QED BY <2>1, <2>2, <2>3, <2>4
<1>8. RightSiblings(d, w) = FillIn(ComputeSiblingVersions(w, e), B)
  BY <1>6 DEF RightSiblings
<1> HIDE DEF B
<1>9. Like(SearchList(FillIn(ComputeSiblingVersions(w, e), B), c, s), NodeAt(d, h, x, c, s))
  BY <1>2, <1>4, <1>7, SiblingFound DEF w
<1> QED BY <1>8, <1>9 DEF w

\* What a writer needs to have found when it stores its inner nodes.
SiblingsOK(d, h, x, left, right) ==
    \A s \in Levels(SizeAt(h, x)) : \A o \in ParentPlaces(h, x, s) :
        /\ ~Touches(o, s, h.ws[x]) => Like(SearchList(left, o, s), NodeAt(d, h, x, o, s))
        /\ ~Touches(o + s, s, h.ws[x]) => Like(SearchList(right, o + s, s), NodeAt(d, h, x, o + s, s))

\* A range with pages in a place has pages in one of its halves.
LEMMA TouchesHalf ==
    ASSUME NEW h, HistoryOK(h), NEW x \in 1..h.last, NEW s \in Levels(SizeAt(h, x)),
           NEW o \in ParentPlaces(h, x, s)
    PROVE  /\ s \in Nat \ {0} /\ s \in Powers /\ o \in Nat /\ o % (2 * s) = 0
           /\ Touches(o, s, h.ws[x]) \/ Touches(o + s, s, h.ws[x])
<1>1. x \in 0..h.last /\ x # 0
  BY DEF HistoryOK
<1>2. SizeAt(h, x) \in Powers
  BY <1>1, HistoryFacts
<1>3. s \in Nat \ {0} /\ s \in Powers
  BY <1>2, LevelFacts
<1>4. o \in Nat /\ o % (2 * s) = 0 /\ Touches(o, 2 * s, h.ws[x])
  BY DEF ParentPlaces
<1>5. h.ws[x].offset \in Nat /\ h.ws[x].size \in Nat \ {0}
  BY HistoryFacts
<1> QED BY <1>3, <1>4, <1>5 DEF Touches

\* The siblings a writer collects (range_query.cpp, writeRecordLocations) are the right ones
\* on both sides, when every version it was told is finished is stored.
LEMMA Collected ==
    ASSUME NEW d, NEW h, HistoryOK(h), KeysOK(d), Closed(d, h.base), NEW x \in 1..h.last,
           NEW n, Told(h, x, n), CompleteTo(d, h, n)
    PROVE  SiblingsOK(d, h, x, LeftSiblings(d, h.ws[x]), RightSiblings(d, h.ws[x]))
BY TouchesHalf, LeftSiblingRight, RightSiblingRight DEF SiblingsOK

\* The leaves writeRecordLocations stores.
LEMMA LeavesAre ==
    ASSUME NEW h, HistoryOK(h), NEW x \in 1..h.last
    PROVE  LET nodes == Leaves(h.ws[x])
           IN  /\ \A q \in DOMAIN nodes : \E p \in Written(h.ws[x]) : q = KeyAt(h.id, x, p, 1)
               /\ \A p \in Written(h.ws[x]) :
                     /\ KeyAt(h.id, x, p, 1) \in DOMAIN nodes
                     /\ nodes[KeyAt(h.id, x, p, 1)].left = PageKey(h.id, x, p - h.ws[x].offset)
<1> DEFINE w == h.ws[x]
           K == {KeyAt(h.id, x, p, 1) : p \in Written(w)}
<1>1. w.id = h.id /\ w.version = x
  BY DEF HistoryOK, RangeOK
<1>2. {OwnNode(w, p, 1) : p \in Written(w)} = K
  BY <1>1 DEF OwnNode, KeyAt
<1>3. Leaves(w) = [q \in K |-> [is_leaf |-> TRUE, left |-> PageKey(h.id, x, q.offset - w.offset), right |-> Empty]]
  BY <1>1, <1>2 DEF Leaves
<1>4. ASSUME NEW p \in Written(w) PROVE Leaves(w)[KeyAt(h.id, x, p, 1)].left = PageKey(h.id, x, p - w.offset)
  <2>1. KeyAt(h.id, x, p, 1) \in K /\ KeyAt(h.id, x, p, 1).offset = p
    BY DEF KeyAt
  <2> HIDE DEF K, w
  <2> QED BY <1>3, <2>1
<1> QED BY <1>3, <1>4

\* The inner nodes of x: in the right places, and with the right children.
InnerNodesRight(d, h, x, nodes) ==
    /\ \A q \in DOMAIN nodes :
          \E s \in Levels(SizeAt(h, x)) : \E o \in ParentPlaces(h, x, s) : q = KeyAt(h.id, x, o, 2 * s)
    /\ \A s \in Levels(SizeAt(h, x)) : \A o \in ParentPlaces(h, x, s) :
          /\ KeyAt(h.id, x, o, 2 * s) \in DOMAIN nodes
          /\ ChildrenOK(d, h, x, o, s, nodes[KeyAt(h.id, x, o, 2 * s)])

\* The inner nodes it stores.
LEMMA InnerNodesAre ==
    ASSUME NEW d, NEW h, HistoryOK(h), NEW x \in 1..h.last, NEW left, NEW right,
           SiblingsOK(d, h, x, left, right)
    PROVE  InnerNodesRight(d, h, x, InnerNodes(h.ws[x], left, right))
<1> DEFINE w == h.ws[x]
           nodes == InnerNodes(w, left, right)
           Own == {OwnNode(w, Aligned(p, 2 * s), 2 * s) : p \in Written(w), s \in Levels(w.root_size)}
           Mine(offset, size) == Intersects([offset |-> offset, size |-> size], w)
           Child(offset, size, sibs) ==
               IF Mine(offset, size) THEN OwnNode(w, offset, size) ELSE SearchList(sibs, offset, size)
<1>1. /\ w.id = h.id /\ w.version = x /\ w.root_size = SizeAt(h, x) /\ SizeAt(h, x) \in Powers
      /\ w.offset \in Nat /\ w.size \in Nat \ {0} /\ x \in Nat \ {0} /\ h.id # 0
  BY HistoryFacts DEF HistoryOK, RangeOK
<1>2. nodes = [q \in Own |-> [is_leaf |-> FALSE,
                              left |-> Child(q.offset, q.size \div 2, left),
                              right |-> Child(q.offset + (q.size \div 2), q.size \div 2, right)]]
  BY DEF InnerNodes
<1>3. \A a, s : OwnNode(w, a, s) = KeyAt(h.id, x, a, s)
  BY <1>1 DEF OwnNode, KeyAt
<1>4. ASSUME NEW q \in DOMAIN nodes
      PROVE  \E s \in Levels(SizeAt(h, x)) : \E o \in ParentPlaces(h, x, s) : q = KeyAt(h.id, x, o, 2 * s)
  <2>1. PICK p \in Written(w), s \in Levels(w.root_size) : q = OwnNode(w, Aligned(p, 2 * s), 2 * s)
    BY <1>2, <1>4
  <2>2. p \in Nat /\ w.offset <= p /\ p < w.offset + w.size /\ s \in Nat \ {0}
    BY <1>1, LevelFacts DEF Written
  <2>3. Aligned(p, 2 * s) \in ParentPlaces(h, x, s)
    <3>1. /\ Aligned(p, 2 * s) \in Nat /\ Aligned(p, 2 * s) % (2 * s) = 0
          /\ Aligned(p, 2 * s) <= p /\ p < Aligned(p, 2 * s) + 2 * s
      <4>1. 2 * s \in Nat \ {0}
        BY <2>2
      <4> QED BY <2>2, <4>1, AlignedPlace
    <3> QED BY <1>1, <2>2, <3>1 DEF ParentPlaces, Touches
  <2> QED BY <1>1, <1>3, <2>1, <2>3
<1>5. ASSUME NEW s \in Levels(SizeAt(h, x)), NEW o \in ParentPlaces(h, x, s)
      PROVE  KeyAt(h.id, x, o, 2 * s) \in DOMAIN nodes /\ ChildrenOK(d, h, x, o, s, nodes[KeyAt(h.id, x, o, 2 * s)])
  <2> DEFINE q == KeyAt(h.id, x, o, 2 * s)
  <2>1. s \in Nat \ {0} /\ o \in Nat /\ o % (2 * s) = 0 /\ Touches(o, 2 * s, w)
    BY TouchesHalf DEF ParentPlaces
  <2>2. q \in Own
    <3>1. PICK p \in Written(w) : o <= p /\ p < o + 2 * s
      <4>1. CASE o <= w.offset
        BY <1>1, <2>1, <4>1 DEF Touches, Written
      <4>2. CASE w.offset <= o
        BY <1>1, <2>1, <4>2 DEF Touches, Written
      <4> QED BY <1>1, <2>1, <4>1, <4>2
    <3>2. p \in Nat
      BY <1>1 DEF Written
    <3>3. Aligned(p, 2 * s) = o
      BY <2>1, <3>1, <3>2, AlignedIs
    <3> QED BY <1>1, <1>3, <3>3
  <2>3. q.offset = o /\ q.size \div 2 = s
    <3>1. (2 * s) \div 2 = s
      BY <2>1
    <3> QED BY <3>1 DEF KeyAt
  <2> HIDE DEF q, Own
  <2>4. nodes[q].left = Child(o, s, left) /\ nodes[q].right = Child(o + s, s, right)
    BY <1>2, <2>2, <2>3
  <2>5. ASSUME NEW c \in Nat PROVE Mine(c, s) <=> Touches(c, s, w)
    BY <1>1, <2>1 DEF Intersects, Touches
  <2> HIDE DEF Mine, nodes, w
  <2>6. ASSUME NEW c \in Nat, Touches(c, s, w) PROVE Like(OwnNode(w, c, s), NodeAt(d, h, x, c, s))
    <3>1. NodeAt(d, h, x, c, s) = KeyAt(h.id, x, c, s)
      BY <1>1, <2>6, OwnNodeAt DEF w
    <3> QED BY <1>1, <1>3, <3>1 DEF Like, Norm, IsNode, KeyAt
  <2>7. Like(nodes[q].left, NodeAt(d, h, x, o, s))
    BY <2>1, <2>4, <2>5, <2>6 DEF SiblingsOK, w
  <2>8. Like(nodes[q].right, NodeAt(d, h, x, o + s, s))
    <3>1. o + s \in Nat
      BY <2>1
    <3> QED BY <2>4, <2>5, <2>6, <3>1 DEF SiblingsOK, w
  <2>9. q \in DOMAIN nodes
    BY <1>2, <2>2 DEF nodes
  <2> QED BY <2>7, <2>8, <2>9 DEF ChildrenOK, q
<1> HIDE DEF nodes
<1>6. InnerNodesRight(d, h, x, nodes)
  BY <1>4, <1>5 DEF InnerNodesRight
<1> QED BY <1>6 DEF nodes

\* What is right stays right when the DHT and the history grow.
LEMMA TreeStays ==
    ASSUME NEW d, NEW e, DhtGrows(d, e), KeysOK(e), NEW h, NEW g, HistoryOK(h), Before(h, g),
           Closed(d, h.base), NEW x \in 1..h.last
    PROVE  /\ LeavesIn(d, h, x) => LeavesIn(e, g, x)
           /\ InnerIn(d, h, x) => InnerIn(e, g, x)
           /\ \A left, right : SiblingsOK(d, h, x, left, right) => SiblingsOK(e, g, x, left, right)
           /\ \A n : Told(h, x, n) => Told(g, x, n)
           /\ \A s \in Levels(SizeAt(h, x)) : \A o \in ParentPlaces(h, x, s) : \A node :
                 ChildrenOK(d, h, x, o, s, node) => ChildrenOK(e, g, x, o, s, node)
<1>1. /\ g.ws[x] = h.ws[x] /\ g.id = h.id /\ g.base = h.base /\ x \in 0..h.last /\ h.last \in Nat
      /\ SizeAt(g, x) = SizeAt(h, x) /\ x # 0
  BY DEF Before, HistoryOK, SizeAt
<1>2. \A s : ParentPlaces(g, x, s) = ParentPlaces(h, x, s)
  BY <1>1 DEF ParentPlaces
<1>3. ASSUME NEW s \in Levels(SizeAt(h, x)), NEW o \in ParentPlaces(h, x, s)
      PROVE  /\ NodeAt(e, g, x, o, s) = NodeAt(d, h, x, o, s)
             /\ NodeAt(e, g, x, o + s, s) = NodeAt(d, h, x, o + s, s)
  <2>1. s \in Powers /\ o \in Nat /\ o + s \in Nat
    BY TouchesHalf
  <2> QED BY <1>1, <2>1, NodeStays
<1>4. LeavesIn(d, h, x) => LeavesIn(e, g, x)
  BY <1>1 DEF LeavesIn, DhtGrows
<1>5. InnerIn(d, h, x) => InnerIn(e, g, x)
  BY <1>1, <1>2 DEF InnerIn, DhtGrows
<1>6. ASSUME NEW left, NEW right, SiblingsOK(d, h, x, left, right) PROVE SiblingsOK(e, g, x, left, right)
  BY <1>1, <1>2, <1>3, <1>6 DEF SiblingsOK
<1>7. ASSUME NEW n, Told(h, x, n) PROVE Told(g, x, n)
  <2>1. IsRoot(g, n, g.ws[x].stable)
    <3>1. n # 0 => n \in 1..h.last
      BY <1>1, <1>7 DEF Told
    <3> QED BY <1>1, <1>7, <3>1 DEF Told, IsRoot, Before
  <2>2. \A u \in (n + 1)..(x - 1) : u \in 1..h.last
    BY <1>1, <1>7 DEF Told
  <2>3. \A u \in (n + 1)..(x - 1) : g.ws[u] = h.ws[u]
    BY <2>2 DEF Before
  <2> QED BY <1>1, <1>7, <2>1, <2>3 DEF Told
<1>8. ASSUME NEW s \in Levels(SizeAt(h, x)), NEW o \in ParentPlaces(h, x, s), NEW node,
             ChildrenOK(d, h, x, o, s, node)
      PROVE  ChildrenOK(e, g, x, o, s, node)
  BY <1>3, <1>8 DEF ChildrenOK
<1> QED BY <1>4, <1>5, <1>6, <1>7, <1>8

-----------------------------------------------------------------------------
(* The inductive invariant. *)

\* What has been written to blob b.
History(b) ==
    [id |-> b, base |-> obj_hash[b].roots[1], last |-> obj_hash[b].current_ticket - 1,
     ws |-> [x \in 1..(obj_hash[b].current_ticket - 1) |-> writes[<<b, x>>].w]]

\* There is a writer for every ticket given out, and for no other.
Stages == {"leaves", "inner", "publish", "done", "failed"}

IsWrite(r) == r = [pc |-> r.pc, w |-> r.w, left |-> r.left, right |-> r.right] /\ r.pc \in Stages

WritesOK ==
    /\ DOMAIN writes = {t \in Blobs \X (1..MaxTickets) : t[2] < obj_hash[t[1]].current_ticket}
    /\ \A t \in DOMAIN writes : IsWrite(writes[t])

\* A node is stored by the writer it is named after, the leaves in one stage
\* and the inner nodes in the next.
KeysOwned ==
    /\ dht = [q \in DOMAIN dht |-> dht[q]]
    /\ \A q \in DOMAIN dht :
          /\ <<q.id, q.version>> \in DOMAIN writes
          /\ writes[<<q.id, q.version>>].pc # "leaves"
          /\ writes[<<q.id, q.version>>].pc = "inner" => q.size = 1

\* The version manager knows of blob b what its writers were told.
Linked(b) ==
    LET o == obj_hash[b]
        h == History(b)
        size == SizeAt(h, h.last)
    IN  /\ \A k \in 2..Len(o.roots) : IsRoot(h, k - 1, o.roots[k]) /\ writes[<<b, k - 1>>].pc = "done"
        /\ \A u \in DOMAIN o.intervals :
              /\ o.intervals[u].offset = h.ws[u].offset /\ o.intervals[u].size = h.ws[u].size
              /\ o.intervals[u].root.size = h.ws[u].root_size
              /\ o.intervals[u].done => writes[<<b, u>>].pc = "done"
        /\ o.progress_size <= size
        /\ o.max_size = size \/ (size = 0 /\ o.max_size = 1)

\* The tree of writer x of blob b, as far as it has come.
WriterOK(b, x) ==
    LET h == History(b)
        r == writes[<<b, x>>]
    IN  /\ \E n \in 0..(x - 1) : n < Len(obj_hash[b].roots) /\ Told(h, x, n)
        /\ LeavesOK(dht, h, x) /\ InnerOK(dht, h, x)
        /\ r.pc \in {"inner", "publish", "done"} => LeavesIn(dht, h, x)
        /\ r.pc \in {"publish", "done"} => InnerIn(dht, h, x)
        /\ r.pc = "inner" => SiblingsOK(dht, h, x, r.left, r.right)

BlobOK(b) ==
    /\ HistoryOK(History(b)) /\ Closed(dht, History(b).base)
    /\ \A x \in 1..History(b).last : WriterOK(b, x)

StoreInv ==
    /\ Inv /\ RootsFit /\ WritesOK /\ KeysOwned
    /\ \A b \in Blobs : Linked(b) /\ BlobOK(b)

\* What the lemmas below need of a blob.
LEMMA BlobFacts ==
    ASSUME StoreInv, NEW b \in Blobs
    PROVE  LET o == obj_hash[b]
               h == History(b)
           IN  /\ b \in Nat \ {0} /\ IsObjInfo(o) /\ Consecutive(b, o) /\ Fits(o)
               /\ Len(o.roots) \in Nat \ {0} /\ o.current_ticket \in Nat \ {0}
               /\ Len(o.roots) <= o.current_ticket /\ o.current_ticket <= MaxTickets + 1
               /\ DOMAIN o.intervals = Len(o.roots)..(o.current_ticket - 1)
               /\ h.id = b /\ h.base = o.roots[1] /\ h.last = o.current_ticket - 1 /\ h.last \in Nat
               /\ \A x \in 1..h.last : x \in 1..MaxTickets /\ <<b, x>> \in DOMAIN writes /\ h.ws[x] = writes[<<b, x>>].w
               /\ HistoryOK(h) /\ Closed(dht, h.base) /\ Linked(b) /\ \A x \in 1..h.last : WriterOK(b, x)
<1> DEFINE o == obj_hash[b]
           h == History(b)
<1>1. b \in Nat \ {0} /\ IsObjInfo(o) /\ Consecutive(b, o) /\ Fits(o)
  BY DEF StoreInv, Inv, TypeOK, VersionsConsecutive, RootsFit, Blobs
<1>2. /\ Len(o.roots) \in Nat \ {0} /\ o.current_ticket \in Nat \ {0}
      /\ Len(o.roots) <= o.current_ticket /\ o.current_ticket <= MaxTickets + 1
      /\ DOMAIN o.intervals = Len(o.roots)..(o.current_ticket - 1)
  BY <1>1, BoundAssumption DEF IsObjInfo, Consecutive
<1>3. h.id = b /\ h.base = o.roots[1] /\ h.last = o.current_ticket - 1 /\ h.last \in Nat
  BY <1>2 DEF History
<1>4. ASSUME NEW x \in 1..h.last
      PROVE  x \in 1..MaxTickets /\ <<b, x>> \in DOMAIN writes /\ h.ws[x] = writes[<<b, x>>].w
  <2>1. x \in 1..MaxTickets /\ x < o.current_ticket /\ x \in 1..(o.current_ticket - 1)
    BY <1>2, <1>3, BoundAssumption
  <2>2. <<b, x>> \in DOMAIN writes
    BY <2>1 DEF StoreInv, WritesOK
  <2> QED BY <2>1, <2>2 DEF History
<1>5. HistoryOK(h) /\ Closed(dht, h.base) /\ Linked(b) /\ \A x \in 1..h.last : WriterOK(b, x)
  BY DEF StoreInv, BlobOK
<1> HIDE DEF o, h
<1>6. QED BY <1>1, <1>2, <1>3, <1>4, <1>5 DEF o, h

\* And of a writer.
LEMMA WriterFacts ==
    ASSUME StoreInv, NEW b, NEW x, <<b, x>> \in DOMAIN writes
    PROVE  b \in Blobs /\ x \in 1..History(b).last /\ IsWrite(writes[<<b, x>>])
<1>1. b \in Blobs /\ x \in 1..MaxTickets /\ x < obj_hash[b].current_ticket /\ IsWrite(writes[<<b, x>>])
  BY DEF StoreInv, WritesOK
<1>2. obj_hash[b].current_ticket \in Nat /\ History(b).last = obj_hash[b].current_ticket - 1
  BY <1>1, BlobFacts
<1> QED BY <1>1, <1>2

\* The keys in the DHT are those of nodes.
LEMMA StoreKeys ==
    ASSUME StoreInv
    PROVE  KeysOK(dht)
<1> SUFFICES ASSUME NEW q \in DOMAIN dht PROVE q.id # 0
  BY DEF KeysOK
<1>1. <<q.id, q.version>> \in DOMAIN writes
  BY DEF StoreInv, KeysOwned
<1>2. q.id \in Blobs
  BY <1>1, WriterFacts
<1> QED BY <1>2, BlobFacts

\* The published versions are complete.
LEMMA PublishedComplete ==
    ASSUME StoreInv, NEW b \in Blobs, NEW n \in 0..(Len(obj_hash[b].roots) - 1)
    PROVE  n \in 0..History(b).last /\ CompleteTo(dht, History(b), n)
<1> DEFINE h == History(b)
<1>1. /\ Len(obj_hash[b].roots) \in Nat \ {0} /\ Len(obj_hash[b].roots) <= h.last + 1 /\ h.last \in Nat
      /\ Linked(b) /\ \A x \in 1..h.last : WriterOK(b, x)
  BY BlobFacts
<1>2. n \in 0..h.last
  BY <1>1
<1>3. ASSUME NEW x \in 1..n PROVE LeavesOK(dht, h, x) /\ InnerOK(dht, h, x) /\ LeavesIn(dht, h, x) /\ InnerIn(dht, h, x)
  <2>1. x + 1 \in 2..Len(obj_hash[b].roots) /\ (x + 1) - 1 = x /\ x \in 1..h.last
    BY <1>1, <1>2
  <2>2. writes[<<b, x>>].pc = "done"
    BY <1>1, <2>1 DEF Linked
  <2> QED BY <1>1, <2>1, <2>2 DEF WriterOK
<1> QED BY <1>2, <1>3 DEF CompleteTo

\* A root of a version: its number is its place.
LEMMA RootNumbered ==
    ASSUME StoreInv, NEW b \in Blobs, NEW k \in 1..Len(obj_hash[b].roots)
    PROVE  /\ k - 1 \in 0..History(b).last /\ IsRoot(History(b), k - 1, obj_hash[b].roots[k])
           /\ obj_hash[b].roots[k].size = SizeAt(History(b), k - 1)
<1> DEFINE h == History(b)
<1>1. Len(obj_hash[b].roots) \in Nat \ {0} /\ Len(obj_hash[b].roots) <= h.last + 1 /\ h.last \in Nat /\ Linked(b)
      /\ h.base = obj_hash[b].roots[1]
  BY BlobFacts
<1>2. k - 1 \in 0..h.last
  BY <1>1
<1>3. IsRoot(h, k - 1, obj_hash[b].roots[k])
  <2>1. CASE k = 1
    BY <1>1, <2>1 DEF IsRoot
  <2>2. CASE k # 1
    <3>1. k \in 2..Len(obj_hash[b].roots)
      BY <1>1, <2>2
    <3> QED BY <1>1, <3>1 DEF Linked
  <2> QED BY <2>1, <2>2
<1> QED BY <1>2, <1>3 DEF IsRoot, SizeAt

\* What can be reached from a published root is stored.
LEMMA PublishedClosed ==
    ASSUME StoreInv, NEW b \in Blobs, NEW k \in 1..Len(obj_hash[b].roots)
    PROVE  LET root == obj_hash[b].roots[k]
           IN  Closed(dht, root) /\ (root.size = 0 \/ root.size \in Powers)
<1> DEFINE h == History(b)
           root == obj_hash[b].roots[k]
<1>1. Len(obj_hash[b].roots) \in Nat /\ HistoryOK(h) /\ Closed(dht, h.base) /\ KeysOK(dht) /\ h.last \in Nat
  BY BlobFacts, StoreKeys
<1>2. k - 1 \in 0..h.last /\ IsRoot(h, k - 1, root) /\ root.size = SizeAt(h, k - 1)
  BY RootNumbered
<1>3. CompleteTo(dht, h, k - 1)
  <2>1. k - 1 \in 0..(Len(obj_hash[b].roots) - 1)
    BY <1>1
  <2> QED BY <2>1, PublishedComplete
<1>4. root.size = 0 \/ root.size \in Powers
  BY <1>1, <1>2, HistoryFacts
<1>5. Closed(dht, root)
  <2>1. CASE k - 1 = 0
    BY <1>1, <1>2, <2>1 DEF IsRoot
  <2>2. CASE k - 1 # 0
    <3>1. k - 1 \in 1..h.last
      BY <1>1, <1>2, <2>2
    <3> HIDE DEF h, root
    <3> QED BY <1>1, <1>2, <1>3, <3>1, RootClosed
  <2> QED BY <2>1, <2>2
<1> QED BY <1>4, <1>5

-----------------------------------------------------------------------------
(* What a step leaves alone. *)

\* The DHT a step finds is part of the one it leaves.
DhtStep == DhtGrows(dht, dht') /\ KeysOK(dht')

\* A writer whose tree a step adds nothing to, although it may give up, or
\* complete once its inner nodes are stored.
LEMMA WriterStays ==
    ASSUME StoreInv, DhtStep, NEW b \in Blobs, NEW x \in 1..History(b).last,
           Before(History(b), History(b)'),
           Len(obj_hash[b].roots) <= Len(obj_hash'[b].roots), Len(obj_hash'[b].roots) \in Nat,
           \/ writes'[<<b, x>>] = writes[<<b, x>>]
           \/ writes'[<<b, x>>].pc = "failed"
           \/ writes[<<b, x>>].pc = "publish" /\ writes'[<<b, x>>].pc = "done",
           \A q \in DOMAIN dht' : q.id = b /\ q.version = x => q \in DOMAIN dht
    PROVE  WriterOK(b, x)'
<1> DEFINE h == History(b)
           g == History(b)'
           r == writes[<<b, x>>]
           e == dht'
<1>1. /\ HistoryOK(h) /\ Closed(dht, h.base) /\ WriterOK(b, x) /\ h.id = b /\ Len(obj_hash[b].roots) \in Nat
      /\ h.last \in Nat
  BY BlobFacts
<1>2. /\ LeavesIn(dht, h, x) => LeavesIn(e, g, x)
      /\ InnerIn(dht, h, x) => InnerIn(e, g, x)
      /\ \A left, right : SiblingsOK(dht, h, x, left, right) => SiblingsOK(e, g, x, left, right)
      /\ \A n : Told(h, x, n) => Told(g, x, n)
      /\ \A s \in Levels(SizeAt(h, x)) : \A o \in ParentPlaces(h, x, s) : \A node :
            ChildrenOK(dht, h, x, o, s, node) => ChildrenOK(e, g, x, o, s, node)
  <2> HIDE DEF h, g, e
  <2>1. DhtGrows(dht, e) /\ KeysOK(e) /\ Before(h, g) /\ x \in 1..h.last
    BY DEF h, g, e, DhtStep
  <2> QED BY <1>1, <2>1, TreeStays
<1>3. /\ g.ws[x] = h.ws[x] /\ g.id = h.id /\ SizeAt(g, x) = SizeAt(h, x)
      /\ \A s : ParentPlaces(g, x, s) = ParentPlaces(h, x, s)
  <2> HIDE DEF h, g
  <2>1. Before(h, g) /\ x \in 1..h.last /\ x # 0
    BY <1>1 DEF h, g
  <2>2. g.ws[x] = h.ws[x] /\ g.id = h.id
    BY <2>1 DEF Before
  <2> QED BY <2>1, <2>2 DEF SizeAt, ParentPlaces
<1>4. \A o, s : KeyAt(h.id, x, o, s) \in DOMAIN e =>
                   KeyAt(h.id, x, o, s) \in DOMAIN dht /\ e[KeyAt(h.id, x, o, s)] = dht[KeyAt(h.id, x, o, s)]
  <2> SUFFICES ASSUME NEW o, NEW s, KeyAt(h.id, x, o, s) \in DOMAIN e
               PROVE  KeyAt(h.id, x, o, s) \in DOMAIN dht /\ e[KeyAt(h.id, x, o, s)] = dht[KeyAt(h.id, x, o, s)]
    OBVIOUS
  <2> DEFINE q == KeyAt(h.id, x, o, s)
  <2>1. q.id = b /\ q.version = x
    BY <1>1 DEF KeyAt
  <2> HIDE DEF q, h
  <2>2. q \in DOMAIN dht
    BY <2>1 DEF q
  <2> QED BY <2>2 DEF DhtStep, DhtGrows, q
<1> HIDE DEF h, g, e
<1>5. LeavesOK(e, g, x)
  BY <1>1, <1>3, <1>4 DEF WriterOK, LeavesOK, h
<1>6. InnerOK(e, g, x)
  <2>1. InnerOK(dht, h, x)
    BY <1>1 DEF WriterOK, h
  <2> QED BY <1>2, <1>3, <1>4, <2>1 DEF InnerOK
<1>7. \E n \in 0..(x - 1) : n < Len(obj_hash'[b].roots) /\ Told(g, x, n)
  <2>1. PICK n \in 0..(x - 1) : n < Len(obj_hash[b].roots) /\ Told(h, x, n)
    BY <1>1 DEF WriterOK, h
  <2>2. n < Len(obj_hash'[b].roots)
    BY <1>1, <2>1
  <2> QED BY <1>2, <2>1, <2>2
<1>8. /\ r.pc \in {"inner", "publish", "done"} => LeavesIn(e, g, x)
      /\ r.pc \in {"publish", "done"} => InnerIn(e, g, x)
      /\ r.pc = "inner" => SiblingsOK(e, g, x, r.left, r.right)
  BY <1>1, <1>2 DEF WriterOK, h
<1> HIDE DEF r
<1>9. LET t == writes'[<<b, x>>]
      IN  /\ t.pc \in {"inner", "publish", "done"} => LeavesIn(e, g, x)
          /\ t.pc \in {"publish", "done"} => InnerIn(e, g, x)
          /\ t.pc = "inner" => SiblingsOK(e, g, x, t.left, t.right)
  <2>1. CASE writes'[<<b, x>>] = r
    BY <1>8, <2>1
  <2>2. CASE writes'[<<b, x>>].pc = "failed"
    BY <2>2
  <2>3. CASE r.pc = "publish" /\ writes'[<<b, x>>].pc = "done"
    BY <1>8, <2>3
  <2> QED BY <2>1, <2>2, <2>3 DEF r
<1> QED BY <1>5, <1>6, <1>7, <1>9 DEF WriterOK, e, g

\* A blob a step does nothing to.
LEMMA BlobStays ==
    ASSUME StoreInv, DhtStep, NEW b \in Blobs, obj_hash'[b] = obj_hash[b],
           \A x : <<b, x>> \in DOMAIN writes => writes'[<<b, x>>] = writes[<<b, x>>],
           \A q \in DOMAIN dht' : q.id = b => q \in DOMAIN dht
    PROVE  Linked(b)' /\ BlobOK(b)'
<1>1. /\ HistoryOK(History(b)) /\ Closed(dht, History(b).base) /\ Linked(b) /\ History(b).last \in Nat
      /\ Len(obj_hash[b].roots) \in Nat \ {0} /\ Len(obj_hash[b].roots) <= obj_hash[b].current_ticket
      /\ obj_hash[b].current_ticket \in Nat
      /\ DOMAIN obj_hash[b].intervals = Len(obj_hash[b].roots)..(obj_hash[b].current_ticket - 1)
      /\ History(b).last = obj_hash[b].current_ticket - 1
      /\ \A x \in 1..History(b).last : <<b, x>> \in DOMAIN writes
  BY BlobFacts
<1>2. \A x \in 1..History(b).last : writes'[<<b, x>>] = writes[<<b, x>>]
  BY <1>1
<1>3. History(b)' = History(b)
  <2>1. \A x \in 1..(obj_hash[b].current_ticket - 1) : writes'[<<b, x>>] = writes[<<b, x>>]
    BY <1>1, <1>2
  <2> QED BY <2>1 DEF History
<1>4. Linked(b)'
  <2>1. \A k \in 2..Len(obj_hash[b].roots) : k - 1 \in 1..History(b).last
    BY <1>1
  <2>2. \A u \in DOMAIN obj_hash[b].intervals : u \in 1..History(b).last
    BY <1>1
  <2> QED BY <1>1, <1>2, <1>3, <2>1, <2>2 DEF Linked
<1>5. Closed(dht', History(b).base)
  <2>1. History(b).base.size = 0 \/ History(b).base.size \in Powers
    BY <1>1 DEF HistoryOK
  <2>2. DhtGrows(dht, dht') /\ KeysOK(dht')
    BY DEF DhtStep
  <2> QED BY <1>1, <2>1, <2>2, ClosedGrows
<1>6. Before(History(b), History(b)')
  BY <1>1, <1>3 DEF Before
<1>7. ASSUME NEW x \in 1..History(b).last PROVE WriterOK(b, x)'
  <2>1. Len(obj_hash[b].roots) <= Len(obj_hash'[b].roots) /\ Len(obj_hash'[b].roots) \in Nat
    BY <1>1
  <2> QED BY <1>2, <1>6, <2>1, WriterStays
<1> QED BY <1>1, <1>3, <1>4, <1>5, <1>7 DEF BlobOK

-----------------------------------------------------------------------------
(* A writer stores nodes. *)

\* The next stage of a writer.
LEMMA NextStage ==
    ASSUME NEW r, IsWrite(r), NEW p \in Stages
    PROVE  LET t == [r EXCEPT !.pc = p]
           IN  IsWrite(t) /\ t.pc = p /\ t.w = r.w /\ t.left = r.left /\ t.right = r.right
BY DEF IsWrite

\* A writer stores some of its nodes, none of them stored before.
Stores(b, x, r, nodes) ==
    /\ UNCHANGED vars /\ <<b, x>> \in DOMAIN writes
    /\ IsWrite(r) /\ r.w = writes[<<b, x>>].w /\ writes' = [writes EXCEPT ![<<b, x>>] = r]
    /\ writes[<<b, x>>].pc # "done" /\ r.pc # "leaves" /\ (r.pc = "inner" => writes[<<b, x>>].pc = "leaves")
    /\ Put(nodes)
    /\ \A q \in DOMAIN nodes : q.id = b /\ q.version = x /\ q \notin DOMAIN dht /\ (r.pc = "inner" => q.size = 1)

\* The DHT then holds them and what it held before.
Stored(b, x, nodes) ==
    /\ DhtStep /\ History(b)' = History(b)
    /\ \A q \in DOMAIN nodes : q \in DOMAIN dht' /\ dht'[q] = nodes[q]
    /\ \A q \in DOMAIN dht' : q \in DOMAIN dht \/ q \in DOMAIN nodes

\* In such a step all other writers are left alone.
LEMMA TreeStep ==
    ASSUME StoreInv, NEW b, NEW x, NEW r, NEW nodes, Stores(b, x, r, nodes)
    PROVE  Stored(b, x, nodes) /\ (WriterOK(b, x)' => StoreInv')
<1> USE DEF Stores
<1>1. b \in Blobs /\ x \in 1..History(b).last /\ KeysOK(dht) /\ b # 0
  BY WriterFacts, StoreKeys, BlobFacts
<1>2. /\ DOMAIN dht' = DOMAIN dht \cup DOMAIN nodes
      /\ \A q \in DOMAIN dht : dht'[q] = dht[q]
      /\ \A q \in DOMAIN nodes : dht'[q] = nodes[q]
  BY DEF Put
<1>3. DhtStep
  BY <1>1, <1>2 DEF DhtStep, DhtGrows, KeysOK
<1>4. obj_hash' = obj_hash /\ obj_count' = obj_count /\ spinning' = spinning /\ Blobs' = Blobs
  BY DEF vars, Blobs
<1>5. /\ DOMAIN writes' = DOMAIN writes /\ writes'[<<b, x>>] = r
      /\ \A t \in DOMAIN writes : t # <<b, x>> => writes'[t] = writes[t]
  OBVIOUS
<1>6. History(b)' = History(b)
  <2>1. ASSUME NEW y \in 1..(obj_hash[b].current_ticket - 1) PROVE writes'[<<b, y>>].w = writes[<<b, y>>].w
    <3>1. <<b, y>> \in DOMAIN writes
      BY <1>1, BlobFacts
    <3>2. CASE y = x
      BY <1>5, <3>2
    <3>3. CASE y # x
      BY <1>5, <3>1, <3>3
    <3> QED BY <3>2, <3>3
  <2> QED BY <1>4, <2>1 DEF History
<1>7. ASSUME WriterOK(b, x)' PROVE StoreInv'
  <2>1. Inv' /\ RootsFit'
    BY <1>4, NextInv, NextFits DEF StoreInv
  <2>2. WritesOK'
    <3>1. DOMAIN writes' = {t \in Blobs' \X (1..MaxTickets) : t[2] < obj_hash'[t[1]].current_ticket}
      BY <1>4, <1>5 DEF StoreInv, WritesOK
    <3>2. \A t \in DOMAIN writes' : IsWrite(writes'[t])
      BY <1>5 DEF StoreInv, WritesOK
    <3> QED BY <3>1, <3>2 DEF WritesOK, IsWrite
  <2>3. KeysOwned'
    <3>1. SUFFICES ASSUME NEW q \in DOMAIN dht'
                   PROVE  /\ <<q.id, q.version>> \in DOMAIN writes'
                          /\ writes'[<<q.id, q.version>>].pc # "leaves"
                          /\ writes'[<<q.id, q.version>>].pc = "inner" => q.size = 1
      <4>1. dht' = [q \in DOMAIN dht' |-> dht'[q]]
        BY DEF Put
      <4> QED BY <4>1 DEF KeysOwned
    <3>2. CASE q \in DOMAIN nodes
      BY <1>5, <3>2
    <3>3. CASE q \in DOMAIN dht
      <4>1. /\ <<q.id, q.version>> \in DOMAIN writes
            /\ writes[<<q.id, q.version>>].pc # "leaves"
            /\ writes[<<q.id, q.version>>].pc = "inner" => q.size = 1
        BY <3>3 DEF StoreInv, KeysOwned
      <4>2. CASE <<q.id, q.version>> = <<b, x>>
        BY <1>5, <4>1, <4>2
      <4>3. CASE <<q.id, q.version>> # <<b, x>>
        BY <1>5, <4>1, <4>3
      <4> QED BY <4>2, <4>3
    <3> QED BY <1>2, <3>2, <3>3
  <2>4. ASSUME NEW c \in Blobs, c # b PROVE Linked(c)' /\ BlobOK(c)'
    <3>1. obj_hash'[c] = obj_hash[c] /\ \A y : <<c, y>> \in DOMAIN writes => writes'[<<c, y>>] = writes[<<c, y>>]
      BY <1>4, <1>5, <2>4
    <3>2. \A q \in DOMAIN dht' : q.id = c => q \in DOMAIN dht
      BY <1>2, <2>4
    <3> QED BY <1>3, <3>1, <3>2, BlobStays
  <2>5. /\ HistoryOK(History(b)) /\ Closed(dht, History(b).base) /\ Linked(b) /\ History(b).last \in Nat
        /\ Len(obj_hash[b].roots) \in Nat \ {0} /\ Len(obj_hash[b].roots) <= obj_hash[b].current_ticket
        /\ obj_hash[b].current_ticket \in Nat
        /\ DOMAIN obj_hash[b].intervals = Len(obj_hash[b].roots)..(obj_hash[b].current_ticket - 1)
        /\ History(b).last = obj_hash[b].current_ticket - 1
        /\ \A y \in 1..History(b).last : <<b, y>> \in DOMAIN writes
    BY <1>1, BlobFacts
  <2>6. Linked(b)'
    <3>1. ASSUME NEW y \in 1..History(b).last, writes[<<b, y>>].pc = "done" PROVE writes'[<<b, y>>].pc = "done"
      <4>1. <<b, y>> # <<b, x>> /\ <<b, y>> \in DOMAIN writes
        BY <2>5, <3>1
      <4> QED BY <1>5, <3>1, <4>1
    <3>2. \A k \in 2..Len(obj_hash[b].roots) : k - 1 \in 1..History(b).last
      BY <2>5
    <3>3. \A u \in DOMAIN obj_hash[b].intervals : u \in 1..History(b).last
      BY <2>5
    <3> QED BY <1>4, <1>6, <2>5, <3>1, <3>2, <3>3 DEF Linked
  <2>7. BlobOK(b)'
    <3>1. Closed(dht', History(b).base)
      <4>1. History(b).base.size = 0 \/ History(b).base.size \in Powers
        BY <2>5 DEF HistoryOK
      <4>2. DhtGrows(dht, dht') /\ KeysOK(dht')
        BY <1>3 DEF DhtStep
      <4> QED BY <2>5, <4>1, <4>2, ClosedGrows
    <3>2. ASSUME NEW y \in 1..History(b).last, y # x PROVE WriterOK(b, y)'
      <4>1. writes'[<<b, y>>] = writes[<<b, y>>]
        <5>1. <<b, y>> # <<b, x>> /\ <<b, y>> \in DOMAIN writes
          BY <2>5, <3>2
        <5> QED BY <1>5, <5>1
      <4>2. Before(History(b), History(b)')
        BY <1>6, <2>5 DEF Before
      <4>3. Len(obj_hash[b].roots) <= Len(obj_hash'[b].roots) /\ Len(obj_hash'[b].roots) \in Nat
        BY <1>4, <2>5
      <4>4. \A q \in DOMAIN dht' : q.id = b /\ q.version = y => q \in DOMAIN dht
        BY <1>2, <3>2
      <4> QED BY <1>1, <1>3, <4>1, <4>2, <4>3, <4>4, WriterStays
    <3> QED BY <1>6, <1>7, <2>5, <3>1, <3>2 DEF BlobOK
  <2> QED BY <1>4, <2>1, <2>2, <2>3, <2>4, <2>6, <2>7 DEF StoreInv
<1> QED BY <1>2, <1>3, <1>6, <1>7 DEF Stored

\* The nodes a writer stores are its own, and new.
LEMMA NewLeaves ==
    ASSUME StoreInv, NEW b, NEW x, At(b, x, "leaves")
    PROVE  LET w == writes[<<b, x>>].w
           IN  /\ w = History(b).ws[x]
               /\ \A q \in DOMAIN Leaves(w) : q.id = b /\ q.version = x /\ q.size = 1
               /\ \A q \in DOMAIN dht : ~(q.id = b /\ q.version = x)
<1> DEFINE w == writes[<<b, x>>].w
<1>1. <<b, x>> \in DOMAIN writes /\ writes[<<b, x>>].pc = "leaves"
  BY DEF At
<1>2. b \in Blobs /\ x \in 1..History(b).last
  BY <1>1, WriterFacts
<1>3. w = History(b).ws[x] /\ HistoryOK(History(b)) /\ History(b).id = b
  BY <1>2, BlobFacts
<1>4. \A q \in DOMAIN Leaves(w) : \E p \in Written(w) : q = KeyAt(b, x, p, 1)
  <2> DEFINE h == History(b)
  <2>1. HistoryOK(h) /\ x \in 1..h.last
    BY <1>2, <1>3
  <2>2. w = h.ws[x] /\ h.id = b
    BY <1>3
  <2> HIDE DEF h, w
  <2>3. \A q \in DOMAIN Leaves(h.ws[x]) : \E p \in Written(h.ws[x]) : q = KeyAt(h.id, x, p, 1)
    BY <2>1, LeavesAre
  <2> QED BY <2>2, <2>3
<1>5. \A q \in DOMAIN Leaves(w) : q.id = b /\ q.version = x /\ q.size = 1
  BY <1>4 DEF KeyAt
<1>6. \A q \in DOMAIN dht : ~(q.id = b /\ q.version = x)
  BY <1>1 DEF StoreInv, KeysOwned
<1> QED BY <1>3, <1>5, <1>6

\* What is in the DHT once some leaves of x are stored.
LEMMA LeavesPut ==
    ASSUME StoreInv, NEW b, NEW x, At(b, x, "leaves"),
           NEW nodes, DhtGrows(nodes, Leaves(writes[<<b, x>>].w)),
           NEW e, \A q \in DOMAIN e : q \in DOMAIN dht \/ q \in DOMAIN nodes, \A q \in DOMAIN nodes : e[q] = nodes[q]
    PROVE  LeavesOK(e, History(b), x) /\ InnerOK(e, History(b), x)
<1> DEFINE h == History(b)
           w == h.ws[x]
<1>1. /\ \A q \in DOMAIN Leaves(w) : q.id = b /\ q.version = x /\ q.size = 1
      /\ \A q \in DOMAIN dht : ~(q.id = b /\ q.version = x)
      /\ DhtGrows(nodes, Leaves(w))
  BY NewLeaves
<1>2. b \in Blobs /\ x \in 1..h.last
  BY WriterFacts DEF At
<1>3. HistoryOK(h) /\ h.id = b
  BY <1>2, BlobFacts
<1>4. \A p \in Written(w) : Leaves(w)[KeyAt(b, x, p, 1)].left = PageKey(b, x, p - w.offset)
  BY <1>2, <1>3, LeavesAre
<1>5. \A o, s : KeyAt(b, x, o, s) \in DOMAIN e =>
                   KeyAt(b, x, o, s) \in DOMAIN nodes /\ s = 1
                   /\ e[KeyAt(b, x, o, s)] = Leaves(w)[KeyAt(b, x, o, s)]
  <2>1. SUFFICES ASSUME NEW o, NEW s, KeyAt(b, x, o, s) \in DOMAIN e
                 PROVE  /\ KeyAt(b, x, o, s) \in DOMAIN nodes /\ s = 1
                        /\ e[KeyAt(b, x, o, s)] = Leaves(w)[KeyAt(b, x, o, s)]
    OBVIOUS
  <2> DEFINE q == KeyAt(b, x, o, s)
  <2>2. q.id = b /\ q.version = x /\ q.size = s
    BY DEF KeyAt
  <2> HIDE DEF q, w
  <2>3. q \in DOMAIN nodes
    BY <1>1, <2>1, <2>2 DEF q
  <2>4. q \in DOMAIN Leaves(w) /\ nodes[q] = Leaves(w)[q]
    BY <1>1, <2>3 DEF DhtGrows
  <2>5. e[q] = Leaves(w)[q] /\ s = 1
    BY <1>1, <2>2, <2>3, <2>4
  <2> QED BY <2>3, <2>5 DEF q
<1> HIDE DEF h
<1>6. LeavesOK(e, h, x)
  BY <1>3, <1>4, <1>5 DEF LeavesOK
<1>7. InnerOK(e, h, x)
  <2>1. SUFFICES ASSUME NEW s \in Levels(SizeAt(h, x)), NEW o \in ParentPlaces(h, x, s),
                        KeyAt(b, x, o, 2 * s) \in DOMAIN e
                 PROVE  FALSE
    BY <1>3 DEF InnerOK
  <2>2. s \in Nat \ {0}
    BY <1>2, <1>3, TouchesHalf
  <2>3. 2 * s = 1
    BY <1>5, <2>1
  <2> QED BY <2>2, <2>3
<1> QED BY <1>6, <1>7 DEF h

\* The leaves are stored and the siblings collected.
LEMMA PutLeavesInv ==
    ASSUME StoreInv, LostGets = FALSE, NEW b, NEW x, PutLeaves(b, x)
    PROVE  StoreInv' /\ DhtStep
<1> DEFINE h == History(b)
           w == writes[<<b, x>>].w
           r == [pc |-> "inner", w |-> w, left |-> LeftSiblings(dht, w), right |-> RightSiblings(dht, w)]
<1>1. At(b, x, "leaves") /\ <<b, x>> \in DOMAIN writes /\ writes[<<b, x>>].pc = "leaves" /\ Put(Leaves(w)) /\ UNCHANGED vars
  BY DEF PutLeaves, At
<1>2. Only(dht, DOMAIN dht \ {}) = dht
  BY DEF StoreInv, KeysOwned, Only
<1>3. writes' = [writes EXCEPT ![<<b, x>>] = r]
  <2>1. PICK lost \in {{}} \cup (IF LostGets THEN {{q} : q \in DOMAIN dht} ELSE {}) :
           LET view == Only(dht, DOMAIN dht \ lost)
           IN  writes' = [writes EXCEPT ![<<b, x>>] =
                             [pc |-> "inner", w |-> w,
                              left |-> LeftSiblings(view, w), right |-> RightSiblings(view, w)]]
    BY DEF PutLeaves
  <2>2. lost = {}
    BY <2>1
  <2> QED BY <1>2, <2>1, <2>2
<1>4. IsWrite(r) /\ r.pc = "inner" /\ r.w = w /\ r.left = LeftSiblings(dht, w) /\ r.right = RightSiblings(dht, w)
  BY DEF IsWrite, Stages
<1>5. b \in Blobs /\ x \in 1..h.last
  BY <1>1, WriterFacts
<1>6. /\ w = h.ws[x]
      /\ \A q \in DOMAIN Leaves(w) : q.id = b /\ q.version = x /\ q.size = 1
      /\ \A q \in DOMAIN dht : ~(q.id = b /\ q.version = x)
  BY <1>1, NewLeaves
<1>7. /\ HistoryOK(h) /\ Closed(dht, h.base) /\ WriterOK(b, x) /\ KeysOK(dht) /\ h.id = b
      /\ Len(obj_hash[b].roots) \in Nat
  BY <1>5, BlobFacts, StoreKeys
<1> HIDE DEF r
<1>8. /\ DhtStep /\ History(b)' = h
      /\ \A q \in DOMAIN Leaves(w) : q \in DOMAIN dht' /\ dht'[q] = Leaves(w)[q]
      /\ \A q \in DOMAIN dht' : q \in DOMAIN dht \/ q \in DOMAIN Leaves(w)
      /\ WriterOK(b, x)' => StoreInv'
  <2>1. \A q \in DOMAIN Leaves(w) : q.id = b /\ q.version = x /\ q \notin DOMAIN dht /\ (r.pc = "inner" => q.size = 1)
    BY <1>6
  <2>2. Stores(b, x, r, Leaves(w))
    BY <1>1, <1>3, <1>4, <2>1 DEF Stores
  <2>3. Stored(b, x, Leaves(w)) /\ (WriterOK(b, x)' => StoreInv')
    BY <2>2, TreeStep
  <2> QED BY <2>3 DEF Stored
<1>9. PICK n \in 0..(x - 1) : n < Len(obj_hash[b].roots) /\ Told(h, x, n)
  BY <1>7 DEF WriterOK
<1>10. SiblingsOK(dht, h, x, r.left, r.right)
  <2>1. n \in 0..(Len(obj_hash[b].roots) - 1)
    BY <1>7, <1>9
  <2>2. CompleteTo(dht, h, n)
    BY <1>5, <2>1, PublishedComplete
  <2> HIDE DEF h
  <2> QED BY <1>4, <1>5, <1>6, <1>7, <1>9, <2>2, Collected
<1>11. SiblingsOK(dht', h, x, r.left, r.right)
  <2>1. DhtGrows(dht, dht') /\ KeysOK(dht')
    BY <1>8 DEF DhtStep
  <2>2. Before(h, h)
    BY <1>5, BlobFacts DEF Before
  <2> HIDE DEF h
  <2> QED BY <1>5, <1>7, <1>10, <2>1, <2>2, TreeStays
<1>12. LeavesOK(dht', h, x) /\ InnerOK(dht', h, x)
  <2>1. DhtGrows(Leaves(w), Leaves(w))
    BY DEF DhtGrows
  <2> QED BY <1>1, <1>8, <2>1, LeavesPut
<1>13. LeavesIn(dht', h, x)
  <2>1. \A p \in Written(h.ws[x]) : KeyAt(h.id, x, p, 1) \in DOMAIN Leaves(w)
    BY <1>5, <1>6, <1>7, LeavesAre
  <2> QED BY <1>8, <2>1 DEF LeavesIn
<1>14. writes'[<<b, x>>] = r /\ obj_hash' = obj_hash
  BY <1>1, <1>3 DEF vars
<1> HIDE DEF h, w
<1>15. WriterOK(b, x)'
  BY <1>4, <1>8, <1>9, <1>11, <1>12, <1>13, <1>14 DEF WriterOK
<1> QED BY <1>8, <1>15

\* The inner nodes a writer stores are its own, and new.
LEMMA NewInnerNodes ==
    ASSUME StoreInv, NEW b, NEW x, At(b, x, "inner")
    PROVE  LET r == writes[<<b, x>>]
               nodes == InnerNodes(r.w, r.left, r.right)
           IN  /\ r.w = History(b).ws[x]
               /\ \A q \in DOMAIN nodes : q.id = b /\ q.version = x /\ q.size # 1 /\ q \notin DOMAIN dht
               /\ \A q \in DOMAIN dht : q.id = b /\ q.version = x => q.size = 1
<1> DEFINE h == History(b)
           r == writes[<<b, x>>]
           nodes == InnerNodes(r.w, r.left, r.right)
<1>1. <<b, x>> \in DOMAIN writes /\ r.pc = "inner"
  BY DEF At
<1>2. b \in Blobs /\ x \in 1..h.last
  BY <1>1, WriterFacts
<1>3. r.w = h.ws[x] /\ HistoryOK(h) /\ h.id = b /\ SiblingsOK(dht, h, x, r.left, r.right)
  BY <1>1, <1>2, BlobFacts DEF WriterOK
<1>4. \A q \in DOMAIN dht : q.id = b /\ q.version = x => q.size = 1
  BY <1>1 DEF StoreInv, KeysOwned
<1>5. \A q \in DOMAIN nodes :
         \E s \in Levels(SizeAt(h, x)) : \E o \in ParentPlaces(h, x, s) : q = KeyAt(h.id, x, o, 2 * s)
  <2>1. nodes = InnerNodes(h.ws[x], r.left, r.right)
    BY <1>3
  <2> HIDE DEF h, r, nodes
  <2>2. \A q \in DOMAIN InnerNodes(h.ws[x], r.left, r.right) :
           \E s \in Levels(SizeAt(h, x)) : \E o \in ParentPlaces(h, x, s) : q = KeyAt(h.id, x, o, 2 * s)
    <3>1. InnerNodesRight(dht, h, x, InnerNodes(h.ws[x], r.left, r.right))
      BY <1>2, <1>3, InnerNodesAre
    <3> QED BY <3>1 DEF InnerNodesRight
  <2> QED BY <2>1, <2>2
<1> HIDE DEF h, nodes, r
<1>6. ASSUME NEW q \in DOMAIN nodes PROVE q.id = b /\ q.version = x /\ q.size # 1
  <2>0. PICK s \in Levels(SizeAt(h, x)) : \E o \in ParentPlaces(h, x, s) : q = KeyAt(h.id, x, o, 2 * s)
    BY <1>5
  <2>1. PICK o \in ParentPlaces(h, x, s) : q = KeyAt(h.id, x, o, 2 * s)
    BY <2>0
  <2>2. s \in Nat \ {0}
    BY <1>2, <1>3, TouchesHalf
  <2>3. 2 * s # 1
    BY <2>2
  <2> QED BY <1>3, <2>1, <2>3 DEF KeyAt
<1>7. \A q \in DOMAIN nodes : q \notin DOMAIN dht
  BY <1>4, <1>6
<1> QED BY <1>3, <1>4, <1>6, <1>7 DEF h, nodes, r

\* What is in the DHT once some inner nodes of x are stored.
LEMMA InnerNodesPut ==
    ASSUME StoreInv, NEW b, NEW x, At(b, x, "inner"),
           NEW nodes, DhtGrows(nodes, InnerNodes(writes[<<b, x>>].w, writes[<<b, x>>].left, writes[<<b, x>>].right)),
           DhtStep,
           \A q \in DOMAIN dht' : q \in DOMAIN dht \/ q \in DOMAIN nodes, \A q \in DOMAIN nodes : dht'[q] = nodes[q]
    PROVE  LeavesOK(dht', History(b), x) /\ InnerOK(dht', History(b), x)
<1> DEFINE h == History(b)
           r == writes[<<b, x>>]
           all == InnerNodes(h.ws[x], r.left, r.right)
           e == dht'
<1>1. r.w = h.ws[x] /\ (\A q \in DOMAIN all : q.size # 1) /\ \A q \in DOMAIN dht : q.id = b /\ q.version = x => q.size = 1
  BY NewInnerNodes
<1>2. b \in Blobs /\ x \in 1..h.last
  BY WriterFacts DEF At
<1>3. /\ HistoryOK(h) /\ h.id = b /\ SiblingsOK(dht, h, x, r.left, r.right) /\ LeavesOK(dht, h, x)
      /\ Closed(dht, h.base) /\ Before(h, h)
  <2>1. r.pc = "inner"
    BY DEF At
  <2> QED BY <1>2, <2>1, BlobFacts DEF WriterOK, Before
<1>4. DhtGrows(nodes, all) /\ DhtGrows(dht, e) /\ KeysOK(e)
  BY <1>1 DEF DhtStep
<1> HIDE DEF h, r, e, all
<1>5. \A s \in Levels(SizeAt(h, x)) : \A o \in ParentPlaces(h, x, s) :
         ChildrenOK(dht, h, x, o, s, all[KeyAt(h.id, x, o, 2 * s)])
  <2>1. InnerNodesRight(dht, h, x, all)
    BY <1>2, <1>3, InnerNodesAre DEF all
  <2> QED BY <2>1 DEF InnerNodesRight
<1>6. LeavesOK(e, h, x)
  <2>1. SUFFICES ASSUME NEW p \in Written(h.ws[x]), KeyAt(h.id, x, p, 1) \in DOMAIN e
                 PROVE  e[KeyAt(h.id, x, p, 1)].left = PageKey(h.id, x, p - h.ws[x].offset)
    BY DEF LeavesOK
  <2> DEFINE q == KeyAt(h.id, x, p, 1)
  <2>2. q.size = 1
    BY DEF KeyAt
  <2> HIDE DEF q
  <2>3. q \in DOMAIN dht
    BY <1>1, <1>4, <2>1, <2>2 DEF q, e, DhtGrows
  <2> QED BY <1>3, <1>4, <2>3 DEF LeavesOK, DhtGrows, q
<1>7. InnerOK(e, h, x)
  <2>1. SUFFICES ASSUME NEW s \in Levels(SizeAt(h, x)), NEW o \in ParentPlaces(h, x, s),
                        KeyAt(h.id, x, o, 2 * s) \in DOMAIN e
                 PROVE  ChildrenOK(e, h, x, o, s, e[KeyAt(h.id, x, o, 2 * s)])
    BY DEF InnerOK
  <2> DEFINE q == KeyAt(h.id, x, o, 2 * s)
  <2>2. s \in Nat \ {0}
    BY <1>2, <1>3, TouchesHalf
  <2>3. q.id = b /\ q.version = x /\ q.size # 1
    BY <1>3, <2>2 DEF KeyAt
  <2> HIDE DEF q
  <2>4. q \in DOMAIN nodes
    BY <1>1, <2>1, <2>3 DEF q, e
  <2>5. e[q] = all[q]
    BY <1>4, <2>4 DEF DhtGrows, e
  <2>6. ChildrenOK(dht, h, x, o, s, all[q])
    BY <1>5 DEF q
  <2> QED BY <1>2, <1>3, <1>4, <2>5, <2>6, TreeStays DEF q
<1> QED BY <1>6, <1>7 DEF h, e

\* The inner nodes are stored.
LEMMA PutInnerNodesInv ==
    ASSUME StoreInv, NEW b, NEW x, PutInnerNodes(b, x)
    PROVE  StoreInv' /\ DhtStep
<1> DEFINE h == History(b)
           old == writes[<<b, x>>]
           r == [old EXCEPT !.pc = "publish"]
           nodes == InnerNodes(old.w, old.left, old.right)
<1>1. At(b, x, "inner") /\ <<b, x>> \in DOMAIN writes /\ old.pc = "inner" /\ Put(nodes) /\ UNCHANGED vars
  BY DEF PutInnerNodes, At
<1>2. b \in Blobs /\ x \in 1..h.last /\ IsWrite(old)
  BY <1>1, WriterFacts
<1>3. writes' = [writes EXCEPT ![<<b, x>>] = r]
  BY DEF PutInnerNodes
<1>4. IsWrite(r) /\ r.pc = "publish" /\ r.w = old.w
  <2>1. "publish" \in Stages
    BY DEF Stages
  <2> HIDE DEF old
  <2> QED BY <1>2, <2>1, NextStage
<1>5. /\ old.w = h.ws[x]
      /\ \A q \in DOMAIN nodes : q.id = b /\ q.version = x /\ q.size # 1 /\ q \notin DOMAIN dht
  BY <1>1, NewInnerNodes
<1>6. HistoryOK(h) /\ Closed(dht, h.base) /\ WriterOK(b, x) /\ h.last \in Nat /\ Before(h, h)
  BY <1>2, BlobFacts DEF Before
<1>7. writes'[<<b, x>>] = r /\ obj_hash' = obj_hash
  BY <1>1, <1>3 DEF vars
<1> HIDE DEF r, nodes
<1>8. Stored(b, x, nodes) /\ (WriterOK(b, x)' => StoreInv')
  <2>1. Stores(b, x, r, nodes)
    BY <1>1, <1>3, <1>4, <1>5 DEF Stores
  <2> QED BY <2>1, TreeStep
<1>9. LeavesOK(dht', h, x) /\ InnerOK(dht', h, x)
  <2>1. DhtGrows(nodes, nodes)
    BY DEF DhtGrows
  <2> QED BY <1>1, <1>8, <2>1, InnerNodesPut DEF Stored, nodes
<1>10. LeavesIn(dht', h, x) /\ \E n \in 0..(x - 1) : n < Len(obj_hash[b].roots) /\ Told(h, x, n)
  <2>1. DhtGrows(dht, dht') /\ KeysOK(dht')
    BY <1>8 DEF Stored, DhtStep
  <2>2. LeavesIn(dht, h, x) /\ \E n \in 0..(x - 1) : n < Len(obj_hash[b].roots) /\ Told(h, x, n)
    BY <1>1, <1>6 DEF WriterOK
  <2> HIDE DEF h
  <2> QED BY <1>2, <1>6, <2>1, <2>2, TreeStays
<1>11. InnerIn(dht', h, x)
  <2>1. SiblingsOK(dht, h, x, old.left, old.right)
    BY <1>1, <1>6 DEF WriterOK
  <2> HIDE DEF h
  <2>2. InnerNodesRight(dht, h, x, nodes)
    BY <1>2, <1>5, <1>6, <2>1, InnerNodesAre DEF nodes
  <2> QED BY <1>8, <2>2 DEF InnerNodesRight, InnerIn, Stored
<1>12. History(b)' = h
  BY <1>8 DEF Stored
<1> HIDE DEF h
<1>13. WriterOK(b, x)'
  BY <1>4, <1>7, <1>9, <1>10, <1>11, <1>12 DEF WriterOK
<1> QED BY <1>8, <1>13 DEF Stored

\* Some of the nodes of a stage.
LEMMA OnlySome ==
    ASSUME NEW nodes, NEW stored \in SUBSET DOMAIN nodes
    PROVE  LET some == Only(nodes, stored)
           IN  DhtGrows(some, nodes) /\ DOMAIN some = stored
BY DEF DhtGrows, Only

\* A writer gives up, whatever it has stored of a stage.
LEMMA AbandonInv ==
    ASSUME StoreInv, NEW b, NEW x, Abandon(b, x)
    PROVE  StoreInv' /\ DhtStep
<1> DEFINE h == History(b)
           old == writes[<<b, x>>]
           r == [old EXCEPT !.pc = "failed"]
<1>1. /\ UNCHANGED vars /\ <<b, x>> \in DOMAIN writes /\ old.pc \in {"leaves", "inner", "publish"}
      /\ writes' = [writes EXCEPT ![<<b, x>>] = r]
  BY DEF Abandon, At
<1>2. b \in Blobs /\ x \in 1..h.last /\ IsWrite(old)
  BY <1>1, WriterFacts
<1>3. IsWrite(r) /\ r.pc = "failed" /\ r.w = old.w
  <2>1. "failed" \in Stages
    BY DEF Stages
  <2> HIDE DEF old
  <2> QED BY <1>2, <2>1, NextStage
<1>4. writes'[<<b, x>>] = r /\ obj_hash' = obj_hash
  BY <1>1 DEF vars
<1>5. \E n \in 0..(x - 1) : n < Len(obj_hash[b].roots) /\ Told(h, x, n)
  BY <1>2, BlobFacts DEF WriterOK
<1> HIDE DEF r
<1>6. ASSUME NEW nodes, Put(nodes),
             \A q \in DOMAIN nodes : q.id = b /\ q.version = x /\ q \notin DOMAIN dht
      PROVE  Stored(b, x, nodes) /\ (WriterOK(b, x)' => StoreInv')
  <2>1. Stores(b, x, r, nodes)
    BY <1>1, <1>3, <1>6 DEF Stores
  <2> QED BY <2>1, TreeStep
<1>7. ASSUME LeavesOK(dht', h, x), InnerOK(dht', h, x), History(b)' = h PROVE WriterOK(b, x)'
  <2> HIDE DEF h
  <2> QED BY <1>3, <1>4, <1>5, <1>7 DEF WriterOK
<1>8. CASE old.pc = "leaves"
  <2> DEFINE all == Leaves(old.w)
  <2>1. At(b, x, "leaves")
    BY <1>1, <1>8 DEF At
  <2>2. PICK stored \in SUBSET DOMAIN all : Put(Only(all, stored))
    BY <1>8 DEF Abandon, At
  <2> DEFINE nodes == Only(all, stored)
  <2>3. /\ \A q \in DOMAIN all : q.id = b /\ q.version = x
        /\ \A q \in DOMAIN dht : ~(q.id = b /\ q.version = x)
    BY <2>1, NewLeaves
  <2>4. DhtGrows(nodes, all) /\ DOMAIN nodes = stored
    <3> HIDE DEF all
    <3> QED BY OnlySome
  <2> HIDE DEF nodes
  <2>5. Stored(b, x, nodes) /\ (WriterOK(b, x)' => StoreInv')
    BY <1>6, <2>2, <2>3, <2>4 DEF nodes
  <2>6. LeavesOK(dht', h, x) /\ InnerOK(dht', h, x)
    BY <2>1, <2>4, <2>5, LeavesPut DEF Stored
  <2>7. History(b)' = h
    BY <2>5 DEF Stored
  <2> QED BY <1>7, <2>5, <2>6, <2>7 DEF Stored
<1>9. CASE old.pc = "inner"
  <2> DEFINE all == InnerNodes(old.w, old.left, old.right)
  <2>1. At(b, x, "inner")
    BY <1>1, <1>9 DEF At
  <2>2. PICK stored \in SUBSET DOMAIN all : Put(Only(all, stored))
    BY <1>9 DEF Abandon, At
  <2> DEFINE nodes == Only(all, stored)
  <2>3. \A q \in DOMAIN all : q.id = b /\ q.version = x /\ q \notin DOMAIN dht
    BY <2>1, NewInnerNodes
  <2>4. DhtGrows(nodes, all) /\ DOMAIN nodes = stored
    <3> HIDE DEF all
    <3> QED BY OnlySome
  <2> HIDE DEF nodes
  <2>5. Stored(b, x, nodes) /\ (WriterOK(b, x)' => StoreInv')
    BY <1>6, <2>2, <2>3, <2>4 DEF nodes
  <2>6. LeavesOK(dht', h, x) /\ InnerOK(dht', h, x)
    BY <2>1, <2>4, <2>5, InnerNodesPut DEF Stored
  <2>7. History(b)' = h
    BY <2>5 DEF Stored
  <2> QED BY <1>7, <2>5, <2>6, <2>7 DEF Stored
<1>10. CASE old.pc = "publish"
  <2> DEFINE nodes == [q \in {} |-> q]
  <2>1. dht' = dht
    BY <1>10 DEF Abandon, At
  <2>2. Put(nodes)
    BY <2>1 DEF Put, StoreInv, KeysOwned
  <2>3. DOMAIN nodes = {}
    OBVIOUS
  <2> HIDE DEF nodes
  <2>4. Stored(b, x, nodes) /\ (WriterOK(b, x)' => StoreInv')
    BY <1>6, <2>2, <2>3
  <2>5. LeavesOK(dht', h, x) /\ InnerOK(dht', h, x)
    BY <1>2, <2>1, BlobFacts DEF WriterOK
  <2>6. History(b)' = h
    BY <2>4 DEF Stored
  <2> QED BY <1>7, <2>4, <2>5, <2>6 DEF Stored
<1> QED BY <1>1, <1>8, <1>9, <1>10

-----------------------------------------------------------------------------
(* The steps that involve the version manager. *)

\* VMGR_PUBLISH of x moves the intervals below next to the roots.
DrainedTo(o, x, next, n) ==
    /\ next \in Len(o.roots)..o.current_ticket
    /\ Len(n.roots) = next
    /\ \A k \in 1..Len(o.roots) : n.roots[k] = o.roots[k]
    /\ \A k \in (Len(o.roots) + 1)..next : n.roots[k] = o.intervals[k - 1].root
    /\ DOMAIN n.intervals = next..(o.current_ticket - 1)
    /\ \A u \in next..(o.current_ticket - 1) :
          /\ n.intervals[u].offset = o.intervals[u].offset /\ n.intervals[u].size = o.intervals[u].size
          /\ n.intervals[u].root = o.intervals[u].root /\ n.intervals[u].done = Completed(o, x, u)
    /\ n.current_ticket = o.current_ticket /\ n.max_size = o.max_size /\ n.progress_size = o.progress_size

\* What publish leaves behind, field by field.
LEMMA DrainedFacts ==
    ASSUME NEW id \in Nat, NEW o, ObjOK(id, o), NEW x \in DOMAIN o.intervals,
           NEW next \in 1..o.current_ticket, DrainStops(o, x, next)
    PROVE  DrainedTo(o, x, next, Drained(o, x, next))
<1> DEFINE n == Drained(o, x, next)
           len == Len(o.roots)
           entry(u) == [offset |-> o.intervals[u].offset, size |-> o.intervals[u].size,
                        root |-> o.intervals[u].root, done |-> Completed(o, x, u)]
<1>1. /\ len \in Nat \ {0} /\ next \in len..o.current_ticket
      /\ o.current_ticket \in Nat
      /\ n.roots \in Seq(root_t)
      /\ Len(n.roots) = next
      /\ \A k \in 1..len : n.roots[k] = o.roots[k]
      /\ \A k \in (len + 1)..next : n.roots[k] = o.intervals[k - 1].root
      /\ n.intervals = [u \in next..(o.current_ticket - 1) |-> entry(u)]
      /\ n.current_ticket = o.current_ticket
      /\ n.max_size = o.max_size
      /\ n.progress_size = o.progress_size
      /\ n = [roots |-> n.roots, intervals |-> n.intervals, current_ticket |-> n.current_ticket,
              max_size |-> n.max_size, progress_size |-> n.progress_size]
  BY DrainedShape
<1> HIDE DEF n
<1>2. /\ DOMAIN n.intervals = next..(o.current_ticket - 1)
      /\ \A u \in next..(o.current_ticket - 1) : n.intervals[u] = entry(u)
  BY <1>1
<1>3. \A u \in next..(o.current_ticket - 1) :
          /\ n.intervals[u].offset = o.intervals[u].offset /\ n.intervals[u].size = o.intervals[u].size
          /\ n.intervals[u].root = o.intervals[u].root /\ n.intervals[u].done = Completed(o, x, u)
  <2> SUFFICES ASSUME NEW u \in next..(o.current_ticket - 1)
               PROVE  /\ n.intervals[u].offset = o.intervals[u].offset /\ n.intervals[u].size = o.intervals[u].size
                      /\ n.intervals[u].root = o.intervals[u].root /\ n.intervals[u].done = Completed(o, x, u)
    OBVIOUS
  <2>1. n.intervals[u] = entry(u)
    BY <1>2
  <2>2. entry(u).offset = o.intervals[u].offset /\ entry(u).size = o.intervals[u].size /\ entry(u).root = o.intervals[u].root
    OBVIOUS
  <2>3. entry(u).done = Completed(o, x, u)
    BY Zenon
  <2> HIDE DEF entry
  <2> QED BY <2>1, <2>2, <2>3
<1>4. DrainedTo(o, x, next, n)
  BY <1>1, <1>2, <1>3 DEF DrainedTo
<1> QED BY <1>4 DEF n

\* VMGR_PUBLISH of a version whose tree is stored: what it does to the blob
\* and to its writers.
PublishStep(b, x, next) ==
    LET o == obj_hash[b]
    IN  /\ b \in Blobs /\ x \in 1..History(b).last /\ <<b, x>> \in DOMAIN writes
        /\ x \in DOMAIN o.intervals /\ DrainStops(o, x, next) /\ DrainedTo(o, x, next, obj_hash'[b])
        /\ dht' = dht /\ Blobs' = Blobs /\ History(b)' = History(b)
        /\ DOMAIN obj_hash = Blobs /\ \A c \in Blobs : c # b => obj_hash'[c] = obj_hash[c]
        /\ DOMAIN writes' = DOMAIN writes /\ IsWrite(writes'[<<b, x>>])
        /\ writes[<<b, x>>].pc = "publish" /\ writes'[<<b, x>>].pc = "done"
        /\ \A t \in DOMAIN writes : t # <<b, x>> => writes'[t] = writes[t]

\* Publishing (vmanagement.cpp, publish) marks the write, and serves the finished ones in order.
LEMMA PublishSteps ==
    ASSUME StoreInv, NEW b, NEW x, Publish(b, x)
    PROVE  \E next \in Nat : PublishStep(b, x, next)
<1> DEFINE h == History(b)
           o == obj_hash[b]
           old == writes[<<b, x>>]
           r == [old EXCEPT !.pc = "done"]
<1>1. /\ <<b, x>> \in DOMAIN writes /\ old.pc = "publish" /\ dht' = dht
      /\ writes' = [writes EXCEPT ![<<b, x>>] = r] /\ publish(b, x)
  BY DEF Publish, At
<1>2. b \in Blobs /\ x \in 1..h.last /\ IsWrite(old)
  BY <1>1, WriterFacts
<1>3. IsWrite(r) /\ r.pc = "done" /\ r.w = old.w
  <2>1. "done" \in Stages
    BY DEF Stages
  <2> HIDE DEF old
  <2> QED BY <1>2, <2>1, NextStage
<1>4. PICK next \in 1..o.current_ticket :
         /\ x \in DOMAIN o.intervals /\ DrainStops(o, x, next)
         /\ obj_hash' = [obj_hash EXCEPT ![b] = Drained(o, x, next)]
         /\ obj_count' = obj_count
  BY <1>1 DEF publish
<1>5. /\ b \in Nat \ {0} /\ IsObjInfo(o) /\ Consecutive(b, o)
      /\ Len(o.roots) \in Nat \ {0} /\ o.current_ticket \in Nat \ {0} /\ Len(o.roots) <= o.current_ticket
      /\ DOMAIN o.intervals = Len(o.roots)..(o.current_ticket - 1)
      /\ h.base = o.roots[1] /\ h.last = o.current_ticket - 1 /\ h.last \in Nat
      /\ \A y \in 1..h.last : <<b, y>> \in DOMAIN writes
      /\ HistoryOK(h) /\ Closed(dht, h.base) /\ Linked(b) /\ \A y \in 1..h.last : WriterOK(b, y)
  BY <1>2, BlobFacts
<1>6. Blobs' = Blobs /\ DOMAIN obj_hash = Blobs
  BY <1>4 DEF Blobs, StoreInv, Inv, TypeOK
<1>7. obj_hash'[b] = Drained(o, x, next) /\ \A c \in Blobs : c # b => obj_hash'[c] = obj_hash[c]
  BY <1>2, <1>4, <1>6
<1>8. /\ DOMAIN writes' = DOMAIN writes /\ writes'[<<b, x>>] = r
      /\ \A t \in DOMAIN writes : t # <<b, x>> => writes'[t] = writes[t]
  BY <1>1
<1>9. DrainedTo(o, x, next, obj_hash'[b])
  <2>1. ObjOK(b, o)
    BY <1>5 DEF ObjOK
  <2>2. b \in Nat /\ x \in DOMAIN o.intervals /\ next \in 1..o.current_ticket /\ DrainStops(o, x, next)
    BY <1>4, <1>5
  <2> HIDE DEF o
  <2>3. DrainedTo(o, x, next, Drained(o, x, next))
    BY <2>1, <2>2, DrainedFacts
  <2> QED BY <1>7, <2>3 DEF o
<1> HIDE DEF r
<1>10. ASSUME NEW y \in 1..h.last
       PROVE  /\ writes'[<<b, y>>].w = writes[<<b, y>>].w
              /\ writes[<<b, y>>].pc = "done" => writes'[<<b, y>>].pc = "done"
              /\ \/ writes'[<<b, y>>] = writes[<<b, y>>]
                 \/ writes[<<b, y>>].pc = "publish" /\ writes'[<<b, y>>].pc = "done"
  <2>1. <<b, y>> \in DOMAIN writes
    BY <1>5
  <2>2. CASE <<b, y>> = <<b, x>>
    BY <1>1, <1>3, <1>8, <2>2
  <2>3. CASE <<b, y>> # <<b, x>>
    BY <1>8, <2>1, <2>3
  <2> QED BY <2>2, <2>3
<1>11. History(b)' = h
  <2>1. 1 \in 1..Len(o.roots) /\ \A y \in 1..(o.current_ticket - 1) : writes'[<<b, y>>].w = writes[<<b, y>>].w
    BY <1>5, <1>10
  <2> QED BY <1>9, <2>1 DEF History, DrainedTo
<1>12. next \in Nat
  BY <1>5, <1>9 DEF DrainedTo
<1>13. PublishStep(b, x, next)
  BY <1>1, <1>2, <1>3, <1>4, <1>6, <1>7, <1>8, <1>9, <1>11 DEF PublishStep
<1> QED BY <1>12, <1>13

\* A version is published.
LEMMA PublishInv ==
    ASSUME StoreInv, Inv', RootsFit', NEW b, NEW x, Publish(b, x)
    PROVE  StoreInv'
<1> DEFINE h == History(b)
           o == obj_hash[b]
           r == writes'[<<b, x>>]
<1>1. PICK next \in Nat : PublishStep(b, x, next)
  BY PublishSteps
<1>2. b \in Blobs /\ x \in 1..h.last /\ dht' = dht /\ writes[<<b, x>>].pc = "publish"
  BY <1>1 DEF PublishStep
<1>3. IsWrite(r) /\ r.pc = "done"
  BY <1>1 DEF PublishStep
<1>4. x \in DOMAIN o.intervals /\ DrainStops(o, x, next)
  BY <1>1 DEF PublishStep
<1>5. /\ b \in Nat \ {0} /\ IsObjInfo(o) /\ Consecutive(b, o)
      /\ Len(o.roots) \in Nat \ {0} /\ o.current_ticket \in Nat \ {0} /\ Len(o.roots) <= o.current_ticket
      /\ DOMAIN o.intervals = Len(o.roots)..(o.current_ticket - 1)
      /\ h.base = o.roots[1] /\ h.last = o.current_ticket - 1 /\ h.last \in Nat
      /\ \A y \in 1..h.last : <<b, y>> \in DOMAIN writes
      /\ HistoryOK(h) /\ Closed(dht, h.base) /\ Linked(b) /\ \A y \in 1..h.last : WriterOK(b, y)
  BY <1>2, BlobFacts
<1>6. Blobs' = Blobs /\ DOMAIN obj_hash = Blobs
  BY <1>1 DEF PublishStep
<1>7. \A c \in Blobs : c # b => obj_hash'[c] = obj_hash[c]
  BY <1>1 DEF PublishStep
<1>8. /\ DOMAIN writes' = DOMAIN writes /\ <<b, x>> \in DOMAIN writes
      /\ \A t \in DOMAIN writes : t # <<b, x>> => writes'[t] = writes[t]
  BY <1>1 DEF PublishStep
<1>9. DrainedTo(o, x, next, obj_hash'[b])
  BY <1>1 DEF PublishStep
<1> HIDE DEF r
<1>10. DhtStep
  BY <1>2, StoreKeys DEF DhtStep, DhtGrows
<1>11. ASSUME NEW y \in 1..h.last
       PROVE  /\ writes[<<b, y>>].pc = "done" => writes'[<<b, y>>].pc = "done"
              /\ \/ writes'[<<b, y>>] = writes[<<b, y>>]
                 \/ writes[<<b, y>>].pc = "publish" /\ writes'[<<b, y>>].pc = "done"
  <2>1. <<b, y>> \in DOMAIN writes
    BY <1>5
  <2>2. CASE <<b, y>> = <<b, x>>
    BY <1>2, <1>3, <2>2 DEF r
  <2>3. CASE <<b, y>> # <<b, x>>
    BY <1>8, <2>1, <2>3
  <2> QED BY <2>2, <2>3
<1>12. History(b)' = h
  BY <1>1 DEF PublishStep
<1>13. WritesOK'
  <2>1. \A c \in Blobs : obj_hash'[c].current_ticket = obj_hash[c].current_ticket
    BY <1>7, <1>9 DEF DrainedTo
  <2>2. DOMAIN writes' = {t \in Blobs' \X (1..MaxTickets) : t[2] < obj_hash'[t[1]].current_ticket}
    BY <1>6, <1>8, <2>1 DEF StoreInv, WritesOK
  <2>3. \A t \in DOMAIN writes' : IsWrite(writes'[t])
    BY <1>3, <1>8 DEF StoreInv, WritesOK, r
  <2> QED BY <2>2, <2>3 DEF WritesOK, IsWrite
<1>14. KeysOwned'
  <2>1. SUFFICES ASSUME NEW q \in DOMAIN dht
                 PROVE  /\ <<q.id, q.version>> \in DOMAIN writes'
                        /\ writes'[<<q.id, q.version>>].pc # "leaves"
                        /\ writes'[<<q.id, q.version>>].pc = "inner" => q.size = 1
    BY <1>2, <1>8 DEF KeysOwned, StoreInv
  <2>2. /\ <<q.id, q.version>> \in DOMAIN writes
        /\ writes[<<q.id, q.version>>].pc # "leaves"
        /\ writes[<<q.id, q.version>>].pc = "inner" => q.size = 1
    BY DEF StoreInv, KeysOwned
  <2>3. CASE <<q.id, q.version>> = <<b, x>>
    BY <1>3, <1>8, <2>2, <2>3 DEF r
  <2>4. CASE <<q.id, q.version>> # <<b, x>>
    BY <1>8, <2>2, <2>4
  <2> QED BY <2>3, <2>4
<1>15. ASSUME NEW c \in Blobs, c # b PROVE Linked(c)' /\ BlobOK(c)'
  <2>1. obj_hash'[c] = obj_hash[c] /\ \A y : <<c, y>> \in DOMAIN writes => writes'[<<c, y>>] = writes[<<c, y>>]
    BY <1>7, <1>8, <1>15
  <2> QED BY <1>2, <1>10, <2>1, BlobStays
<1>16. BlobOK(b)'
  <2>1. ASSUME NEW y \in 1..h.last PROVE WriterOK(b, y)'
    <3>1. Before(h, History(b)')
      BY <1>5, <1>12 DEF Before
    <3>2. Len(o.roots) <= Len(obj_hash'[b].roots) /\ Len(obj_hash'[b].roots) \in Nat
      BY <1>5, <1>9 DEF DrainedTo
    <3> QED BY <1>2, <1>10, <1>11, <3>1, <3>2, WriterStays
  <2> QED BY <1>2, <1>5, <1>12, <2>1 DEF BlobOK
<1>17. Linked(b)'
  <2> DEFINE n == obj_hash'[b]
             size == SizeAt(h, h.last)
  <2>1. ASSUME NEW k \in 2..Len(n.roots) PROVE IsRoot(h, k - 1, n.roots[k]) /\ writes'[<<b, k - 1>>].pc = "done"
    <3>1. CASE k <= Len(o.roots)
      <4>1. k \in 2..Len(o.roots) /\ k \in 1..Len(o.roots) /\ k - 1 \in 1..h.last
        BY <1>5, <1>9, <3>1 DEF DrainedTo
      <4> QED BY <1>5, <1>9, <1>11, <4>1 DEF Linked, DrainedTo
    <3>2. CASE k > Len(o.roots)
      <4> DEFINE u == k - 1
      <4>1. u \in DOMAIN o.intervals /\ u < next /\ u \in 1..h.last /\ u # 0 /\ k \in (Len(o.roots) + 1)..next
        BY <1>5, <1>9, <3>2 DEF DrainedTo
      <4>2. n.roots[k] = o.intervals[u].root
        BY <1>9, <4>1 DEF DrainedTo
      <4>3. o.intervals[u].root.id = b /\ o.intervals[u].root.version = u /\ o.intervals[u].root.size = h.ws[u].root_size
        BY <1>5, <4>1 DEF Consecutive, Linked
      <4>4. h.id = b
        BY <1>2, BlobFacts
      <4>5. IsRoot(h, u, n.roots[k])
        BY <4>1, <4>2, <4>3, <4>4 DEF IsRoot
      <4>6. Completed(o, x, u)
        BY <1>4, <4>1 DEF DrainStops
      <4>7. writes'[<<b, u>>].pc = "done"
        <5>1. CASE u = x
          BY <1>3, <5>1 DEF r
        <5>2. CASE o.intervals[u].done
          BY <1>5, <1>11, <4>1, <5>2 DEF Linked
        <5> QED BY <4>6, <5>1, <5>2 DEF Completed
      <4> QED BY <4>5, <4>7
    <3> QED BY <1>5, <3>1, <3>2
  <2>2. ASSUME NEW u \in DOMAIN n.intervals
        PROVE  /\ n.intervals[u].offset = h.ws[u].offset /\ n.intervals[u].size = h.ws[u].size
               /\ n.intervals[u].root.size = h.ws[u].root_size
               /\ n.intervals[u].done => writes'[<<b, u>>].pc = "done"
    <3>1. u \in next..(o.current_ticket - 1)
      BY <1>9, <2>2 DEF DrainedTo
    <3>2. u \in DOMAIN o.intervals /\ u \in 1..h.last
      BY <1>5, <1>9, <3>1 DEF DrainedTo
    <3>3. /\ n.intervals[u].offset = o.intervals[u].offset /\ n.intervals[u].size = o.intervals[u].size
          /\ n.intervals[u].root = o.intervals[u].root /\ n.intervals[u].done = Completed(o, x, u)
      BY <1>9, <3>1 DEF DrainedTo
    <3>4. n.intervals[u].offset = h.ws[u].offset /\ n.intervals[u].size = h.ws[u].size
          /\ n.intervals[u].root.size = h.ws[u].root_size
      BY <1>5, <3>2, <3>3 DEF Linked
    <3>5. Completed(o, x, u) => writes'[<<b, u>>].pc = "done"
      <4>1. CASE u = x
        BY <1>3, <4>1 DEF r
      <4>2. CASE o.intervals[u].done
        BY <1>5, <1>11, <3>2, <4>2 DEF Linked
      <4> QED BY <4>1, <4>2 DEF Completed
    <3> QED BY <3>3, <3>4, <3>5
  <2>3. n.progress_size <= size /\ (n.max_size = size \/ (size = 0 /\ n.max_size = 1))
    BY <1>5, <1>9 DEF Linked, DrainedTo
  <2> HIDE DEF h
  <2> QED BY <1>12, <2>1, <2>2, <2>3 DEF Linked
<1> QED BY <1>6, <1>13, <1>14, <1>15, <1>16, <1>17 DEF StoreInv

\* Every power is below the word.
LEMMA PowerBelow ==
    ASSUME NEW s \in Powers
    PROVE  s \in Nat \ {0} /\ Word \in Nat \ {0} /\ s < Word
<1>1. PICK i \in 0..(Width - 1) : s = 2^i
  BY DEF Powers
<1>2. /\ Width \in Nat /\ i \in 0..Width /\ i + 1 \in 0..Width /\ Width - (i + 1) \in 0..(Width - (i + 1))
      /\ (i + 1) + (Width - (i + 1)) = Width /\ Width - (i + 1) \in 0..Width
  BY <1>1, WidthAssumption
<1> DEFINE c == 2^(Width - (i + 1))
<1>3. s \in Nat \ {0} /\ 2^(i + 1) = 2 * s /\ c \in Nat \ {0} /\ Word \in Nat \ {0}
  BY <1>1, <1>2, WidthAssumption DEF Word
<1>4. Word = (2 * s) * c
  BY <1>2, <1>3, PowerSum DEF Word
<1> HIDE DEF c
<1>5. (2 * s) * c >= 2 * s
  BY <1>3
<1> QED BY <1>3, <1>4, <1>5

\* The growth loop leaves a power behind: a word that has lost its only bit
\* is 0, and holds no write.
LEMMA GrowthPower ==
    ASSUME NEW m, m = 0 \/ m = 1 \/ m \in Powers, NEW end \in Nat \ {0}, end < Word,
           NEW k \in 0..Width, LoopExits(m, end, k)
    PROVE  Doubled(m, k) \in Powers
<1>1. Width \in Nat /\ Word \in Nat \ {0} /\ Word = 2^Width /\ 2^0 = 1
  BY WidthAssumption DEF Word
<1>2. Doubled(m, k) >= end
  BY DEF LoopExits
<1>3. Width # 0
  <2>1. SUFFICES ASSUME Width = 0 PROVE FALSE
    OBVIOUS
  <2>2. Word = 1
    BY <2>1 DEF Word
  <2> QED BY <1>1, <2>2
<1>4. 1 \in Powers
  <2>1. 0 \in 0..(Width - 1) /\ 2^0 = 1
    BY <1>1, <1>3
  <2> QED BY <2>1 DEF Powers
<1>5. m # 0
  <2>1. SUFFICES ASSUME m = 0 PROVE FALSE
    OBVIOUS
  <2>2. 2^k \in Nat /\ 0 * 2^k = 0 /\ 0 * Word = 0
    BY <1>1, WidthAssumption
  <2>3. 0 % Word = 0
    BY <1>1, <2>2, IsMultiple
  <2>4. Doubled(m, k) = 0
    BY <2>1, <2>2, <2>3 DEF Doubled
  <2> QED BY <1>2, <2>4
<1>6. PICK i \in 0..(Width - 1) : m = 2^i
  BY <1>4, <1>5 DEF Powers
<1>7. CASE k = 0
  BY <1>4, <1>5, <1>7 DEF Doubled
<1>8. CASE k # 0 /\ i + k <= Width - 1
  <2>1. i + k \in 0..(Width - 1) /\ i \in 0..Width /\ k \in 0..(Width - i)
    BY <1>1, <1>6, <1>8
  <2> DEFINE t == 2^(i + k)
  <2>2. t \in Powers /\ m * 2^k = t
    BY <1>6, <2>1, PowerSum DEF Powers
  <2> HIDE DEF t
  <2>3. t \in Nat /\ t < Word
    BY <2>2, PowerBelow
  <2>4. t \in 0..(Word - 1) /\ t = 0 * Word + t
    BY <1>1, <2>3
  <2>5. t % Word = t
    BY <1>1, <2>3, <2>4, DivModUnique
  <2> QED BY <1>8, <2>2, <2>5 DEF Doubled
<1>9. CASE k # 0 /\ i + k > Width - 1
  <2> DEFINE a == Width - i
             c == k - (Width - i)
  <2>1. /\ i \in 0..Width /\ a \in 0..(Width - i) /\ i + a = Width
        /\ a \in 0..Width /\ c \in 0..(Width - a) /\ a + c = k /\ c \in 0..Width
    BY <1>1, <1>6, <1>9
  <2> HIDE DEF a, c
  <2>2. 2^(i + a) = 2^i * 2^a /\ 2^(a + c) = 2^a * 2^c /\ 2^i \in Nat /\ 2^a \in Nat /\ 2^c \in Nat
    BY <2>1, PowerSum, WidthAssumption
  <2>3. m * 2^k = 2^c * Word
    <3>1. \A x, y, z \in Nat : x * (y * z) = z * (x * y)
      OBVIOUS
    <3> QED BY <1>1, <1>6, <2>1, <2>2, <3>1
  <2>4. (2^c * Word) % Word = 0
    BY <1>1, <2>2, IsMultiple
  <2>5. Doubled(m, k) = 0
    BY <1>9, <2>3, <2>4 DEF Doubled
  <2> QED BY <1>2, <2>5
<1> QED BY <1>1, <1>6, <1>7, <1>8, <1>9

\* A history with one more writer, whose range starts in the tree before it
\* and writes the first page behind it if its own is larger.
LEMMA HistoryExtended ==
    ASSUME NEW h, HistoryOK(h), NEW g, Before(h, g), g.last = h.last + 1, RangeOK(g, g.last),
           SizeAt(h, h.last) <= SizeAt(g, g.last),
           SizeAt(h, h.last) < SizeAt(g, g.last) => Touches(SizeAt(h, h.last), 1, g.ws[g.last])
    PROVE  HistoryOK(g)
<1> DEFINE v == g.last
<1>1. h.last \in Nat /\ v = h.last + 1 /\ v \in Nat \ {0} /\ v - 1 = h.last
  BY DEF HistoryOK
<1>2. g.id = h.id /\ g.base = h.base /\ \A x \in 1..h.last : g.ws[x] = h.ws[x]
  BY DEF Before
<1>3. \A x \in 0..h.last : SizeAt(g, x) = SizeAt(h, x) /\ SizeAt(h, x) \in Nat
  BY <1>1, <1>2, HistoryFacts DEF SizeAt
<1>4. ASSUME NEW x \in 1..v PROVE RangeOK(g, x)
  <2>1. CASE x = v
    BY <2>1
  <2>2. CASE x # v
    <3>1. x \in 1..h.last /\ x - 1 \in 0..h.last
      BY <1>1, <2>2
    <3>2. RangeOK(h, x)
      BY <3>1 DEF HistoryOK
    <3> QED BY <1>2, <1>3, <3>1, <3>2 DEF RangeOK
  <2> QED BY <2>1, <2>2
<1>5. ASSUME NEW y \in 1..v, NEW x \in 0..(y - 1) PROVE Grown(g, x, y)
  <2>1. CASE y # v
    <3>1. y \in 1..h.last /\ y \in 0..h.last /\ x \in 0..h.last /\ \A z \in (x + 1)..y : z \in 1..h.last
      BY <1>1, <2>1
    <3>2. Grown(h, x, y)
      BY <3>1 DEF HistoryOK
    <3> QED BY <1>2, <1>3, <3>1, <3>2 DEF Grown
  <2>2. CASE y = v
    <3>1. x \in 0..h.last /\ h.last \in 0..h.last /\ v \in (x + 1)..v
      BY <1>1, <2>2
    <3>2. SizeAt(h, x) <= SizeAt(h, h.last)
      BY <3>1, SizesGrow
    <3>3. SizeAt(g, v) \in Nat
      <4>1. SizeAt(g, v) \in Powers
        BY <1>1 DEF RangeOK, SizeAt
      <4> QED BY <4>1, PowerFacts
    <3>4. SizeAt(g, x) <= SizeAt(g, v)
      BY <1>3, <3>1, <3>2, <3>3
    <3>5. ASSUME SizeAt(g, x) < SizeAt(g, v) PROVE \E z \in (x + 1)..v : Touches(SizeAt(g, x), 1, g.ws[z])
      <4>1. CASE SizeAt(h, x) < SizeAt(h, h.last)
        <5>1. h.last \in 1..h.last /\ x \in 0..(h.last - 1)
          BY <1>1, <1>3, <3>1, <4>1
        <5>2. PICK z \in (x + 1)..h.last : Touches(SizeAt(h, x), 1, h.ws[z])
          BY <4>1, <5>1 DEF HistoryOK, Grown
        <5>3. z \in (x + 1)..v /\ z \in 1..h.last
          BY <1>1, <3>1, <5>2
        <5> QED BY <1>2, <1>3, <3>1, <5>2, <5>3
      <4>2. CASE ~(SizeAt(h, x) < SizeAt(h, h.last))
        <5>1. SizeAt(h, x) = SizeAt(h, h.last)
          BY <1>3, <3>1, <3>2, <4>2
        <5>2. SizeAt(h, h.last) < SizeAt(g, v)
          BY <1>3, <3>1, <3>5, <5>1
        <5> QED BY <1>3, <3>1, <5>1, <5>2
      <4> QED BY <4>1, <4>2
    <3> QED BY <2>2, <3>4, <3>5 DEF Grown
  <2> QED BY <2>1, <2>2
<1> QED BY <1>1, <1>2, <1>4, <1>5 DEF HistoryOK

\* VMGR_GETTICKET gives out the next ticket for a range, the tree grown to m.
TicketedTo(o, off, size, m, n) ==
    LET v == o.current_ticket
    IN  /\ n.roots = o.roots /\ n.current_ticket = v + 1 /\ n.max_size = m
        /\ DOMAIN n.intervals = DOMAIN o.intervals \cup {v}
        /\ \A u \in DOMAIN o.intervals : n.intervals[u] = o.intervals[u]
        /\ n.intervals[v].offset = off /\ n.intervals[v].size = size /\ n.intervals[v].done = FALSE
        /\ n.intervals[v].root.size = m
        /\ n.progress_size = off + size \/ n.progress_size = o.progress_size

\* What get_ticket leaves in the blob's entry.
LEMMA TicketedFacts ==
    ASSUME NEW id, NEW o, NEW off, NEW size, NEW m, o.current_ticket \notin DOMAIN o.intervals
    PROVE  TicketedTo(o, off, size, m, Ticketed(o, id, off, size, m))
<1> DEFINE v == o.current_ticket
           stable == LatestRoot(o)
           end == off + size
           longer == end > stable.current_size
           r == [id |-> id, version |-> v, size |-> m, page_size |-> stable.page_size,
                 current_size |-> IF longer THEN end ELSE stable.current_size]
           e == [offset |-> off, size |-> size, done |-> FALSE, root |-> r]
           n == Ticketed(o, id, off, size, m)
<1>1. /\ n.roots = o.roots /\ n.current_ticket = v + 1 /\ n.max_size = m
      /\ n.intervals = [u \in DOMAIN o.intervals \cup {v} |-> IF u = v THEN e ELSE o.intervals[u]]
      /\ n.progress_size = IF longer THEN end ELSE o.progress_size
  BY DEF Ticketed
<1>2. e.offset = off /\ e.size = size /\ e.done = FALSE /\ e.root.size = m
  OBVIOUS
<1> HIDE DEF n, e, longer
<1>3. DOMAIN n.intervals = DOMAIN o.intervals \cup {v} /\ n.intervals[v] = e
      /\ \A u \in DOMAIN o.intervals : n.intervals[u] = o.intervals[u]
  BY <1>1
<1>4. n.progress_size = off + size \/ n.progress_size = o.progress_size
  BY <1>1
<1> QED BY <1>1, <1>2, <1>3, <1>4 DEF TicketedTo, n

\* What its holder is told.
ToldTo(o, b, off, size, m, w) ==
    /\ w.id = b /\ w.version = o.current_ticket /\ w.offset = off /\ w.size = size
    /\ w.stable = LatestRoot(o) /\ w.root_size = m
    /\ DOMAIN w.intervals = DOMAIN o.intervals
    /\ \A u \in DOMAIN o.intervals :
          w.intervals[u].offset = o.intervals[u].offset /\ w.intervals[u].size = o.intervals[u].size

\* What get_ticket tells the writer: its range, the latest root served, and the
\* writes still in flight before its own.
LEMMA ReplyFacts ==
    ASSUME NEW b, NEW o, NEW off, NEW size, NEW m, NEW n, TicketedTo(o, off, size, m, n),
           o.current_ticket \notin DOMAIN o.intervals
    PROVE  ToldTo(o, b, off, size, m, Reply(n, b, o.current_ticket, LatestRoot(o)))
<1> DEFINE v == o.current_ticket
           w == Reply(n, b, v, LatestRoot(o))
<1>1. /\ w.id = b /\ w.version = v /\ w.offset = n.intervals[v].offset /\ w.size = n.intervals[v].size
      /\ w.stable = LatestRoot(o) /\ w.root_size = n.max_size
      /\ w.intervals = [u \in DOMAIN n.intervals \ {v} |->
                           [offset |-> n.intervals[u].offset, size |-> n.intervals[u].size]]
  BY DEF Reply
<1> HIDE DEF w
<1>2. DOMAIN n.intervals \ {v} = DOMAIN o.intervals
  BY DEF TicketedTo
<1>3. DOMAIN w.intervals = DOMAIN o.intervals
      /\ \A u \in DOMAIN o.intervals :
            w.intervals[u].offset = n.intervals[u].offset /\ w.intervals[u].size = n.intervals[u].size
  BY <1>1, <1>2
<1>4. ToldTo(o, b, off, size, m, w)
  BY <1>1, <1>3 DEF ToldTo, TicketedTo
<1> QED BY <1>4 DEF w

\* The step as a reader of the version manager sees it.
TicketStep(b, off, size, m) ==
    /\ m \in Powers /\ off + size <= m
    /\ TicketedTo(obj_hash[b], off, size, m, obj_hash'[b])
    /\ dht' = dht /\ Blobs' = Blobs /\ \A c \in Blobs : c # b => obj_hash'[c] = obj_hash[c]

\* A ticket for a range that starts where something is written or ticketed.
LEMMA GetTicketInv ==
    ASSUME StoreInv, Inv', RootsFit', SparseWrites = FALSE,
           NEW b \in Blobs, NEW offset \in Offsets, NEW size \in Sizes, NEW append \in Appends,
           GetTicket(b, offset, size, append)
    PROVE  StoreInv' /\ \E off \in Nat, len \in Nat \ {0}, m \in Powers : TicketStep(b, off, len, m)
<1> DEFINE h == History(b)
           o == obj_hash[b]
           v == o.current_ticket
           off == TicketOffset(o, offset, append)
           n == obj_hash'[b]
           w == Reply(n, b, v, LatestRoot(o))
           r == [pc |-> "leaves", w |-> w, left |-> {}, right |-> {}]
           top == SizeAt(h, h.last)
<1>1. /\ dht' = dht /\ o.current_ticket <= MaxTickets /\ off + size < Word /\ obj_count' = obj_count
      /\ append \/ offset <= o.progress_size
      /\ writes' = [t \in DOMAIN writes \cup {<<b, v>>} |-> IF t = <<b, v>> THEN r ELSE writes[t]]
  BY DEF GetTicket, get_ticket, TicketRequest
<1>2. PICK k \in 0..Width :
         /\ LoopExits(o.max_size, off + size, k)
         /\ obj_hash' = [obj_hash EXCEPT ![b] = Ticketed(o, b, off, size, Doubled(o.max_size, k))]
  BY DEF GetTicket, get_ticket
<1> DEFINE m == Doubled(o.max_size, k)
<1>3. /\ b \in Nat \ {0} /\ IsObjInfo(o) /\ h.id = b
      /\ Len(o.roots) \in Nat \ {0} /\ v \in Nat \ {0} /\ Len(o.roots) <= v
      /\ DOMAIN o.intervals = Len(o.roots)..(v - 1) /\ v \notin DOMAIN o.intervals
      /\ h.base = o.roots[1] /\ h.last = v - 1 /\ h.last \in Nat
      /\ \A y \in 1..h.last : <<b, y>> \in DOMAIN writes /\ h.ws[y] = writes[<<b, y>>].w
      /\ HistoryOK(h) /\ Closed(dht, h.base) /\ Linked(b) /\ \A y \in 1..h.last : WriterOK(b, y)
  BY BlobFacts
<1>4. Blobs' = Blobs /\ DOMAIN obj_hash = Blobs
  BY <1>1 DEF Blobs, StoreInv, Inv, TypeOK
<1>5. n = Ticketed(o, b, off, size, m) /\ \A c \in Blobs : c # b => obj_hash'[c] = obj_hash[c]
  BY <1>2, <1>4
<1>6. <<b, v>> \notin DOMAIN writes
  BY DEF StoreInv, WritesOK
<1>7. /\ DOMAIN writes' = DOMAIN writes \cup {<<b, v>>} /\ writes'[<<b, v>>] = r
      /\ \A t \in DOMAIN writes : writes'[t] = writes[t]
  BY <1>1, <1>6
<1>8. TicketedTo(o, off, size, m, n)
  <2> HIDE DEF o, off, m
  <2> QED BY <1>3, <1>5, TicketedFacts DEF v
<1>9. ToldTo(o, b, off, size, m, w)
  <2> HIDE DEF o, off, m, n
  <2> QED BY <1>3, <1>8, ReplyFacts DEF v
<1>10. IsWrite(r) /\ r.pc = "leaves" /\ r.w = w
  BY DEF IsWrite, Stages
<1> HIDE DEF w, r
<1>11. /\ off \in Nat /\ size \in Nat \ {0} /\ off + size \in Nat \ {0} /\ o.max_size \in Nat
       /\ o.progress_size \in Nat /\ top \in Nat /\ (top = 0 \/ top \in Powers)
       /\ o.progress_size <= top /\ (o.max_size = top \/ (top = 0 /\ o.max_size = 1)) /\ off <= top
  <2>1. size \in Nat \ {0} /\ offset \in Nat /\ o.max_size \in Nat /\ o.progress_size \in Nat
    BY <1>3, RequestAssumption DEF IsObjInfo
  <2>2. off \in Nat /\ off <= o.progress_size
    BY <1>1, <2>1 DEF TicketOffset
  <2>3. h.last \in 0..h.last
    BY <1>3
  <2>4. top \in Nat /\ (top = 0 \/ top \in Powers)
    BY <1>3, <2>3, HistoryFacts
  <2>5. o.progress_size <= top /\ (o.max_size = top \/ (top = 0 /\ o.max_size = 1))
    BY <1>3 DEF Linked
  <2> HIDE DEF off, top
  <2> QED BY <2>1, <2>2, <2>4, <2>5
<1>12. m \in Powers /\ m \in Nat \ {0} /\ off + size <= m /\ o.max_size <= m /\ top <= m
       /\ (top < m => top < off + size)
  <2>1. o.max_size = 0 \/ o.max_size = 1 \/ o.max_size \in Powers
    BY <1>11
  <2> HIDE DEF o, off, top
  <2>2. m \in Powers
    BY <1>1, <1>2, <1>11, <2>1, GrowthPower
  <2>3. m \in Nat \ {0}
    BY <2>2, PowerFacts
  <2>4. m >= off + size /\ m >= o.max_size
    BY <1>2, <1>11, GrowthEnough
  <2>5. k = 0 \/ off + size > o.max_size
    <3>1. CASE k # 0
      <4>1. 0 \in 0..(k - 1)
        BY <3>1, WidthAssumption
      <4> QED BY <1>2, <4>1 DEF LoopExits, Doubled
    <3> QED BY <3>1
  <2>6. k = 0 => m = o.max_size
    BY DEF Doubled
  <2> HIDE DEF m
  <2> QED BY <1>11, <2>2, <2>3, <2>4, <2>5, <2>6
<1> DEFINE g == History(b)'
<1>13. /\ g.id = h.id /\ g.base = h.base /\ g.last = h.last + 1 /\ g.last = v
       /\ \A y \in 1..h.last : g.ws[y] = h.ws[y]
       /\ g.ws[v] = w
  <2>1. n.current_ticket - 1 = v /\ n.roots = o.roots /\ h.last + 1 = v /\ v \in 1..v
    BY <1>3, <1>8 DEF TicketedTo
  <2>2. g.id = b /\ g.base = n.roots[1] /\ g.last = v /\ \A y \in 1..v : g.ws[y] = writes'[<<b, y>>].w
    BY <2>1 DEF History
  <2>3. \A y \in 1..h.last : y \in 1..v /\ writes'[<<b, y>>].w = h.ws[y]
    BY <1>3, <1>7
  <2>4. writes'[<<b, v>>].w = w
    BY <1>7, <1>10
  <2> HIDE DEF g, h, o, n
  <2> QED BY <1>3, <2>1, <2>2, <2>3, <2>4
<1>14. Before(h, g)
  BY <1>3, <1>13 DEF Before
<1>15. HistoryOK(g)
  <2>1. SizeAt(g, v) = m /\ v # 0 /\ v - 1 = h.last
    BY <1>3, <1>9, <1>13 DEF SizeAt, ToldTo
  <2>2. SizeAt(g, h.last) = top
    BY <1>3, <1>13 DEF SizeAt
  <2>3. RangeOK(g, v)
    <3>1. w.id = b /\ w.version = v /\ w.offset = off /\ w.size = size /\ w.root_size = m
      BY <1>9 DEF ToldTo
    <3>2. g.ws[v] = w /\ g.id = b /\ SizeAt(g, v - 1) = top
      BY <1>3, <1>13, <2>1, <2>2
    <3> HIDE DEF g, m, off, top, v
    <3> QED BY <1>11, <1>12, <3>1, <3>2 DEF RangeOK
  <2>4. top < m => Touches(top, 1, g.ws[v])
    BY <1>9, <1>11, <1>12, <1>13 DEF Touches, ToldTo
  <2> HIDE DEF g, h, m
  <2> QED BY <1>3, <1>12, <1>13, <1>14, <2>1, <2>3, <2>4, HistoryExtended
<1>16. DhtStep
  BY <1>1, StoreKeys DEF DhtStep, DhtGrows
<1>17. WritesOK'
  <2>1. /\ n.current_ticket = v + 1 /\ v \in 1..MaxTickets
        /\ \A c \in Blobs : c # b => obj_hash'[c].current_ticket = obj_hash[c].current_ticket
    <3>1. n.current_ticket = v + 1
      BY <1>8 DEF TicketedTo
    <3>2. v \in 1..MaxTickets
      <4> HIDE DEF o
      <4> QED BY <1>1, <1>3, BoundAssumption DEF v
    <3> QED BY <1>5, <3>1, <3>2
  <2>2. DOMAIN writes' = {t \in Blobs' \X (1..MaxTickets) : t[2] < obj_hash'[t[1]].current_ticket}
    <3>1. ASSUME NEW c \in Blobs, NEW y \in 1..MaxTickets
          PROVE  <<c, y>> \in DOMAIN writes' <=> y < obj_hash'[c].current_ticket
      <4>1. <<c, y>> \in DOMAIN writes <=> y < obj_hash[c].current_ticket
        BY DEF StoreInv, WritesOK
      <4>2. CASE c = b
        <5>1. y < v + 1 <=> y < v \/ y = v
          BY <1>3
        <5> QED BY <1>7, <2>1, <4>1, <4>2, <5>1
      <4>3. CASE c # b
        BY <1>7, <2>1, <4>1, <4>3
      <4> QED BY <4>2, <4>3
    <3>2. \A t \in DOMAIN writes' : \E c \in Blobs, y \in 1..MaxTickets : t = <<c, y>>
      BY <1>7, <2>1 DEF StoreInv, WritesOK
    <3> HIDE DEF n
    <3>3. \A t \in DOMAIN writes' : t \in Blobs \X (1..MaxTickets) /\ t[2] < obj_hash'[t[1]].current_ticket
      BY <3>1, <3>2
    <3>4. \A t \in Blobs \X (1..MaxTickets) : t[2] < obj_hash'[t[1]].current_ticket => t \in DOMAIN writes'
      BY <3>1
    <3> QED BY <1>4, <3>3, <3>4
  <2>3. \A t \in DOMAIN writes' : IsWrite(writes'[t])
    BY <1>7, <1>10 DEF StoreInv, WritesOK
  <2> QED BY <2>2, <2>3 DEF WritesOK, IsWrite
<1>18. KeysOwned'
  BY <1>1, <1>7 DEF StoreInv, KeysOwned
<1>19. ASSUME NEW c \in Blobs, c # b PROVE Linked(c)' /\ BlobOK(c)'
  <2>1. obj_hash'[c] = obj_hash[c] /\ \A y : <<c, y>> \in DOMAIN writes => writes'[<<c, y>>] = writes[<<c, y>>]
    BY <1>5, <1>7, <1>19
  <2> QED BY <1>1, <1>16, <2>1, BlobStays
<1>20. ASSUME NEW x, x = v PROVE WriterOK(b, x)'
  <2>1. Len(o.roots) - 1 \in 0..(v - 1) /\ Len(o.roots) - 1 < Len(n.roots) /\ Len(o.roots) \in 1..Len(o.roots)
    <3>1. n.roots = o.roots
      BY <1>8 DEF TicketedTo
    <3> HIDE DEF n, o, v
    <3> QED BY <1>3, <3>1
  <2>2. Told(g, v, Len(o.roots) - 1)
    <3>1. IsRoot(h, Len(o.roots) - 1, LatestRoot(o)) /\ Len(o.roots) - 1 \in 0..h.last
      BY <2>1, RootNumbered DEF LatestRoot
    <3>2. IsRoot(g, Len(o.roots) - 1, w.stable)
      <4>1. w.stable = LatestRoot(o)
        BY <1>9 DEF ToldTo
      <4> HIDE DEF g, h, o
      <4>0. Len(o.roots) \in Nat /\ h.last \in Nat /\ Len(o.roots) - 1 \in 0..h.last
        BY <1>3, <3>1
      <4>2. Len(o.roots) - 1 = 0 \/ Len(o.roots) - 1 \in 1..h.last
        <5> DEFINE a == Len(o.roots) - 1
                   l == h.last
        <5>1. l \in Nat /\ a \in 0..l
          BY <4>0
        <5> HIDE DEF a, l
        <5>2. a = 0 \/ a \in 1..l
          BY ONLY <5>1
        <5> QED BY <5>2 DEF a, l
      <4> QED BY <1>13, <3>1, <4>1, <4>2 DEF IsRoot
    <3>3. DOMAIN w.intervals = ((Len(o.roots) - 1) + 1)..(v - 1)
      BY <1>3, <1>9 DEF ToldTo
    <3>4. ASSUME NEW u \in ((Len(o.roots) - 1) + 1)..(v - 1)
          PROVE  w.intervals[u].offset = g.ws[u].offset /\ w.intervals[u].size = g.ws[u].size
      <4>1. u \in DOMAIN o.intervals /\ u \in 1..h.last
        <5> HIDE DEF o, v, h
        <5> QED BY <1>3
      <4>2. w.intervals[u].offset = o.intervals[u].offset /\ w.intervals[u].size = o.intervals[u].size
        BY <1>9, <4>1 DEF ToldTo
      <4>3. o.intervals[u].offset = h.ws[u].offset /\ o.intervals[u].size = h.ws[u].size
        BY <1>3, <4>1 DEF Linked
      <4>4. g.ws[u] = h.ws[u]
        BY <1>13, <4>1
      <4> QED BY <4>2, <4>3, <4>4
    <3> QED BY <1>13, <2>1, <3>2, <3>3, <3>4 DEF Told
  <2>3. \A p, s : KeyAt(b, v, p, s) \notin DOMAIN dht
    <3>1. SUFFICES ASSUME NEW p, NEW s, KeyAt(b, v, p, s) \in DOMAIN dht PROVE FALSE
      OBVIOUS
    <3>2. KeyAt(b, v, p, s).id = b /\ KeyAt(b, v, p, s).version = v
      BY DEF KeyAt
    <3> QED BY <1>6, <3>1, <3>2 DEF StoreInv, KeysOwned
  <2>4. LeavesOK(dht, g, v) /\ InnerOK(dht, g, v)
    BY <1>3, <1>13, <2>3 DEF LeavesOK, InnerOK
  <2>5. writes'[<<b, v>>].pc = "leaves"
    BY <1>7, <1>10
  <2>6. \E y \in 0..(x - 1) : y < Len(n.roots) /\ Told(g, x, y)
    BY <1>20, <2>1, <2>2
  <2> QED BY <1>1, <1>20, <2>4, <2>5, <2>6 DEF WriterOK
<1>21. BlobOK(b)'
  <2>1. ASSUME NEW y \in 1..h.last PROVE WriterOK(b, y)'
    <3>1. Len(o.roots) <= Len(n.roots) /\ Len(n.roots) \in Nat
      BY <1>3, <1>8 DEF TicketedTo
    <3>2. writes'[<<b, y>>] = writes[<<b, y>>]
      BY <1>3, <1>7
    <3> QED BY <1>1, <1>14, <1>16, <3>1, <3>2, WriterStays
  <2>3. ASSUME NEW y \in 1..g.last PROVE WriterOK(b, y)'
    <3>1. y = v \/ y \in 1..h.last
      <4> HIDE DEF g, v, h
      <4> QED BY <1>3, <1>13
    <3> QED BY <1>20, <2>1, <3>1
  <2> QED BY <1>1, <1>3, <1>13, <1>15, <2>3 DEF BlobOK
<1>22. Linked(b)'
  <2>1. ASSUME NEW y \in 2..Len(n.roots) PROVE IsRoot(g, y - 1, n.roots[y]) /\ writes'[<<b, y - 1>>].pc = "done"
    <3>1. y \in 2..Len(o.roots) /\ y - 1 \in 1..h.last /\ n.roots[y] = o.roots[y]
      BY <1>3, <1>8 DEF TicketedTo
    <3>2. IsRoot(h, y - 1, o.roots[y]) /\ writes[<<b, y - 1>>].pc = "done"
      BY <1>3, <3>1 DEF Linked
    <3>3. writes'[<<b, y - 1>>] = writes[<<b, y - 1>>]
      BY <1>3, <1>7, <3>1
    <3> QED BY <1>13, <3>1, <3>2, <3>3 DEF IsRoot
  <2>2. ASSUME NEW u \in DOMAIN n.intervals
        PROVE  /\ n.intervals[u].offset = g.ws[u].offset /\ n.intervals[u].size = g.ws[u].size
               /\ n.intervals[u].root.size = g.ws[u].root_size
               /\ n.intervals[u].done => writes'[<<b, u>>].pc = "done"
    <3>1. CASE u = v
      BY <1>8, <1>9, <1>13, <3>1 DEF TicketedTo, ToldTo
    <3>2. CASE u # v
      <4>1. u \in DOMAIN o.intervals /\ n.intervals[u] = o.intervals[u]
        BY <1>8, <3>2 DEF TicketedTo
      <4>2. u \in 1..h.last
        BY <1>3, <4>1
      <4>3. writes'[<<b, u>>] = writes[<<b, u>>] /\ g.ws[u] = h.ws[u]
        BY <1>3, <1>7, <1>13, <4>2
      <4> QED BY <1>3, <4>1, <4>3 DEF Linked
    <3> QED BY <3>1, <3>2
  <2>3. SizeAt(g, g.last) = m
    BY <1>3, <1>9, <1>13 DEF SizeAt, ToldTo
  <2>4. n.progress_size <= m /\ n.max_size = m
    <3>1. n.max_size = m /\ (n.progress_size = off + size \/ n.progress_size = o.progress_size)
      BY <1>8 DEF TicketedTo
    <3> HIDE DEF m, n, o, off, top
    <3> QED BY <1>11, <1>12, <3>1
  <2> HIDE DEF m
  <2> QED BY <2>1, <2>2, <2>3, <2>4 DEF Linked
<1>23. TicketStep(b, off, size, m)
  BY <1>1, <1>4, <1>5, <1>8, <1>12 DEF TicketStep
<1>24. \E off_1 \in Nat, len_1 \in Nat \ {0}, m_1 \in Powers : TicketStep(b, off_1, len_1, m_1)
  <2> HIDE DEF off, m
  <2> QED BY <1>11, <1>12, <1>23
<1> QED BY <1>4, <1>17, <1>18, <1>19, <1>21, <1>22, <1>24 DEF StoreInv

\* A blob that starts from nothing, or from a version that is stored.
NewBlobOK(o) ==
    LET root == o.roots[1]
    IN  /\ Len(o.roots) = 1 /\ o.current_ticket = 1 /\ DOMAIN o.intervals = {}
        /\ root.size = 0 \/ root.size \in Powers
        /\ Closed(dht, root)
        /\ o.progress_size <= root.size
        /\ o.max_size = root.size \/ (root.size = 0 /\ o.max_size = 1)

\* A new blob, created or cloned, breaks nothing of what is stored.
LEMMA AddBlobInv ==
    ASSUME StoreInv, Inv', RootsFit', UNCHANGED <<dht, writes>>, NEW o, AddBlob(o), NewBlobOK(o)
    PROVE  StoreInv'
<1> DEFINE c == obj_count + 1
<1>1. obj_count \in Nat /\ Blobs = 1..obj_count /\ c \in Nat \ {0}
  BY BoundAssumption DEF StoreInv, Inv, TypeOK, Blobs
<1>2. obj_count' = c /\ obj_hash' = [id \in 1..c |-> IF id = c THEN o ELSE obj_hash[id]]
  BY DEF AddBlob
<1>3. Blobs' = 1..c
  BY <1>2 DEF Blobs
<1> HIDE DEF c
<1>4. /\ Blobs' = Blobs \cup {c} /\ c \notin Blobs
      /\ obj_hash'[c] = o /\ \A b \in Blobs : obj_hash'[b] = obj_hash[b]
  BY <1>1, <1>2, <1>3 DEF c
<1>5. WritesOK'
  <2>1. ASSUME NEW t \in Blobs' \X (1..MaxTickets)
        PROVE  t \in DOMAIN writes <=> t[2] < obj_hash'[t[1]].current_ticket
    <3>1. t[1] \in Blobs \cup {c} /\ t[2] \in 1..MaxTickets /\ t = <<t[1], t[2]>>
      BY <1>4
    <3>2. CASE t[1] \in Blobs
      <4>1. t \in Blobs \X (1..MaxTickets)
        BY <3>1, <3>2
      <4> QED BY <1>4, <3>2, <4>1 DEF StoreInv, WritesOK
    <3>3. CASE t[1] = c
      <4>1. obj_hash'[t[1]].current_ticket = 1
        BY <1>4, <3>3 DEF NewBlobOK
      <4>2. ~(t[2] < 1)
        BY <3>1, BoundAssumption
      <4>3. t \notin DOMAIN writes
        BY <1>4, <3>3 DEF StoreInv, WritesOK
      <4> QED BY <4>1, <4>2, <4>3
    <3> QED BY <3>1, <3>2, <3>3
  <2>2. \A t \in DOMAIN writes : t \in Blobs' \X (1..MaxTickets) /\ IsWrite(writes[t])
    BY <1>4 DEF StoreInv, WritesOK
  <2>3. DOMAIN writes = {t \in Blobs' \X (1..MaxTickets) : t[2] < obj_hash'[t[1]].current_ticket}
    BY <2>1, <2>2
  <2> QED BY <2>2, <2>3 DEF WritesOK, IsWrite
<1>6. KeysOwned'
  BY DEF StoreInv, KeysOwned
<1>7. DhtStep
  BY StoreKeys DEF DhtStep, DhtGrows
<1>8. ASSUME NEW b \in Blobs PROVE Linked(b)' /\ BlobOK(b)'
  BY <1>4, <1>7, BlobStays
<1>9. ASSUME NEW b, b = c PROVE Linked(b)' /\ BlobOK(b)'
  <2>1. obj_hash'[b] = o
    BY <1>4, <1>9
  <2>2. History(b)' = [id |-> b, base |-> o.roots[1], last |-> 0, ws |-> [x \in 1..0 |-> writes[<<b, x>>].w]]
    BY <2>1 DEF History, NewBlobOK
  <2> DEFINE h == History(b)'
  <2>3. h.id = b /\ h.base = o.roots[1] /\ h.last = 0
    BY <2>2
  <2> HIDE DEF h
  <2>4. HistoryOK(h)
    BY <1>1, <1>9, <2>3 DEF HistoryOK, NewBlobOK
  <2>5. SizeAt(h, h.last) = o.roots[1].size
    BY <2>3 DEF SizeAt
  <2>6. BlobOK(b)'
    BY <2>3, <2>4 DEF BlobOK, NewBlobOK, h
  <2>7. Linked(b)'
    BY <2>1, <2>5 DEF Linked, NewBlobOK, h
  <2> QED BY <2>6, <2>7
<1>10. ASSUME NEW b \in Blobs' PROVE Linked(b)' /\ BlobOK(b)'
  BY <1>4, <1>8, <1>9
<1> QED BY <1>5, <1>6, <1>10 DEF StoreInv

\* create
LEMMA StoreCreateInv ==
    ASSUME StoreInv, Inv', RootsFit', NEW ps \in PageSizes, StoreCreate(ps)
    PROVE  StoreInv'
<1> DEFINE o == NewObj(obj_count + 1, ps)
<1>1. AddBlob(o) /\ UNCHANGED <<dht, writes>>
  BY DEF StoreCreate, create
<1>2. ps = 1
  BY StoreAssumption
<1>3. /\ Len(o.roots) = 1 /\ o.current_ticket = 1 /\ DOMAIN o.intervals = {} /\ o.roots[1].size = 0
      /\ o.progress_size = 0 /\ o.max_size = 1
  BY <1>2 DEF NewObj
<1> HIDE DEF o
<1>4. Closed(dht, o.roots[1])
  BY <1>3 DEF Closed
<1>5. NewBlobOK(o)
  BY <1>3, <1>4 DEF NewBlobOK
<1> QED BY <1>1, <1>5, AddBlobInv

\* clone
LEMMA StoreCloneInv ==
    ASSUME StoreInv, Inv', RootsFit', NEW b \in Blobs, NEW version \in 0..MaxTickets, StoreClone(b, version)
    PROVE  StoreInv'
<1> DEFINE root == GetRoot(obj_hash[b], version)
           o == CloneObj(root)
<1>1. AddBlob(o) /\ UNCHANGED <<dht, writes>>
  BY DEF StoreClone, clone
<1>2. IsObjInfo(obj_hash[b]) /\ Fits(obj_hash[b]) /\ version \in Nat
  BY BlobFacts, BoundAssumption
<1>3. PICK k \in 1..Len(obj_hash[b].roots) : root = obj_hash[b].roots[k]
  BY <1>2, GetRootPublished
<1>4. Closed(dht, root) /\ (root.size = 0 \/ root.size \in Powers) /\ root.current_size <= root.size
  BY <1>2, <1>3, PublishedClosed DEF Fits
<1> HIDE DEF root
<1>5. /\ Len(o.roots) = 1 /\ o.current_ticket = 1 /\ DOMAIN o.intervals = {} /\ o.roots[1] = root
      /\ o.progress_size = root.current_size /\ o.max_size = root.size
  BY DEF CloneObj
<1> HIDE DEF o
<1>6. NewBlobOK(o)
  BY <1>4, <1>5 DEF NewBlobOK
<1> QED BY <1>1, <1>6, AddBlobInv

-----------------------------------------------------------------------------
(* The version manager does not notice what its clients do with the tree. *)

\* Every step of a writer is a step of the version manager or leaves it alone.
LEMMA StoreStepIsManagerStep == [StoreNext]_storeVars => [Next]_vars
<1> SUFFICES ASSUME [StoreNext]_storeVars PROVE [Next]_vars
  OBVIOUS
<1>1. ASSUME NEW ps \in PageSizes, StoreCreate(ps) PROVE Next
  BY <1>1 DEF StoreCreate, Next
<1>2. ASSUME NEW id \in Blobs, NEW version \in 0..MaxTickets, StoreClone(id, version) PROVE Next
  BY <1>2 DEF StoreClone, Next
<1>3. ASSUME NEW id \in Blobs, NEW offset \in Offsets, NEW size \in Sizes, NEW append \in Appends,
             GetTicket(id, offset, size, append) \/ GetTicketSpins(id, offset, size, append)
      PROVE  Next
  BY <1>3 DEF GetTicket, GetTicketSpins, Next
<1>4. ASSUME NEW id \in Blobs, NEW v \in 1..MaxTickets, Publish(id, v) PROVE Next
  BY <1>4 DEF Publish, Next
<1>5. ASSUME NEW id \in Blobs, NEW v \in 1..MaxTickets,
             PutLeaves(id, v) \/ PutInnerNodes(id, v) \/ Abandon(id, v)
      PROVE  UNCHANGED vars
  BY <1>5 DEF PutLeaves, PutInnerNodes, Abandon
<1>6. UNCHANGED storeVars => UNCHANGED vars
  BY DEF storeVars, vars
<1> QED BY <1>1, <1>2, <1>3, <1>4, <1>5, <1>6 DEF StoreNext

\* Writers that store their trees, fail or die are clients the version manager
\* serves: every behaviour of the store is one of the version manager.
THEOREM StoreImplementsManager == StoreSpec => Spec
<1>1. StoreInit => Init
  BY DEF StoreInit
<1> QED BY <1>1, StoreStepIsManagerStep, PTL DEF StoreSpec, Spec

-----------------------------------------------------------------------------
(* The invariant of the store. *)

\* The invariant holds of an empty store.
LEMMA StoreInitInv == StoreInit => StoreInv
<1> SUFFICES ASSUME StoreInit PROVE StoreInv
  OBVIOUS
<1>1. Init /\ dht = << >> /\ writes = << >> /\ obj_count = 0
  BY DEF StoreInit, Init
<1>2. Blobs = {} /\ DOMAIN dht = {} /\ DOMAIN writes = {}
  BY <1>1 DEF Blobs
<1>3. Inv /\ RootsFit
  BY <1>1, <1>2, InitInv DEF RootsFit
<1>4. WritesOK
  BY <1>2 DEF WritesOK
<1>5. KeysOwned
  BY <1>1, <1>2 DEF KeysOwned
<1> QED BY <1>2, <1>3, <1>4, <1>5 DEF StoreInv

\* Every step of a writer or of the version manager keeps it, and only adds nodes.
LEMMA StoreNextInv ==
    ASSUME SparseWrites = FALSE, LostGets = FALSE, StoreInv, [StoreNext]_storeVars
    PROVE  StoreInv' /\ DhtStep
<1>0. dht' = dht => DhtStep
  BY StoreKeys DEF DhtStep, DhtGrows
<1>1. Inv' /\ RootsFit'
  BY StoreStepIsManagerStep, NextInv, NextFits DEF StoreInv
<1>2. ASSUME NEW ps \in PageSizes, StoreCreate(ps) PROVE StoreInv' /\ DhtStep
  BY <1>0, <1>1, <1>2, StoreCreateInv DEF StoreCreate
<1>3. ASSUME NEW id \in Blobs, NEW version \in 0..MaxTickets, StoreClone(id, version)
      PROVE  StoreInv' /\ DhtStep
  BY <1>0, <1>1, <1>3, StoreCloneInv DEF StoreClone
<1>4. ASSUME NEW id \in Blobs, NEW offset \in Offsets, NEW size \in Sizes, NEW append \in Appends,
             GetTicket(id, offset, size, append)
      PROVE  StoreInv' /\ DhtStep
  BY <1>0, <1>1, <1>4, GetTicketInv DEF GetTicket
<1>5. ASSUME obj_hash' = obj_hash, obj_count' = obj_count, dht' = dht, writes' = writes
      PROVE  StoreInv' /\ DhtStep
  <2>1. Blobs' = Blobs /\ WritesOK' /\ KeysOwned'
    BY <1>5 DEF Blobs, StoreInv, WritesOK, KeysOwned, IsWrite
  <2>2. DhtStep
    BY <1>0, <1>5
  <2>3. ASSUME NEW b \in Blobs PROVE Linked(b)' /\ BlobOK(b)'
    BY <1>5, <2>2, BlobStays
  <2> QED BY <1>1, <2>1, <2>2, <2>3 DEF StoreInv
<1>6. ASSUME NEW id \in Blobs, NEW offset \in Offsets, NEW size \in Sizes, NEW append \in Appends,
             GetTicketSpins(id, offset, size, append)
      PROVE  StoreInv' /\ DhtStep
  BY <1>5, <1>6 DEF GetTicketSpins, get_ticket_spins
<1>7. ASSUME NEW id \in Blobs, NEW v \in 1..MaxTickets, PutLeaves(id, v) PROVE StoreInv' /\ DhtStep
  BY <1>7, PutLeavesInv
<1>8. ASSUME NEW id \in Blobs, NEW v \in 1..MaxTickets, PutInnerNodes(id, v) PROVE StoreInv' /\ DhtStep
  BY <1>8, PutInnerNodesInv
<1>9. ASSUME NEW id \in Blobs, NEW v \in 1..MaxTickets, Publish(id, v) PROVE StoreInv' /\ DhtStep
  BY <1>0, <1>1, <1>9, PublishInv DEF Publish
<1>10. ASSUME NEW id \in Blobs, NEW v \in 1..MaxTickets, Abandon(id, v) PROVE StoreInv' /\ DhtStep
  BY <1>10, AbandonInv
<1>11. CASE UNCHANGED storeVars
  BY <1>5, <1>11 DEF storeVars
<1> QED BY <1>2, <1>3, <1>4, <1>6, <1>7, <1>8, <1>9, <1>10, <1>11 DEF StoreNext

\* Whatever the interleaving of the writers, every tree the version manager serves
\* is complete, its nodes reach the pages of the latest write before it, and nodes
\* once stored are never written again. Under the two conditions the code does not
\* ensure: the holes of sparse writes, and lost answers of the DHT, break it.
THEOREM TreesAreRight ==
    ASSUME SparseWrites = FALSE, LostGets = FALSE
    PROVE  StoreSpec => []StoreInv
<1>1. StoreInv /\ [StoreNext]_storeVars => StoreInv'
  BY StoreNextInv
<1> QED BY <1>1, StoreInitInv, PTL DEF StoreSpec

-----------------------------------------------------------------------------
(* The store implements a sequence of snapshots. *)

\* A function on 1..n is a sequence, of its own values and any others.
OfLength(f, n) == n \in Nat /\ f = [i \in 1..n |-> f[i]]

\* Such a function is a sequence.
LEMMA SeqOf ==
    ASSUME NEW n, NEW f, OfLength(f, n), NEW S, \A i \in 1..n : f[i] \in S
    PROVE  f \in Seq(S) /\ Len(f) = n /\ DOMAIN f = 1..n
<1>1. f \in [1..n -> S] /\ n \in Nat
  BY DEF OfLength
<1>2. f \in Seq(S)
  BY <1>1, SeqDef
<1> QED BY <1>1, <1>2, LenProperties

\* What makes a sequence the result of Append, and of SubSeq.
LEMMA AppendIs ==
    ASSUME NEW n \in Nat, NEW f, OfLength(f, n), NEW e,
           NEW g, OfLength(g, n + 1), \A i \in 1..n : g[i] = f[i], g[n + 1] = e
    PROVE  g = Append(f, e)
<1> DEFINE S == {f[i] : i \in 1..n} \cup {e}
           a == Append(f, e)
<1>1. \A i \in 1..n : f[i] \in S
  OBVIOUS
<1>2. e \in S
  OBVIOUS
<1> HIDE DEF S
<1>3. f \in Seq(S) /\ Len(f) = n
  BY <1>1, SeqOf
<1>4. a \in Seq(S) /\ Len(a) = n + 1 /\ (\A i \in 1..n : a[i] = f[i]) /\ a[n + 1] = e
  BY <1>2, <1>3, AppendProperties
<1> HIDE DEF a
<1>5. \A i \in 1..(n + 1) : i = n + 1 \/ i \in 1..n
  OBVIOUS
<1>6. \A i \in 1..(n + 1) : g[i] = a[i] /\ g[i] \in S
  BY <1>1, <1>2, <1>4, <1>5
<1>8. g \in Seq(S) /\ Len(g) = n + 1
  BY <1>6, SeqOf
<1>9. g = a
  BY <1>4, <1>6, <1>8, SeqEqual
<1> QED BY <1>9 DEF a

\* What is left of a sequence when its first elements are taken.
LEMMA SubSeqIs ==
    ASSUME NEW n \in Nat, NEW f, OfLength(f, n), NEW k \in 0..n,
           NEW g, OfLength(g, n - k), \A i \in 1..(n - k) : g[i] = f[k + i]
    PROVE  g = SubSeq(f, k + 1, n)
<1> DEFINE S == {f[i] : i \in 1..n}
           s == SubSeq(f, k + 1, n)
<1>1. \A i \in 1..n : f[i] \in S
  OBVIOUS
<1> HIDE DEF S
<1>2. k + 1 \in Int /\ n \in Int /\ n - k \in Nat /\ \A i \in (k + 1)..n : i \in 1..n
  OBVIOUS
<1>3. s \in Seq(S) /\ Len(s) = (IF k + 1 <= n THEN n - (k + 1) + 1 ELSE 0)
      /\ \A i \in 1..(n - (k + 1) + 1) : s[i] = f[(k + 1) + i - 1]
  BY <1>1, <1>2, SubSeqProperties
<1> HIDE DEF s
<1>4. Len(s) = n - k
  BY <1>3
<1>5. ASSUME NEW i \in 1..(n - k) PROVE g[i] = s[i] /\ g[i] \in S
  <2>1. i \in 1..(n - (k + 1) + 1) /\ (k + 1) + i - 1 = k + i /\ k + i \in 1..n
    OBVIOUS
  <2>2. s[i] = f[k + i]
    BY <1>3, <2>1
  <2> QED BY <1>1, <2>1, <2>2
<1>6. g \in Seq(S) /\ Len(g) = n - k
  BY <1>5, SeqOf
<1>7. g = s
  BY <1>3, <1>4, <1>5, <1>6, SeqEqual
<1> QED BY <1>7 DEF s

\* The pages of a snapshot are those the largest tree has.
LEMMA PagesAre ==
    /\ PageNumbers \subseteq Nat
    /\ \A m \in Powers : \A p \in Nat : p < m => p \in PageNumbers
<1>1. Word \in Nat /\ Word \div 2 \in Int
  BY WidthAssumption DEF Word
<1>2. PageNumbers \subseteq Nat
  BY <1>1 DEF PageNumbers
<1>3. ASSUME NEW m \in Powers, NEW p \in Nat, p < m PROVE p \in PageNumbers
  <2>1. m \in Nat \ {0} /\ m < Word
    BY PowerBelow
  <2>2. PICK i \in 0..(Width - 1) : m = 2^i
    BY DEF Powers
  <2> DEFINE t == 2^(Width - 1)
  <2>3. Width - 1 \in 0..(Width - 1) /\ Width - 1 \in 0..Width /\ (Width - 1) + 1 = Width
    BY <2>2, WidthAssumption
  <2>4. t \in Powers /\ t \in Nat /\ Word = 2 * t
    BY <2>3, WidthAssumption DEF Powers, Word
  <2> HIDE DEF t
  <2>5. m <= t
    <3>1. SUFFICES ASSUME t < m PROVE FALSE
      BY <2>1, <2>4
    <3>2. 2 * t <= m
      BY <2>4, <3>1, PowersApart
    <3> QED BY <2>1, <2>4, <3>2
  <2>6. Word \div 2 = t
    BY <2>4
  <2> QED BY <1>3, <2>1, <2>4, <2>5, <2>6 DEF PageNumbers
<1> QED BY <1>2, <1>3

\* A snapshot as read from a given DHT, and the writes in flight of a blob.
SnapshotIn(d, root) ==
    [id |-> root.id, version |-> root.version, pages |-> [p \in PageNumbers |-> ReadPage(d, root, p)]]

SnapshotsIn(d, o) == [k \in DOMAIN o.roots |-> SnapshotIn(d, o.roots[k])]

PendingWrite(e) == [offset |-> e.offset, size |-> e.size, done |-> e.done]

PendingOf(o) ==
    [i \in 1..(o.current_ticket - Len(o.roots)) |-> PendingWrite(o.intervals[Len(o.roots) + i - 1])]

\* The snapshots and the writes in flight, blob by blob.
LEMMA MappedTo ==
    /\ Snapshots = [id \in Blobs |-> SnapshotsIn(dht, obj_hash[id])]
    /\ Snapshots' = [id \in Blobs' |-> SnapshotsIn(dht', obj_hash'[id])]
    /\ Pending = [id \in Blobs |-> PendingOf(obj_hash[id])]
    /\ Pending' = [id \in Blobs' |-> PendingOf(obj_hash'[id])]
BY DEF Snapshots, Snapshot, SnapshotsIn, SnapshotIn, Pending, PendingOf, PendingWrite

\* The snapshots of a blob stay what they are.
LEMMA SnapshotsStay ==
    ASSUME StoreInv, DhtStep, NEW b \in Blobs
    PROVE  \A k \in 1..Len(obj_hash[b].roots) :
              SnapshotIn(dht', obj_hash[b].roots[k]) = SnapshotIn(dht, obj_hash[b].roots[k])
<1> SUFFICES ASSUME NEW k \in 1..Len(obj_hash[b].roots)
             PROVE  SnapshotIn(dht', obj_hash[b].roots[k]) = SnapshotIn(dht, obj_hash[b].roots[k])
  OBVIOUS
<1> DEFINE root == obj_hash[b].roots[k]
<1>1. Closed(dht, root) /\ (root.size = 0 \/ root.size \in Powers)
  BY PublishedClosed
<1>2. DhtGrows(dht, dht') /\ KeysOK(dht')
  BY DEF DhtStep
<1> HIDE DEF root
<1>3. \A p \in PageNumbers : ReadPage(dht', root, p) = ReadPage(dht, root, p)
  BY <1>1, <1>2, PagesAre, ReadGrows
<1>4. SnapshotIn(dht', root) = SnapshotIn(dht, root)
  BY <1>3 DEF SnapshotIn
<1> QED BY <1>4 DEF root

\* The roots of a blob are a sequence.
LEMMA RootsAre ==
    ASSUME StoreInv, NEW b \in Blobs
    PROVE  DOMAIN obj_hash[b].roots = 1..Len(obj_hash[b].roots) /\ Len(obj_hash[b].roots) \in Nat \ {0}
BY BlobFacts, LenProperties DEF IsObjInfo

\* A step that only stores nodes is not visible.
LEMMA StoringStutters ==
    ASSUME StoreInv, DhtStep, obj_hash' = obj_hash, Blobs' = Blobs
    PROVE  Snapshots' = Snapshots /\ Pending' = Pending
<1>1. ASSUME NEW b \in Blobs PROVE SnapshotsIn(dht', obj_hash[b]) = SnapshotsIn(dht, obj_hash[b])
  BY SnapshotsStay, RootsAre DEF SnapshotsIn
<1> QED BY <1>1, MappedTo

\* An empty store maps to no snapshots.
LEMMA StoreStarts == StoreInit => Abstract!Init
<1> SUFFICES ASSUME StoreInit PROVE Abstract!Init
  OBVIOUS
<1>1. Blobs = {}
  BY DEF StoreInit, Init, Blobs
<1>2. Snapshots = << >> /\ Pending = << >>
  BY <1>1 DEF Snapshots, Pending
<1> QED BY <1>2 DEF Abstract!Init

\* A new blob has one snapshot and nothing in flight.
LEMMA AddBlobMapped ==
    ASSUME StoreInv, dht' = dht, NEW o, AddBlob(o), o.current_ticket = 1, NEW root, o.roots = <<root>>
    PROVE  /\ Abstract!NewBlob(SnapshotIn(dht, root))
           /\ Len(Snapshots) = obj_count
<1> DEFINE c == obj_count + 1
<1>1. obj_count \in Nat /\ Blobs = 1..obj_count
  BY BoundAssumption DEF StoreInv, Inv, TypeOK, Blobs
<1>2. obj_count' = c /\ obj_hash' = [id \in 1..c |-> IF id = c THEN o ELSE obj_hash[id]]
  BY DEF AddBlob
<1>3. Blobs' = 1..c
  BY <1>2 DEF Blobs
<1>4. obj_hash'[c] = o /\ c \in Blobs' /\ \A b \in 1..obj_count : b \in Blobs' /\ obj_hash'[b] = obj_hash[b]
  BY <1>1, <1>2, <1>3
<1>5. SnapshotsIn(dht, o) = <<SnapshotIn(dht, root)>>
  <2>1. DOMAIN o.roots = {1} /\ o.roots[1] = root
    OBVIOUS
  <2>2. SnapshotsIn(dht, o) = [k \in {1} |-> SnapshotIn(dht, root)]
    BY <2>1 DEF SnapshotsIn
  <2>3. <<SnapshotIn(dht, root)>> = [k \in {1} |-> SnapshotIn(dht, root)]
    OBVIOUS
  <2> QED BY <2>2, <2>3
<1>6. PendingOf(o) = << >>
  <2>1. Len(o.roots) = 1 /\ 1..(1 - 1) = {}
    OBVIOUS
  <2> QED BY <2>1 DEF PendingOf
<1>7. /\ OfLength(Snapshots, obj_count) /\ OfLength(Pending, obj_count)
      /\ OfLength(Snapshots', c) /\ OfLength(Pending', c)
  <2>1. /\ Snapshots = [id \in 1..obj_count |-> Snapshots[id]]
        /\ Pending = [id \in 1..obj_count |-> Pending[id]]
        /\ Snapshots' = [id \in 1..c |-> Snapshots'[id]]
        /\ Pending' = [id \in 1..c |-> Pending'[id]]
    BY <1>1, <1>3, MappedTo
  <2>2. obj_count \in Nat /\ c \in Nat
    BY <1>1
  <2> HIDE DEF c
  <2> QED BY <2>1, <2>2 DEF OfLength
<1>8. /\ \A id \in 1..obj_count : Snapshots'[id] = Snapshots[id] /\ Pending'[id] = Pending[id]
      /\ Snapshots'[c] = <<SnapshotIn(dht, root)>> /\ Pending'[c] = << >>
  BY <1>1, <1>4, <1>5, <1>6, MappedTo
<1>9. Snapshots' = Append(Snapshots, <<SnapshotIn(dht, root)>>)
  BY <1>1, <1>7, <1>8, AppendIs
<1>10. Pending' = Append(Pending, << >>)
  BY <1>1, <1>7, <1>8, AppendIs
<1>11. Len(Snapshots) = obj_count
  <2> DEFINE S == {Snapshots[i] : i \in 1..obj_count}
  <2>1. \A i \in 1..obj_count : Snapshots[i] \in S
    OBVIOUS
  <2> HIDE DEF S
  <2> QED BY <1>1, <1>7, <2>1, SeqOf
<1> QED BY <1>9, <1>10, <1>11 DEF Abstract!NewBlob

\* create (vmanagement.cpp) adds a blob of one empty snapshot.
LEMMA CreateMapped ==
    ASSUME StoreInv, NEW ps \in PageSizes, StoreCreate(ps)
    PROVE  Abstract!Create
<1> DEFINE o == NewObj(obj_count + 1, ps)
           root == [id |-> obj_count + 1, version |-> 0, size |-> 0, current_size |-> 0, page_size |-> ps]
           empty == [id |-> obj_count + 1, version |-> 0, pages |-> [p \in PageNumbers |-> Unreadable]]
<1>1. AddBlob(o) /\ dht' = dht
  BY DEF StoreCreate, create
<1>2. o.roots = <<root>> /\ o.current_ticket = 1
  BY DEF NewObj
<1>3. root.id = obj_count + 1 /\ root.version = 0 /\ root.size = 0
  OBVIOUS
<1> HIDE DEF o, root
<1>4. Abstract!NewBlob(SnapshotIn(dht, root)) /\ Len(Snapshots) = obj_count
  BY <1>1, <1>2, AddBlobMapped
<1>5. SnapshotIn(dht, root) = empty
  <2>1. \A p \in PageNumbers : ReadPage(dht, root, p) = Unreadable
    BY <1>3, PagesAre DEF ReadPage
  <2> QED BY <1>3, <2>1 DEF SnapshotIn
<1> QED BY <1>4, <1>5 DEF Abstract!Create

\* clone (vmanagement.cpp) adds a blob whose first snapshot is that of the version cloned,
\* which its own tree's nodes are shared for.
LEMMA CloneMapped ==
    ASSUME StoreInv, NEW b \in Blobs, NEW version \in 0..MaxTickets, StoreClone(b, version)
    PROVE  Abstract!Clone
<1> DEFINE root == GetRoot(obj_hash[b], version)
           o == CloneObj(root)
           len == Len(obj_hash[b].roots)
<1>1. AddBlob(o) /\ dht' = dht
  BY DEF StoreClone, clone
<1>2. DOMAIN obj_hash[b].roots = 1..len /\ len \in Nat \ {0} /\ version \in Nat
  BY RootsAre, BoundAssumption
<1>3. PICK k \in 1..len : root = obj_hash[b].roots[k] /\ (k > 1 \/ k = len)
  <2>1. CASE version = 0 \/ version >= len
    <3>1. root = obj_hash[b].roots[len] /\ len \in 1..len
      BY <1>2, <2>1 DEF GetRoot, LatestRoot
    <3> QED BY <3>1
  <2>2. CASE ~(version = 0 \/ version >= len)
    <3>1. root = obj_hash[b].roots[version + 1] /\ version + 1 \in 1..len /\ version + 1 > 1
      BY <1>2, <2>2 DEF GetRoot
    <3> QED BY <3>1
  <2> QED BY <2>1, <2>2
<1> HIDE DEF root
<1>4. o.roots = <<root>> /\ o.current_ticket = 1
  BY DEF CloneObj
<1> HIDE DEF o
<1>5. Abstract!NewBlob(SnapshotIn(dht, root))
  BY <1>1, <1>4, AddBlobMapped
<1>6. b \in DOMAIN Snapshots /\ Snapshots[b] = [j \in 1..len |-> SnapshotIn(dht, obj_hash[b].roots[j])]
  BY <1>2, MappedTo DEF SnapshotsIn
<1>7. k \in DOMAIN Snapshots[b] /\ Snapshots[b][k] = SnapshotIn(dht, root)
  BY <1>3, <1>6
<1>8. Len(Snapshots[b]) = len
  <2> DEFINE S == {Snapshots[b][i] : i \in 1..len}
  <2>1. \A i \in 1..len : Snapshots[b][i] \in S
    OBVIOUS
  <2>2. OfLength(Snapshots[b], len)
    BY <1>2, <1>6 DEF OfLength
  <2> HIDE DEF S, len
  <2> QED BY <2>1, <2>2, SeqOf
<1> QED BY <1>3, <1>5, <1>6, <1>7, <1>8 DEF Abstract!Clone, Abstract!Blobs

\* The writes in flight of a blob are a sequence.
LEMMA PendingAre ==
    ASSUME StoreInv, NEW b \in Blobs
    PROVE  LET o == obj_hash[b]
               len == o.current_ticket - Len(o.roots)
           IN  /\ len \in Nat /\ Pending[b] = PendingOf(o) /\ OfLength(Pending[b], len)
               /\ Len(Pending[b]) = len /\ DOMAIN Pending[b] = 1..len
               /\ \A i \in 1..len : Pending[b][i] = PendingWrite(o.intervals[Len(o.roots) + i - 1])
<1> DEFINE o == obj_hash[b]
           len == o.current_ticket - Len(o.roots)
           S == {Pending[b][i] : i \in 1..len}
<1>1. len \in Nat
  BY BlobFacts
<1>2. Pending[b] = PendingOf(o)
  BY MappedTo
<1>3. Pending[b] = [i \in 1..len |-> PendingWrite(o.intervals[Len(o.roots) + i - 1])]
  BY <1>2 DEF PendingOf
<1>4. /\ OfLength(Pending[b], len)
      /\ \A i \in 1..len : Pending[b][i] = PendingWrite(o.intervals[Len(o.roots) + i - 1])
  BY <1>1, <1>3 DEF OfLength
<1>5. \A i \in 1..len : Pending[b][i] \in S
  OBVIOUS
<1> HIDE DEF S, len
<1>6. Len(Pending[b]) = len /\ DOMAIN Pending[b] = 1..len
  BY <1>1, <1>4, <1>5, SeqOf
<1> QED BY <1>1, <1>2, <1>4, <1>6 DEF len

\* A ticket begins a write.
LEMMA BeginMapped ==
    ASSUME StoreInv, DhtStep, NEW b \in Blobs, NEW off \in Nat, NEW size \in Nat \ {0}, NEW m \in Powers,
           TicketStep(b, off, size, m)
    PROVE  Abstract!Begin
<1> DEFINE o == obj_hash[b]
           n == obj_hash'[b]
           v == o.current_ticket
           last == (off + size) - 1
           len == v - Len(o.roots)
           w == [offset |-> off, size |-> size, done |-> FALSE]
<1>1. /\ off + size <= m /\ TicketedTo(o, off, size, m, n) /\ dht' = dht /\ Blobs' = Blobs
      /\ \A c \in Blobs : c # b => obj_hash'[c] = obj_hash[c]
  BY DEF TicketStep
<1>2. /\ v \in Nat \ {0} /\ Len(o.roots) \in Nat \ {0} /\ Len(o.roots) <= v
      /\ DOMAIN o.intervals = Len(o.roots)..(v - 1)
  BY BlobFacts
<1>3. /\ n.roots = o.roots /\ n.current_ticket = v + 1
      /\ \A u \in DOMAIN o.intervals : n.intervals[u] = o.intervals[u]
      /\ n.intervals[v].offset = off /\ n.intervals[v].size = size /\ n.intervals[v].done = FALSE
  BY <1>1 DEF TicketedTo
<1>4. off \in PageNumbers /\ last \in PageNumbers /\ off <= last /\ (last - off) + 1 = size
  <2>1. m \in Nat
    BY PowerFacts
  <2>2. off < m /\ last < m /\ last \in Nat /\ off <= last /\ (last - off) + 1 = size
    BY <1>1, <2>1
  <2> HIDE DEF last
  <2> QED BY <2>2, PagesAre
<1>5. /\ OfLength(Pending[b], len) /\ len \in Nat
      /\ Len(Pending[b]) = len
      /\ \A i \in 1..len : Pending[b][i] = PendingWrite(o.intervals[Len(o.roots) + i - 1])
  BY PendingAre
<1>6. PendingWrite(n.intervals[v]) = w
  BY <1>3 DEF PendingWrite
<1>7. Pending'[b] = [i \in 1..(len + 1) |-> PendingWrite(n.intervals[Len(o.roots) + i - 1])]
  <2>1. Pending'[b] = PendingOf(n)
    BY <1>1, MappedTo
  <2>2. n.current_ticket - Len(n.roots) = len + 1
    BY <1>2, <1>3
  <2> HIDE DEF n, len
  <2> QED BY <1>3, <2>1, <2>2 DEF PendingOf
<1>8. OfLength(Pending'[b], len + 1)
  BY <1>5, <1>7 DEF OfLength
<1>9. \A i \in 1..len : Pending'[b][i] = Pending[b][i]
  <2> SUFFICES ASSUME NEW i \in 1..len PROVE Pending'[b][i] = Pending[b][i]
    OBVIOUS
  <2>1. i \in 1..(len + 1) /\ Len(o.roots) + i - 1 \in DOMAIN o.intervals
    <3> HIDE DEF o
    <3> QED BY <1>2 DEF v
  <2>2. n.intervals[Len(o.roots) + i - 1] = o.intervals[Len(o.roots) + i - 1]
    BY <1>3, <2>1
  <2> HIDE DEF n, len, o
  <2> QED BY <1>5, <1>7, <2>1, <2>2
<1>10. Pending'[b][len + 1] = w
  <2>1. len + 1 \in 1..(len + 1) /\ Len(o.roots) + (len + 1) - 1 = v
    BY <1>2
  <2> HIDE DEF n, len, o, w
  <2> QED BY <1>6, <1>7, <2>1
<1>11. Pending'[b] = Append(Pending[b], w)
  <2> DEFINE f == Pending[b]
             g == Pending'[b]
  <2>1. len \in Nat /\ OfLength(f, len) /\ OfLength(g, len + 1)
    BY <1>5, <1>8
  <2>2. (\A i \in 1..len : g[i] = f[i]) /\ g[len + 1] = w
    BY <1>9, <1>10
  <2> HIDE DEF len, w, f, g
  <2>3. g = Append(f, w)
    BY <2>1, <2>2, AppendIs
  <2> QED BY <2>3 DEF f, g
<1>12. Len(Pending'[b]) = Len(Pending[b]) + 1
  <2> DEFINE S == {Pending'[b][i] : i \in 1..(len + 1)}
  <2>1. \A i \in 1..(len + 1) : Pending'[b][i] \in S
    OBVIOUS
  <2> HIDE DEF S, len
  <2> QED BY <1>5, <1>8, <2>1, SeqOf
<1>13. Pending' = [Pending EXCEPT ![b] = Append(Pending[b], w)]
  <2>1. DOMAIN Pending = Blobs /\ Pending' = [c \in Blobs |-> Pending'[c]]
        /\ \A c \in Blobs : c # b => Pending'[c] = Pending[c]
    BY <1>1, MappedTo
  <2> HIDE DEF w
  <2> QED BY <1>11, <2>1
<1>14. Snapshots' = Snapshots
  <2>1. ASSUME NEW c \in Blobs PROVE SnapshotsIn(dht', obj_hash'[c]) = SnapshotsIn(dht, obj_hash[c])
    <3>1. obj_hash'[c].roots = obj_hash[c].roots
      BY <1>1, <1>3
    <3> QED BY <1>1, <3>1 DEF SnapshotsIn
  <2> QED BY <1>1, <2>1, MappedTo
<1>15. b \in DOMAIN Snapshots
  BY MappedTo
<1> HIDE DEF last
<1>16. \E first_1 \in PageNumbers, last_1 \in PageNumbers :
          /\ first_1 <= last_1
          /\ Pending' = [Pending EXCEPT ![b] =
                            Append(@, [offset |-> first_1, size |-> last_1 - first_1 + 1, done |-> FALSE])]
  <2>1. w = [offset |-> off, size |-> last - off + 1, done |-> FALSE]
    BY <1>4
  <2> QED BY <1>4, <1>13, <2>1
<1> QED BY <1>12, <1>14, <1>15, <1>16 DEF Abstract!Begin, Abstract!Blobs

\* The snapshot a write leads to.
LEMMA SnapshotApplied ==
    ASSUME NEW d, NEW h, HistoryOK(h), KeysOK(d), Closed(d, h.base), NEW v \in 1..h.last,
           CompleteTo(d, h, v), NEW root, IsRoot(h, v, root), NEW before, IsRoot(h, v - 1, before),
           NEW w, w.offset = h.ws[v].offset, w.size = h.ws[v].size
    PROVE  SnapshotIn(d, root) = Abstract!Apply(SnapshotIn(d, before), h.id, v, w)
<1>1. root.id = h.id /\ root.version = v
  <2>1. v # 0
    BY DEF HistoryOK
  <2> QED BY <2>1 DEF IsRoot
<1>2. ASSUME NEW p \in PageNumbers
      PROVE  ReadPage(d, root, p) = IF p >= w.offset /\ p < w.offset + w.size
                                    THEN PageKey(h.id, v, p - w.offset)
                                    ELSE SnapshotIn(d, before).pages[p]
  <2>1. SnapshotIn(d, before).pages[p] = ReadPage(d, before, p)
    BY DEF SnapshotIn
  <2>2. p \in Nat
    BY PagesAre
  <2> QED BY <2>1, <2>2, WriteApplied
<1> DEFINE s == SnapshotIn(d, before)
<1> HIDE DEF s
<1>3. SnapshotIn(d, root) = [id |-> h.id, version |-> v,
                             pages |-> [p \in PageNumbers |-> IF p >= w.offset /\ p < w.offset + w.size
                                                              THEN PageKey(h.id, v, p - w.offset)
                                                              ELSE s.pages[p]]]
  BY <1>1, <1>2 DEF SnapshotIn, s
<1> QED BY <1>3 DEF Abstract!Apply, s

\* The snapshots further writes lead to are the only ones of which each is
\* the one before it with its write applied.
LEMMA ExtendedIs ==
    ASSUME NEW b, NEW k \in Nat, NEW len \in Nat \ {0}, Len(Snapshots[b]) = len,
           NEW F, OfLength(F, len + k), \A j \in 1..len : F[j] = Snapshots[b][j],
           \A j \in (len + 1)..(len + k) : F[j] = Abstract!Apply(F[j - 1], b, j - 1, Pending[b][j - len])
    PROVE  Abstract!Extended(b, k) = F
<1> DEFINE D == 1..(len + k)
           E(f, j) == IF j <= len THEN Snapshots[b][j]
                      ELSE Abstract!Apply(f[j - 1], b, j - 1, Pending[b][j - len])
           X == CHOOSE f : f = [j \in D |-> E(f, j)]
<1>1. \A j \in D : F[j] = E(F, j)
  <2> SUFFICES ASSUME NEW j \in D PROVE F[j] = E(F, j)
    OBVIOUS
  <2>1. j <= len => j \in 1..len
    OBVIOUS
  <2>2. ~(j <= len) => j \in (len + 1)..(len + k)
    OBVIOUS
  <2> QED BY <2>1, <2>2
<1>2. F = [j \in D |-> F[j]]
  BY DEF OfLength
<1>3. F = [j \in D |-> E(F, j)]
  BY <1>1, <1>2
<1>4. X = [j \in D |-> E(X, j)]
  BY <1>3
<1>5. Abstract!Extended(b, k) = X
  BY DEF Abstract!Extended
<1> HIDE DEF X
<1> DEFINE S == {j \in 0..(len + k) : j = 0 \/ X[j] = F[j]}
<1>6. ASSUME NEW j \in 0..((len + k) - 1), j \in S PROVE j + 1 \in S
  <2>1. j + 1 \in D /\ (j + 1) - 1 = j /\ j + 1 \in 0..(len + k)
    OBVIOUS
  <2>2. X[j + 1] = E(X, j + 1) /\ F[j + 1] = E(F, j + 1)
    BY <1>1, <1>4, <2>1
  <2>3. E(X, j + 1) = E(F, j + 1)
    <3>1. CASE j + 1 <= len
      BY <3>1
    <3>2. CASE ~(j + 1 <= len)
      <4>1. j # 0
        BY <3>2
      <4>2. X[j] = F[j]
        BY <1>6, <4>1
      <4> QED BY <2>1, <3>2, <4>2
    <3> QED BY <3>1, <3>2
  <2> HIDE DEF E
  <2> QED BY <2>1, <2>2, <2>3
<1>7. 0 \in S /\ len + k \in Nat
  OBVIOUS
<1> HIDE DEF S
<1>8. 0..(len + k) \subseteq S
  BY <1>6, <1>7, Induction
<1>9. \A j \in D : X[j] = F[j]
  BY <1>8 DEF S
<1>10. X = [j \in D |-> X[j]]
  BY <1>4
<1>11. X = F
  <2> HIDE DEF D
  <2> QED BY <1>2, <1>9, <1>10
<1> QED BY <1>5, <1>11

\* Completing one of the writes in flight.
LEMMA MarkedIs ==
    ASSUME NEW n, NEW f, OfLength(f, n), NEW i \in 1..n, NEW e, f[i] = PendingWrite(e)
    PROVE  LET marked == [f EXCEPT ![i].done = TRUE]
           IN  /\ OfLength(marked, n)
               /\ marked[i] = [offset |-> e.offset, size |-> e.size, done |-> TRUE]
               /\ \A j \in 1..n : j # i => marked[j] = f[j]
<1> DEFINE entry == [f[i] EXCEPT !.done = TRUE]
           marked == [f EXCEPT ![i] = entry]
<1>1. entry = [offset |-> e.offset, size |-> e.size, done |-> TRUE]
  <2>1. ASSUME NEW r, r = [offset |-> e.offset, size |-> e.size, done |-> e.done], NEW t
        PROVE  [r EXCEPT !.done = t] = [offset |-> e.offset, size |-> e.size, done |-> t]
    BY <2>1
  <2>2. f[i] = [offset |-> e.offset, size |-> e.size, done |-> e.done]
    BY DEF PendingWrite
  <2> QED BY <2>1, <2>2, Zenon
<1>2. [f EXCEPT ![i].done = TRUE] = marked
  BY Zenon
<1> HIDE DEF entry
<1>3. DOMAIN f = 1..n /\ n \in Nat
  BY DEF OfLength
<1>4. /\ OfLength(marked, n) /\ marked[i] = entry
      /\ \A j \in 1..n : j # i => marked[j] = f[j]
  BY <1>3 DEF OfLength
<1> QED BY <1>1, <1>2, <1>4

\* A completed write publishes what it should.
LEMMA CompleteMapped ==
    ASSUME StoreInv, StoreInv', NEW b, NEW x, NEW next \in Nat, PublishStep(b, x, next)
    PROVE  Abstract!Complete
<1> DEFINE o == obj_hash[b]
           n == obj_hash'[b]
           h == History(b)
           len == Len(o.roots)
           ct == o.current_ticket
           num == ct - len
           k == next - len
           i == (x - len) + 1
           f == Pending[b]
           marked == [f EXCEPT ![i].done = TRUE]
           entry(j) == [offset |-> o.intervals[(len + j) - 1].offset, size |-> o.intervals[(len + j) - 1].size,
                        done |-> Completed(o, x, (len + j) - 1)]
<1>1. /\ b \in Blobs /\ x \in DOMAIN o.intervals /\ DrainStops(o, x, next) /\ DrainedTo(o, x, next, n)
      /\ dht' = dht /\ Blobs' = Blobs /\ History(b)' = h
      /\ \A c \in Blobs : c # b => obj_hash'[c] = obj_hash[c]
  BY DEF PublishStep
<1>2. /\ len \in Nat \ {0} /\ ct \in Nat \ {0} /\ len <= ct /\ DOMAIN o.intervals = len..(ct - 1)
      /\ h.last = ct - 1 /\ h.base = o.roots[1] /\ h.id = b
      /\ \A u \in DOMAIN o.intervals : o.intervals[u].done \in BOOLEAN
      /\ HistoryOK(h) /\ Closed(dht, h.base) /\ KeysOK(dht) /\ Linked(b)
  <2>1. /\ len \in Nat \ {0} /\ ct \in Nat \ {0} /\ len <= ct /\ DOMAIN o.intervals = len..(ct - 1)
        /\ h.last = ct - 1 /\ h.base = o.roots[1] /\ h.id = b
        /\ HistoryOK(h) /\ Closed(dht, h.base) /\ KeysOK(dht) /\ Linked(b) /\ IsObjInfo(o)
    BY <1>1, BlobFacts, StoreKeys
  <2>2. \A u \in DOMAIN o.intervals : o.intervals[u].done \in BOOLEAN
    BY <2>1 DEF IsObjInfo, interval_t
  <2> QED BY <2>1, <2>2
<1>3. next \in len..ct /\ Len(n.roots) = next /\ n.current_ticket = ct
  BY <1>1 DEF DrainedTo
<1>4. /\ num \in Nat /\ k \in 0..num /\ i \in 1..num /\ (len + i) - 1 = x /\ len + k = next /\ k \in Nat
      /\ num - k = ct - next
      /\ \A j \in 1..num : (len + j) - 1 \in DOMAIN o.intervals /\ ((len + j) - 1 = x => j = i)
  <2>1. x \in len..(ct - 1)
    BY <1>1, <1>2
  <2>2. /\ len \in Nat \ {0} /\ ct \in Nat \ {0} /\ len <= ct /\ next \in len..ct
        /\ DOMAIN o.intervals = len..(ct - 1)
    BY <1>2, <1>3
  <2> HIDE DEF len, ct, o
  <2>3. /\ num \in Nat /\ k \in 0..num /\ i \in 1..num /\ (len + i) - 1 = x /\ len + k = next /\ k \in Nat
        /\ num - k = ct - next
    BY <2>1, <2>2
  <2>4. \A j \in 1..num : (len + j) - 1 \in len..(ct - 1) /\ ((len + j) - 1 = x => j = i)
    BY <2>1, <2>2
  <2> QED BY <2>2, <2>3, <2>4
<1>4a. /\ \A j \in 1..k : j \in 1..num /\ (len + j) - 1 \in DOMAIN o.intervals /\ (len + j) - 1 < next
       /\ k < num => k + 1 \in 1..num /\ (len + (k + 1)) - 1 = next /\ next # ct
       /\ ct - next \in Nat
       /\ \A j \in 1..(num - k) : /\ j \in 1..(ct - next) /\ next + j - 1 \in next..(ct - 1)
                                  /\ k + j \in 1..num /\ (len + (k + j)) - 1 = next + j - 1
       /\ \A j \in (len + 1)..next :
            /\ j - 1 \in 1..(ct - 1) /\ j - 1 \in DOMAIN o.intervals /\ j \in 1..next /\ j - 1 \in 1..next
            /\ j \in 2..next /\ j - len \in 1..num /\ (len + (j - len)) - 1 = j - 1
  <2>1. /\ len \in Nat \ {0} /\ ct \in Nat \ {0} /\ len <= ct /\ next \in len..ct
        /\ DOMAIN o.intervals = len..(ct - 1)
    BY <1>2, <1>3
  <2> HIDE DEF len, ct, o
  <2>2. \A j \in 1..k : j \in 1..num /\ (len + j) - 1 \in len..(ct - 1) /\ (len + j) - 1 < next
    BY <2>1
  <2>3. k < num => k + 1 \in 1..num /\ (len + (k + 1)) - 1 = next /\ next # ct
    BY <2>1
  <2>4. /\ ct - next \in Nat
        /\ \A j \in 1..(num - k) : /\ j \in 1..(ct - next) /\ next + j - 1 \in next..(ct - 1)
                                   /\ k + j \in 1..num /\ (len + (k + j)) - 1 = next + j - 1
    BY <2>1
  <2>5. \A j \in (len + 1)..next :
            /\ j - 1 \in 1..(ct - 1) /\ j - 1 \in len..(ct - 1) /\ j \in 1..next /\ j - 1 \in 1..next
            /\ j \in 2..next /\ j - len \in 1..num /\ (len + (j - len)) - 1 = j - 1
    BY <2>1
  <2> QED BY <2>1, <2>2, <2>3, <2>4, <2>5
<1>5. /\ OfLength(f, num) /\ Len(f) = num /\ DOMAIN f = 1..num
      /\ \A j \in 1..num : f[j] = PendingWrite(o.intervals[(len + j) - 1])
  <2>1. /\ OfLength(f, num) /\ Len(f) = num /\ DOMAIN f = 1..num
        /\ \A j \in 1..num : f[j] = PendingWrite(o.intervals[len + j - 1])
    BY <1>1, PendingAre
  <2> QED BY <2>1
<1>6. /\ OfLength(marked, num) /\ Len(marked) = num
      /\ \A j \in 1..num : marked[j] = entry(j)
  <2>1. /\ OfLength(marked, num)
        /\ marked[i] = [offset |-> o.intervals[x].offset, size |-> o.intervals[x].size, done |-> TRUE]
        /\ \A j \in 1..num : j # i => marked[j] = f[j]
    <3>1. f[i] = PendingWrite(o.intervals[x])
      BY <1>4, <1>5
    <3> HIDE DEF f, i, num, o
    <3> QED BY <1>4, <1>5, <3>1, MarkedIs
  <2> HIDE DEF marked
  <2>2. Len(marked) = num
    <3> DEFINE S == {marked[j] : j \in 1..num}
    <3>1. \A j \in 1..num : marked[j] \in S
      OBVIOUS
    <3> HIDE DEF S, num
    <3> QED BY <2>1, <3>1, SeqOf
  <2>3. ASSUME NEW j \in 1..num PROVE marked[j] = entry(j)
    <3> DEFINE u == (len + j) - 1
    <3>1. u \in DOMAIN o.intervals /\ (u = x <=> j = i)
      BY <1>4
    <3> HIDE DEF u, i
    <3>2. CASE j = i
      <4>1. Completed(o, x, u) = TRUE
        BY <3>1, <3>2 DEF Completed
      <4>2. marked[j] = [offset |-> o.intervals[u].offset, size |-> o.intervals[u].size, done |-> Completed(o, x, u)]
        BY <2>1, <3>1, <3>2, <4>1
      <4> QED BY <4>2 DEF u
    <3>3. CASE j # i
      <4>1. Completed(o, x, u) = o.intervals[u].done
        BY <1>2, <3>1, <3>3 DEF Completed
      <4>2. marked[j] = PendingWrite(o.intervals[u])
        BY <1>5, <2>1, <3>3 DEF u
      <4>3. marked[j] = [offset |-> o.intervals[u].offset, size |-> o.intervals[u].size, done |-> Completed(o, x, u)]
        BY <4>1, <4>2 DEF PendingWrite
      <4> QED BY <4>3 DEF u
    <3> QED BY <3>2, <3>3
  <2> QED BY <2>1, <2>2, <2>3
<1> HIDE DEF marked
<1>7. /\ \A j \in 1..k : marked[j].done
      /\ k < Len(marked) => ~marked[k + 1].done
  <2>1. ASSUME NEW j \in 1..num PROVE marked[j].done = Completed(o, x, (len + j) - 1)
    <3>1. marked[j] = entry(j)
      BY <1>6
    <3>2. entry(j).done = Completed(o, x, (len + j) - 1)
      BY Zenon
    <3> HIDE DEF entry
    <3> QED BY <3>1, <3>2, Zenon
  <2>2. ASSUME NEW j \in 1..k PROVE marked[j].done
    <3>1. j \in 1..num /\ (len + j) - 1 \in DOMAIN o.intervals /\ (len + j) - 1 < next
      BY <1>4a
    <3>2. Completed(o, x, (len + j) - 1)
      BY <1>1, <3>1 DEF DrainStops
    <3> QED BY <2>1, <3>1, <3>2
  <2>3. ASSUME k < Len(marked) PROVE ~marked[k + 1].done
    <3>1. k + 1 \in 1..num /\ (len + (k + 1)) - 1 = next /\ next # ct
      <4> HIDE DEF len, ct, o, num, k
      <4> QED BY <1>4a, <1>6, <2>3
    <3>2. ~Completed(o, x, next)
      BY <1>1, <3>1 DEF DrainStops
    <3> QED BY <2>1, <3>1, <3>2
  <2> QED BY <2>2, <2>3
<1>8. Pending'[b] = SubSeq(marked, k + 1, Len(marked))
  <2> DEFINE g == Pending'[b]
  <2>1. g = [j \in 1..(ct - next) |-> PendingWrite(n.intervals[next + j - 1])]
    <3>1. g = PendingOf(n)
      BY <1>1, MappedTo
    <3> HIDE DEF n, g, ct
    <3> QED BY <1>3, <3>1 DEF PendingOf
  <2>2. OfLength(g, num - k)
    <3>1. num - k = ct - next /\ ct - next \in Nat
      BY <1>4, <1>4a
    <3> HIDE DEF g, k, num, ct, n
    <3> QED BY <2>1, <3>1 DEF OfLength
  <2>3. ASSUME NEW j \in 1..(num - k) PROVE g[j] = marked[k + j]
    <3> DEFINE u == next + j - 1
    <3>1. j \in 1..(ct - next) /\ u \in next..(ct - 1) /\ k + j \in 1..num /\ (len + (k + j)) - 1 = u
      BY <1>4a
    <3>2. g[j] = PendingWrite(n.intervals[u])
      BY <2>1, <3>1
    <3>3. marked[k + j] = [offset |-> o.intervals[u].offset, size |-> o.intervals[u].size, done |-> Completed(o, x, u)]
      BY <1>6, <3>1
    <3> HIDE DEF u
    <3>4. /\ n.intervals[u].offset = o.intervals[u].offset /\ n.intervals[u].size = o.intervals[u].size
          /\ n.intervals[u].done = Completed(o, x, u)
      BY <1>1, <3>1 DEF DrainedTo
    <3> QED BY <3>2, <3>3, <3>4 DEF PendingWrite
  <2>4. g = SubSeq(marked, k + 1, num)
    <3>1. num \in Nat /\ k \in 0..num /\ OfLength(marked, num) /\ OfLength(g, num - k)
      BY <1>4, <1>6, <2>2
    <3> HIDE DEF g, k, num
    <3> QED BY <3>1, <2>3, SubSeqIs
  <2> HIDE DEF g, k, num
  <2> QED BY <1>6, <2>4 DEF g
<1>9. Pending' = [Pending EXCEPT ![b] = SubSeq(marked, k + 1, Len(marked))]
  <2>1. DOMAIN Pending = Blobs /\ Pending' = [c \in Blobs |-> Pending'[c]]
        /\ \A c \in Blobs : c # b => Pending'[c] = Pending[c]
    BY <1>1, MappedTo
  <2> HIDE DEF k
  <2> QED BY <1>8, <2>1
<1> DEFINE F == Snapshots'[b]
<1>10. OfLength(F, next) /\ \A j \in 1..next : F[j] = SnapshotIn(dht, n.roots[j])
  <2>1. F = SnapshotsIn(dht, n)
    BY <1>1, MappedTo
  <2>2. DOMAIN n.roots = 1..next
    <3>1. n.roots \in Seq(root_t)
      BY <1>1 DEF StoreInv, Inv, TypeOK, IsObjInfo
    <3> QED BY <1>3, <3>1, LenProperties
  <2> QED BY <2>1, <2>2 DEF SnapshotsIn, OfLength
<1>11. Len(Snapshots[b]) = len /\ \A j \in 1..len : F[j] = Snapshots[b][j]
  <2>1. Snapshots[b] = SnapshotsIn(dht, o) /\ DOMAIN o.roots = 1..len
    BY <1>1, MappedTo, RootsAre
  <2>2. OfLength(Snapshots[b], len) /\ \A j \in 1..len : Snapshots[b][j] = SnapshotIn(dht, o.roots[j])
    BY <1>2, <2>1 DEF SnapshotsIn, OfLength
  <2>3. Len(Snapshots[b]) = len
    <3> DEFINE S == {Snapshots[b][j] : j \in 1..len}
    <3>1. \A j \in 1..len : Snapshots[b][j] \in S
      OBVIOUS
    <3> HIDE DEF S, len
    <3> QED BY <2>2, <3>1, SeqOf
  <2>4. \A j \in 1..len : j \in 1..next /\ n.roots[j] = o.roots[j]
    BY <1>1, <1>2, <1>3 DEF DrainedTo
  <2> HIDE DEF F, len, n, o
  <2> QED BY <1>10, <2>2, <2>3, <2>4
<1>12. ASSUME NEW j \in (len + 1)..next PROVE F[j] = Abstract!Apply(F[j - 1], b, j - 1, f[j - len])
  <2> DEFINE u == j - 1
  <2>1. /\ u \in 1..h.last /\ u \in DOMAIN o.intervals /\ j \in 1..next /\ u \in 1..next /\ j \in 2..next
        /\ j - len \in 1..num /\ (len + (j - len)) - 1 = u
    BY <1>2, <1>4a
  <2>2. /\ f[j - len].offset = h.ws[u].offset /\ f[j - len].size = h.ws[u].size
    <3>1. f[j - len] = PendingWrite(o.intervals[u])
      BY <1>5, <2>1
    <3>2. o.intervals[u].offset = h.ws[u].offset /\ o.intervals[u].size = h.ws[u].size
      BY <1>2, <2>1 DEF Linked
    <3> QED BY <3>1, <3>2 DEF PendingWrite
  <2>3. /\ \A y \in 2..next : IsRoot(h, y - 1, n.roots[y]) /\ writes'[<<b, y - 1>>].pc = "done"
        /\ \A y \in 1..h.last : WriterOK(b, y)'
    <3>1. Linked(b)' /\ BlobOK(b)'
      BY <1>1 DEF StoreInv
    <3>2. \A y \in 2..next : IsRoot(h, y - 1, n.roots[y]) /\ writes'[<<b, y - 1>>].pc = "done"
      BY <1>1, <1>3, <3>1 DEF Linked
    <3>3. \A y \in 1..h.last : WriterOK(b, y)'
      BY <1>1, <3>1 DEF BlobOK
    <3> QED BY <3>2, <3>3
  <2>4. IsRoot(h, u, n.roots[j])
    BY <2>1, <2>3
  <2>5. IsRoot(h, u - 1, n.roots[u])
    <3>1. CASE u = 1
      <4>1. n.roots[1] = h.base
        BY <1>1, <1>2 DEF DrainedTo
      <4> QED BY <3>1, <4>1 DEF IsRoot
    <3>2. CASE u # 1
      <4>1. u \in 2..next
        BY <2>1, <3>2
      <4> QED BY <2>3, <4>1
    <3> QED BY <3>1, <3>2
  <2>6. CompleteTo(dht, h, u)
    <3>1. SUFFICES ASSUME NEW y \in 1..u
                   PROVE  LeavesOK(dht, h, y) /\ InnerOK(dht, h, y) /\ LeavesIn(dht, h, y) /\ InnerIn(dht, h, y)
      BY DEF CompleteTo
    <3>2. y + 1 \in 2..next /\ (y + 1) - 1 = y /\ y \in 1..h.last
      BY <1>2, <1>3, <2>1
    <3>3. writes'[<<b, y>>].pc = "done" /\ WriterOK(b, y)'
      BY <2>3, <3>2
    <3> QED BY <1>1, <3>3 DEF WriterOK
  <2>7. F[j] = SnapshotIn(dht, n.roots[j]) /\ F[u] = SnapshotIn(dht, n.roots[u])
    BY <1>10, <2>1
  <2> HIDE DEF F, n, h, o, f, u, len
  <2>8. SnapshotIn(dht, n.roots[j]) = Abstract!Apply(SnapshotIn(dht, n.roots[u]), h.id, u, f[j - len])
    BY <1>2, <2>1, <2>2, <2>4, <2>5, <2>6, SnapshotApplied
  <2> QED BY <1>2, <2>7, <2>8 DEF u
<1>13. Abstract!Extended(b, k) = F
  <2>1. OfLength(F, len + k) /\ \A j \in (len + 1)..(len + k) : F[j] = Abstract!Apply(F[j - 1], b, j - 1, f[j - len])
    BY <1>4, <1>10, <1>12
  <2>2. k \in Nat /\ len \in Nat \ {0} /\ Len(Snapshots[b]) = len /\ \A j \in 1..len : F[j] = Snapshots[b][j]
    BY <1>2, <1>4, <1>11
  <2>3. \A j \in (len + 1)..(len + k) : F[j] = Abstract!Apply(F[j - 1], b, j - 1, Pending[b][j - len])
    BY <2>1
  <2> HIDE DEF F, len, k
  <2> QED BY <2>1, <2>2, <2>3, ExtendedIs
<1>14. Snapshots' = [Snapshots EXCEPT ![b] = Abstract!Extended(b, k)]
  <2>1. DOMAIN Snapshots = Blobs /\ Snapshots' = [c \in Blobs |-> Snapshots'[c]]
        /\ \A c \in Blobs : c # b => Snapshots'[c] = Snapshots[c]
    BY <1>1, MappedTo
  <2> HIDE DEF k
  <2> QED BY <1>13, <2>1
<1>15. b \in DOMAIN Snapshots /\ i \in DOMAIN f /\ k \in 0..Len(marked)
  BY <1>1, <1>4, <1>5, <1>6, MappedTo
<1> HIDE DEF k, i
<1> QED BY <1>7, <1>9, <1>14, <1>15 DEF Abstract!Complete, Abstract!Blobs, marked

\* Every step of the store is one of the sequence of snapshots, or nothing.
LEMMA StoreStepMapped ==
    ASSUME SparseWrites = FALSE, LostGets = FALSE, StoreInv, [StoreNext]_storeVars
    PROVE  [Abstract!Next]_(Abstract!vars)
<1>1. StoreInv' /\ DhtStep
  BY StoreNextInv
<1>2. Inv' /\ RootsFit'
  BY <1>1 DEF StoreInv
<1>3. ASSUME obj_hash' = obj_hash, obj_count' = obj_count PROVE UNCHANGED (Abstract!vars)
  <2>1. Blobs' = Blobs
    BY <1>3 DEF Blobs
  <2>2. Snapshots' = Snapshots /\ Pending' = Pending
    BY <1>1, <1>3, <2>1, StoringStutters
  <2> QED BY <2>2 DEF Abstract!vars
<1>4. ASSUME NEW ps \in PageSizes, StoreCreate(ps) PROVE Abstract!Next
  BY <1>4, CreateMapped DEF Abstract!Next
<1>5. ASSUME NEW id \in Blobs, NEW version \in 0..MaxTickets, StoreClone(id, version) PROVE Abstract!Next
  BY <1>5, CloneMapped DEF Abstract!Next
<1>6. ASSUME NEW id \in Blobs, NEW offset \in Offsets, NEW size \in Sizes, NEW append \in Appends,
             GetTicket(id, offset, size, append)
      PROVE  Abstract!Next
  <2>1. PICK off \in Nat, len \in Nat \ {0}, m \in Powers : TicketStep(id, off, len, m)
    BY <1>2, <1>6, GetTicketInv
  <2>2. Abstract!Begin
    BY <1>1, <2>1, BeginMapped
  <2> QED BY <2>2 DEF Abstract!Next
<1>7. ASSUME NEW id \in Blobs, NEW offset \in Offsets, NEW size \in Sizes, NEW append \in Appends,
             GetTicketSpins(id, offset, size, append)
      PROVE  UNCHANGED (Abstract!vars)
  BY <1>3, <1>7 DEF GetTicketSpins, get_ticket_spins
<1>8. ASSUME NEW id \in Blobs, NEW v \in 1..MaxTickets,
             PutLeaves(id, v) \/ PutInnerNodes(id, v) \/ Abandon(id, v)
      PROVE  UNCHANGED (Abstract!vars)
  BY <1>3, <1>8 DEF PutLeaves, PutInnerNodes, Abandon, vars
<1>9. ASSUME NEW id \in Blobs, NEW v \in 1..MaxTickets, Publish(id, v) PROVE Abstract!Next
  <2>1. PICK next \in Nat : PublishStep(id, v, next)
    BY <1>9, PublishSteps
  <2>2. Abstract!Complete
    BY <1>1, <2>1, CompleteMapped
  <2> QED BY <2>2 DEF Abstract!Next
<1>10. CASE UNCHANGED storeVars
  BY <1>3, <1>10 DEF storeVars
<1> QED BY <1>4, <1>5, <1>6, <1>7, <1>8, <1>9, <1>10 DEF StoreNext

\* The store implements the sequence of snapshots: what a reader finds under a
\* version by walking the tree through the DHT (range_query.cpp, readRecordLocations) is the
\* snapshot before it with that version's write applied, as if the writers, who
\* store their nodes concurrently and in any order, had written one after another;
\* and no later step changes it.
THEOREM SnapshotsSequential ==
    ASSUME SparseWrites = FALSE, LostGets = FALSE
    PROVE  StoreSpec => SnapshotsAreSequential
<1>1. StoreSpec => []StoreInv
  BY TreesAreRight
<1>2. StoreInv /\ [StoreNext]_storeVars => [Abstract!Next]_(Abstract!vars)
  BY StoreStepMapped
<1> QED BY <1>1, <1>2, StoreStarts, PTL DEF StoreSpec, SnapshotsAreSequential, Abstract!Spec

=============================================================================
