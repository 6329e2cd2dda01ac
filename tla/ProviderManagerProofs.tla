------------------------ MODULE ProviderManagerProofs ------------------------
(***************************************************************************)
(* Proofs about ProviderManager, for any providers, numbers of pages and   *)
(* replicas, timeout and scores.  What depends on the order of the index   *)
(* is proved until a full provider is overtaken: up to there operator< is  *)
(* a strict weak order on the entries of the table, full ones included.    *)
(***************************************************************************)
EXTENDS ProviderManager, FiniteSetTheorems, SequenceTheorems, WellFoundedInduction, TLAPS

Injective(q) == \A i, j \in DOMAIN q : q[i] = q[j] => i = j

Elements(q) == {q[i] : i \in DOMAIN q}

\* The index is in order for the entries of a table.
Ordered(index, table) ==
    \A i, j \in DOMAIN index : i < j => ~Less(table[index[j]], table[index[i]])

\* The same, but for one provider.
OrderedBut(index, table, p) ==
    \A i, j \in DOMAIN index :
        i < j /\ index[i] # p /\ index[j] # p => ~Less(table[index[j]], table[index[i]])

\* A set of entries where no full provider is overtaken.
Peers(S) ==
    /\ S \subseteq table_entry
    /\ \A a, b \in S : a.free = 0 /\ b.free > 0 => b.score <= a.score

\* Of a provider with free space and a full one the former is less; others
\* compare by score and, if they have space, by free space.
LEMMA PeersLess ==
    ASSUME NEW S, Peers(S), NEW a \in S, NEW b \in S
    PROVE  /\ a.free \in Nat /\ b.free \in Nat /\ a.score \in Nat /\ b.score \in Nat
           /\ a.free > 0 /\ b.free = 0 => Less(a, b)
           /\ a.free = 0 /\ b.free > 0 => ~Less(a, b)
           /\ a.free = 0 /\ b.free = 0 => (Less(a, b) <=> a.score < b.score)
           /\ a.free > 0 /\ b.free > 0 =>
                 (Less(a, b) <=> (a.score < b.score \/ (a.score = b.score /\ a.free > b.free)))
<1>1. a.free \in Nat /\ b.free \in Nat /\ a.score \in Nat /\ b.score \in Nat
  BY DEF Peers, table_entry
<1>2. a.free > 0 /\ b.free = 0 => a.score <= b.score
  BY DEF Peers
<1> QED BY <1>1, <1>2 DEF Less

\* Hence not being less is transitive.
LEMMA PeersOrder ==
    ASSUME NEW S, Peers(S), NEW a \in S, NEW b \in S, NEW c \in S
    PROVE  /\ ~Less(b, a) /\ ~Less(c, b) => ~Less(c, a)
           /\ Less(a, b) => ~Less(b, a)
<1> DEFINE L(x, y) == \/ x.free > 0 /\ y.free = 0
                      \/ x.free = 0 /\ y.free = 0 /\ x.score < y.score
                      \/ /\ x.free > 0 /\ y.free > 0
                         /\ x.score < y.score \/ (x.score = y.score /\ x.free > y.free)
<1>1. ASSUME NEW x \in S, NEW y \in S
      PROVE  /\ Less(x, y) <=> L(x, y)
             /\ x.free \in Nat /\ x.score \in Nat
  BY PeersLess
<1>2. ~L(b, a) /\ ~L(c, b) => ~L(c, a)
  BY <1>1
<1>3. L(a, b) => ~L(b, a)
  BY <1>1
<1> QED BY <1>1, <1>2, <1>3

Entries(table) == {table[p] : p \in DOMAIN table}

\* The entries of a table where no full provider is overtaken.
LEMMA PeersTable ==
    ASSUME NEW table, \A p \in DOMAIN table : table[p] \in table_entry, ~Overtaken(table)
    PROVE  Peers(Entries(table))
<1>1. ASSUME NEW p \in DOMAIN table, NEW q \in DOMAIN table, table[p].free = 0, table[q].free > 0
      PROVE  table[q].score <= table[p].score
  <2>1. ~(table[p].score < table[q].score)
    BY <1>1 DEF Overtaken
  <2>2. table[p].score \in Nat /\ table[q].score \in Nat
    BY DEF table_entry
  <2> QED BY <2>1, <2>2
<1> QED BY <1>1 DEF Peers, Entries

-----------------------------------------------------------------------------
(* Unlinking and linking an entry. *)

\* Unlinking a provider keeps the others, each once and in their order.
LEMMA WithoutProps ==
    ASSUME NEW index \in Seq(Providers), Injective(index), NEW p \in Elements(index)
    PROVE  /\ Without(index, p) \in Seq(Providers)
           /\ Injective(Without(index, p))
           /\ Elements(Without(index, p)) = Elements(index) \ {p}
           /\ \A table : OrderedBut(index, table, p) => Ordered(Without(index, p), table)
<1> DEFINE i == CHOOSE i \in DOMAIN index : index[i] = p
           r == [j \in 1..(Len(index) - 1) |-> IF j < i THEN index[j] ELSE index[j + 1]]
           Place(j) == IF j < i THEN j ELSE j + 1
<1>1. i \in 1..Len(index) /\ index[i] = p
  BY DEF Elements
<1>2. Without(index, p) = r
  BY DEF Without
<1> HIDE DEF i
<1>3. r \in Seq(Providers) /\ Len(r) = Len(index) - 1 /\ DOMAIN r = 1..(Len(index) - 1)
  BY <1>1
<1>4. \A j \in 1..(Len(index) - 1) : r[j] = index[Place(j)] /\ Place(j) \in DOMAIN index /\ Place(j) # i
  BY <1>1
<1>5. \A a, b \in 1..(Len(index) - 1) :
         /\ Place(a) = Place(b) => a = b
         /\ a < b => Place(a) < Place(b)
  BY <1>1
<1>6. \A l \in DOMAIN index : l # i => \E j \in 1..(Len(index) - 1) : Place(j) = l
  <2>1. SUFFICES ASSUME NEW l \in DOMAIN index, l # i
                 PROVE  \E j \in 1..(Len(index) - 1) : Place(j) = l
    OBVIOUS
  <2>2. CASE l < i
    <3>1. l \in 1..(Len(index) - 1) /\ Place(l) = l
      BY <1>1, <2>2
    <3> QED BY <3>1
  <2>3. CASE l > i
    <3>1. l - 1 \in 1..(Len(index) - 1) /\ Place(l - 1) = l
      BY <1>1, <2>3
    <3> QED BY <3>1
  <2> QED BY <1>1, <2>1, <2>2, <2>3
<1> HIDE DEF r, Place
<1>7. Injective(r)
  BY <1>3, <1>4, <1>5 DEF Injective
<1>8. ASSUME NEW u \in Elements(r) PROVE u \in Elements(index) \ {p}
  <2>1. PICK j \in 1..(Len(index) - 1) : r[j] = u
    BY <1>3 DEF Elements
  <2>2. u = index[Place(j)] /\ Place(j) \in DOMAIN index /\ Place(j) # i
    BY <1>4, <2>1
  <2>3. u # index[i]
    BY <1>1, <2>2 DEF Injective
  <2> QED BY <1>1, <2>2, <2>3 DEF Elements
<1>9. ASSUME NEW u \in Elements(index) \ {p} PROVE u \in Elements(r)
  <2>1. PICK l \in DOMAIN index : index[l] = u
    BY DEF Elements
  <2>2. PICK j \in 1..(Len(index) - 1) : Place(j) = l
    BY <1>1, <1>6, <2>1
  <2> QED BY <1>3, <1>4, <2>1, <2>2 DEF Elements
<1>10. \A j \in 1..(Len(index) - 1) : index[Place(j)] # p
  BY <1>1, <1>4 DEF Injective
<1>11. ASSUME NEW table, OrderedBut(index, table, p) PROVE Ordered(r, table)
  BY <1>3, <1>4, <1>5, <1>10, <1>11 DEF Ordered, OrderedBut
<1> QED BY <1>2, <1>3, <1>7, <1>8, <1>9, <1>11

\* The positions of an index with a provider inserted.
LEMMA InsertProps ==
    ASSUME NEW index \in Seq(Providers), NEW p \in Providers, NEW i \in 0..Len(index)
    PROVE  /\ InsertAfter(index, i, p) \in Seq(Providers)
           /\ Len(InsertAfter(index, i, p)) = Len(index) + 1
           /\ \A j \in 1..(Len(index) + 1) : InsertAfter(index, i, p)[j] =
                 IF j <= i THEN index[j] ELSE IF j = i + 1 THEN p ELSE index[j - 1]
<1> DEFINE a == SubSeq(index, 1, i)
           b == SubSeq(index, i + 1, Len(index))
           ap == a \o <<p>>
<1>1. a \in Seq(Providers) /\ Len(a) = i /\ \A j \in 1..i : a[j] = index[j]
  OBVIOUS
<1>2. b \in Seq(Providers) /\ Len(b) = Len(index) - i
      /\ \A j \in 1..(Len(index) - i) : b[j] = index[i + j]
  OBVIOUS
<1>3. InsertAfter(index, i, p) = ap \o b
  BY DEF InsertAfter
<1> HIDE DEF a, b
<1>4. ap \in Seq(Providers) /\ Len(ap) = i + 1 /\ (\A j \in 1..i : ap[j] = index[j]) /\ ap[i + 1] = p
  BY <1>1
<1> HIDE DEF ap
<1>5. /\ (ap \o b) \in Seq(Providers) /\ Len(ap \o b) = Len(ap) + Len(b)
      /\ \A j \in 1..(Len(ap) + Len(b)) : (ap \o b)[j] = IF j <= Len(ap) THEN ap[j] ELSE b[j - Len(ap)]
  BY <1>2, <1>4, ConcatProperties
<1>7. Len(ap) + Len(b) = Len(index) + 1
  BY <1>2, <1>4
<1>6. ASSUME NEW j \in 1..(Len(index) + 1)
      PROVE  (ap \o b)[j] = IF j <= i THEN index[j] ELSE IF j = i + 1 THEN p ELSE index[j - 1]
  <2>1. (ap \o b)[j] = IF j <= i + 1 THEN ap[j] ELSE b[j - (i + 1)]
    BY <1>4, <1>5, <1>7
  <2>2. CASE j <= i
    BY <1>4, <2>1, <2>2
  <2>3. CASE j = i + 1
    BY <1>4, <2>1, <2>3
  <2>4. CASE j > i + 1
    <3>1. j - (i + 1) \in 1..(Len(index) - i) /\ i + (j - (i + 1)) = j - 1
      BY <2>4
    <3>2. (ap \o b)[j] = b[j - (i + 1)]
      BY <2>1, <2>4
    <3>3. b[j - (i + 1)] = index[j - 1]
      BY <1>2, <3>1
    <3>4. ~(j <= i) /\ j # i + 1
      BY <2>4
    <3> QED BY <3>2, <3>3, <3>4
  <2>5. j <= i \/ j = i + 1 \/ j > i + 1
    OBVIOUS
  <2> QED BY <2>2, <2>3, <2>4, <2>5
<1> QED BY <1>3, <1>5, <1>6, <1>7

\* An entry that is linked is listed once more.
LEMMA LinkedProps ==
    ASSUME NEW index \in Seq(Providers), Injective(index), NEW p \in Providers,
           p \notin Elements(index), NEW table, NEW e, NEW r \in Linked(index, table, p, e)
    PROVE  /\ r \in Seq(Providers)
           /\ Injective(r)
           /\ Elements(r) = Elements(index) \cup {p}
<1>1. PICK i \in 0..Len(index) : r = InsertAfter(index, i, p)
  BY DEF Linked
<1>2. /\ r \in Seq(Providers)
      /\ Len(r) = Len(index) + 1
      /\ \A j \in 1..(Len(index) + 1) :
            r[j] = IF j <= i THEN index[j] ELSE IF j = i + 1 THEN p ELSE index[j - 1]
  BY <1>1, InsertProps
<1>3. DOMAIN r = 1..(Len(index) + 1) /\ DOMAIN index = 1..Len(index) /\ Len(index) \in Nat
  BY <1>2
<1>4. \A j \in DOMAIN index : index[j] # p
  BY DEF Elements
<1>5. Injective(r)
  <2>1. SUFFICES ASSUME NEW a \in 1..(Len(index) + 1), NEW b \in 1..(Len(index) + 1), r[a] = r[b], a < b
                 PROVE  FALSE
    BY <1>3 DEF Injective
  <2> DEFINE Old(j) == IF j <= i THEN j ELSE j - 1
  <2>2. \A j \in 1..(Len(index) + 1) : j # i + 1 => Old(j) \in DOMAIN index /\ r[j] = index[Old(j)]
    BY <1>2, <1>3
  <2>3. a # i + 1 /\ b # i + 1 => Old(a) # Old(b)
    BY <2>1
  <2>4. r[i + 1] = p
    BY <1>2
  <2> HIDE DEF Old
  <2>5. CASE a # i + 1 /\ b # i + 1
    BY <2>1, <2>2, <2>3, <2>5 DEF Injective
  <2>6. CASE a = i + 1
    <3>1. b # i + 1
      BY <2>1, <2>6
    <3> QED BY <1>4, <2>1, <2>2, <2>4, <2>6, <3>1
  <2>7. CASE b = i + 1
    <3>1. a # i + 1
      BY <2>1, <2>7
    <3> QED BY <1>4, <2>1, <2>2, <2>4, <2>7, <3>1
  <2> QED BY <2>5, <2>6, <2>7
<1>6. ASSUME NEW u \in Elements(r) PROVE u \in Elements(index) \cup {p}
  <2>1. PICK j \in 1..(Len(index) + 1) : r[j] = u
    BY <1>3 DEF Elements
  <2>2. \/ u = p
        \/ \E l \in DOMAIN index : u = index[l]
    <3>1. CASE j <= i
      <4>1. j \in DOMAIN index /\ r[j] = index[j]
        BY <1>2, <1>3, <3>1
      <4> QED BY <2>1, <4>1
    <3>2. CASE j = i + 1
      BY <1>2, <2>1, <3>2
    <3>3. CASE j > i + 1
      <4>1. j - 1 \in DOMAIN index /\ r[j] = index[j - 1]
        BY <1>2, <1>3, <3>3
      <4> QED BY <2>1, <4>1
    <3> QED BY <3>1, <3>2, <3>3
  <2> QED BY <2>2 DEF Elements
<1>7. p \in Elements(r)
  <2>1. i + 1 \in DOMAIN r /\ r[i + 1] = p
    BY <1>2, <1>3
  <2> QED BY <2>1 DEF Elements
<1>8. ASSUME NEW u \in Elements(index) PROVE u \in Elements(r)
  <2>1. PICK j \in DOMAIN index : index[j] = u
    BY DEF Elements
  <2>2. CASE j <= i
    <3>1. j \in DOMAIN r /\ r[j] = u
      BY <1>2, <1>3, <2>1, <2>2
    <3> QED BY <3>1 DEF Elements
  <2>3. CASE j > i
    <3>1. j + 1 \in DOMAIN r /\ r[j + 1] = u
      BY <1>2, <1>3, <2>1, <2>3
    <3> QED BY <3>1 DEF Elements
  <2> QED BY <1>3, <2>2, <2>3
<1> QED BY <1>2, <1>5, <1>6, <1>7, <1>8

\* Linked in between, an entry keeps the index in order.
LEMMA LinkedOrdered ==
    ASSUME NEW index \in Seq(Providers), Injective(index), NEW p \in Providers,
           p \notin Elements(index), NEW S, Peers(S),
           NEW table, \A q \in Elements(index) : table[q] \in S,
           Elements(index) \subseteq DOMAIN table,
           Ordered(index, table), NEW e \in S, NEW r \in Linked(index, table, p, e)
    PROVE  Ordered(r, With(table, p, e))
<1> DEFINE t == With(table, p, e)
<1>1. PICK i \in 0..Len(index) :
         /\ r = InsertAfter(index, i, p)
         /\ i = 0 \/ ~Less(e, table[index[i]])
         /\ i = Len(index) \/ Less(e, table[index[i + 1]])
  BY DEF Linked
<1>2. /\ r \in Seq(Providers)
      /\ Len(r) = Len(index) + 1
      /\ \A j \in 1..(Len(index) + 1) :
            r[j] = IF j <= i THEN index[j] ELSE IF j = i + 1 THEN p ELSE index[j - 1]
  <2>1. r = InsertAfter(index, i, p)
    BY <1>1
  <2> QED BY <2>1, InsertProps
<1>3. DOMAIN r = 1..(Len(index) + 1) /\ DOMAIN index = 1..Len(index) /\ Len(index) \in Nat
  BY <1>2
<1>4. t[p] = e /\ \A q \in Elements(index) : t[q] = table[q]
  BY DEF With
<1>5. \A j \in DOMAIN index : index[j] \in Elements(index)
  BY DEF Elements
<1> HIDE DEF t
<1> DEFINE T(j) == table[index[j]]
<1>6. \A j \in 1..Len(index) : T(j) \in S /\ t[index[j]] = T(j)
  BY <1>3, <1>4, <1>5
<1>7. \A a, b \in 1..Len(index) : a < b => ~Less(T(b), T(a))
  BY <1>3 DEF Ordered
<1>8. (i = 0 \/ ~Less(e, T(i))) /\ (i = Len(index) \/ Less(e, T(i + 1)))
  BY <1>1
<1> HIDE DEF T
<1>9. \A a \in 1..Len(index) : a <= i => ~Less(e, T(a))
  <2>1. SUFFICES ASSUME NEW a \in 1..Len(index), a <= i PROVE ~Less(e, T(a))
    OBVIOUS
  <2>4. i \in 1..Len(index) /\ i # 0
    BY <1>3, <2>1
  <2>2. i \in 1..Len(index) /\ ~Less(e, T(i))
    BY <1>8, <2>4, Zenon
  <2>3. a = i \/ ~Less(T(i), T(a))
    BY <1>7, <2>1, <2>2
  <2> QED BY <1>6, <2>2, <2>3, PeersOrder
<1>10. \A b \in 1..Len(index) : b > i => ~Less(T(b), e)
  <2>1. SUFFICES ASSUME NEW b \in 1..Len(index), b > i PROVE ~Less(T(b), e)
    OBVIOUS
  <2>7. Len(index) \in Nat /\ i \in 0..Len(index) /\ b \in 1..Len(index) /\ b > i
    BY <1>3, <2>1
  <2>6. i + 1 \in 1..Len(index) /\ i # Len(index)
    BY <2>7
  <2>2. i + 1 \in 1..Len(index) /\ Less(e, T(i + 1))
    BY <1>8, <2>6, Zenon
  <2>3. b = i + 1 \/ ~Less(T(b), T(i + 1))
    BY <1>3, <1>7, <2>1, <2>2
  <2>4. T(i + 1) \in S /\ T(b) \in S
    BY <1>6, <2>2
  <2>5. ~Less(T(i + 1), e)
    BY <2>2, <2>4, PeersOrder
  <2> QED BY <2>3, <2>4, <2>5, PeersOrder
<1>11. SUFFICES ASSUME NEW a \in 1..(Len(index) + 1), NEW b \in 1..(Len(index) + 1), a < b
                PROVE  ~Less(t[r[b]], t[r[a]])
  BY <1>3 DEF Ordered, t
<1> DEFINE Old(j) == IF j <= i THEN j ELSE j - 1
<1>12. \A j \in 1..(Len(index) + 1) :
          j # i + 1 => /\ Old(j) \in 1..Len(index) /\ r[j] = index[Old(j)]
                       /\ j <= i => Old(j) <= i
                       /\ j > i + 1 => Old(j) > i
  BY <1>2, <1>3
<1>13. a # i + 1 /\ b # i + 1 => Old(a) < Old(b)
  BY <1>11
<1>14. r[i + 1] = p
  BY <1>2, <1>3
<1>15. \A j \in 1..(Len(index) + 1) : j # i + 1 => t[r[j]] = T(Old(j))
  BY <1>6, <1>12
<1> HIDE DEF Old
<1>16. CASE a # i + 1 /\ b # i + 1
  BY <1>7, <1>12, <1>13, <1>15, <1>16
<1>17. CASE a = i + 1
  <2>1. b # i + 1 /\ b > i + 1 /\ t[r[a]] = e
    BY <1>3, <1>4, <1>11, <1>14, <1>17
  <2> QED BY <1>10, <1>12, <1>15, <2>1
<1>18. CASE b = i + 1
  <2>1. a # i + 1 /\ a <= i /\ t[r[b]] = e
    BY <1>3, <1>4, <1>11, <1>14, <1>18
  <2> QED BY <1>9, <1>12, <1>15, <2>1
<1> QED BY <1>16, <1>17, <1>18

\* Replacing an entry lists the same providers, each once.
LEMMA ReplacedProps ==
    ASSUME NEW index \in Seq(Providers), Injective(index), NEW p \in Elements(index),
           NEW table, NEW e, NEW r \in Replaced(index, table, p, e)
    PROVE  /\ r \in Seq(Providers)
           /\ Injective(r)
           /\ Elements(r) = Elements(index)
<1>1. CASE r = index
  BY <1>1
<1>2. CASE r \in Linked(Without(index, p), table, p, e)
  <2>1. p \in Providers
    BY DEF Elements
  <2>2. /\ Without(index, p) \in Seq(Providers)
        /\ Injective(Without(index, p))
        /\ Elements(Without(index, p)) = Elements(index) \ {p}
    BY WithoutProps
  <2>3. p \notin Elements(Without(index, p))
    BY <2>2
  <2>4. /\ r \in Seq(Providers)
        /\ Injective(r)
        /\ Elements(r) = Elements(Without(index, p)) \cup {p}
    BY <1>2, <2>1, <2>2, <2>3, LinkedProps
  <2> QED BY <2>2, <2>4
<1> QED BY <1>1, <1>2 DEF Replaced

\* Replacing an entry puts the index in order, if the others were.
LEMMA ReplacedOrdered ==
    ASSUME NEW index \in Seq(Providers), Injective(index), NEW p \in Elements(index),
           NEW S, Peers(S),
           NEW table, \A q \in Elements(index) \ {p} : q \in DOMAIN table /\ table[q] \in S,
           OrderedBut(index, table, p),
           NEW e \in S, NEW r \in Replaced(index, table, p, e)
    PROVE  Ordered(r, With(table, p, e))
<1> DEFINE i == CHOOSE i \in DOMAIN index : index[i] = p
           in_place == /\ i = 1 \/ ~Less(e, table[index[i - 1]])
                       /\ i = Len(index) \/ ~Less(table[index[i + 1]], e)
           t == With(table, p, e)
           T(j) == table[index[j]]
<1>1. i \in 1..Len(index) /\ index[i] = p /\ Len(index) \in Nat /\ DOMAIN index = 1..Len(index)
  BY DEF Elements
<1>2. \/ in_place /\ r = index
      \/ r \in Linked(Without(index, p), table, p, e)
  BY DEF Replaced
<1> HIDE DEF i
<1>3. p \in Providers
  BY <1>1
<1>4. \A j \in 1..Len(index) : j # i => index[j] # p /\ index[j] \in Elements(index)
  BY <1>1 DEF Injective, Elements
<1>5. t[p] = e /\ \A q \in Elements(index) \ {p} : t[q] = table[q]
  BY DEF With
<1>6. \A a, b \in 1..Len(index) : a < b /\ a # i /\ b # i => ~Less(T(b), T(a))
  BY <1>1, <1>4 DEF OrderedBut
<1>7. \A j \in 1..Len(index) : j # i => T(j) \in S /\ t[index[j]] = T(j)
  BY <1>4, <1>5
<1>8. CASE in_place /\ r = index
  <2>1. (i = 1 \/ ~Less(e, T(i - 1))) /\ (i = Len(index) \/ ~Less(T(i + 1), e))
    BY <1>8
  <2> HIDE DEF t, T
  <2>2. SUFFICES ASSUME NEW a \in 1..Len(index), NEW b \in 1..Len(index), a < b
                 PROVE  ~Less(t[index[b]], t[index[a]])
    BY <1>1, <1>8 DEF Ordered, t
  <2>3. CASE a # i /\ b # i
    BY <1>6, <1>7, <2>2, <2>3
  <2>4. CASE b = i
    <3>1. i - 1 \in 1..Len(index) /\ i - 1 # i /\ a # i /\ (a = i - 1 \/ a < i - 1) /\ i # 1
      BY <1>1, <2>2, <2>4
    <3>2. T(i - 1) \in S /\ T(a) \in S /\ ~Less(e, T(i - 1))
      BY <1>7, <2>1, <3>1
    <3>3. a = i - 1 \/ ~Less(T(i - 1), T(a))
      BY <1>6, <3>1
    <3>4. ~Less(e, T(a))
      BY <3>2, <3>3, PeersOrder
    <3> QED BY <1>1, <1>5, <1>7, <2>4, <3>1, <3>4
  <2>5. CASE a = i
    <3>1. i + 1 \in 1..Len(index) /\ i + 1 # i /\ b # i /\ (b = i + 1 \/ i + 1 < b) /\ i # Len(index)
      BY <1>1, <2>2, <2>5
    <3>2. T(i + 1) \in S /\ T(b) \in S /\ ~Less(T(i + 1), e)
      BY <1>7, <2>1, <3>1
    <3>3. b = i + 1 \/ ~Less(T(b), T(i + 1))
      BY <1>6, <3>1
    <3>4. ~Less(T(b), e)
      BY <3>2, <3>3, PeersOrder
    <3> QED BY <1>1, <1>5, <1>7, <2>5, <3>1, <3>4
  <2> QED BY <2>3, <2>4, <2>5
<1>9. CASE r \in Linked(Without(index, p), table, p, e)
  <2> HIDE DEF in_place, t, T
  <2> DEFINE w == Without(index, p)
             u == [q \in DOMAIN table \cup {p} |-> IF q = p THEN e ELSE table[q]]
  <2>1. /\ w \in Seq(Providers)
        /\ Injective(w)
        /\ Elements(w) = Elements(index) \ {p}
    BY WithoutProps
  <2>2. Ordered(w, table)
    BY WithoutProps
  <2> QED BY <1>3, <1>9, <2>1, <2>2, LinkedOrdered DEF t
<1> QED BY <1>2, <1>8, <1>9

-----------------------------------------------------------------------------
(* The table, its index and the request. *)

TableOK ==
    /\ adv_table \in [DOMAIN adv_table -> table_entry]
    /\ DOMAIN adv_table \subseteq Providers

\* Every provider of the table is in the index, once.
IndexOK ==
    /\ info_index \in Seq(Providers)
    /\ Injective(info_index)
    /\ Elements(info_index) = DOMAIN adv_table

RequestOK == request \in request_t /\ request.replica_no # 0

\* What every step keeps.
ManagerInv == TableOK /\ IndexOK /\ RequestOK /\ ReplicasApart /\ overtaken \in BOOLEAN

\* And what it keeps until a full provider is overtaken.
OrderInv == ~overtaken => ~Overtaken(adv_table) /\ Ordered(info_index, adv_table)

\* An index with a provider inserted is in order but for it.
LEMMA InsertOrdered ==
    ASSUME NEW index \in Seq(Providers), NEW p \in Providers, NEW i \in 0..Len(index),
           NEW table, Ordered(index, table)
    PROVE  OrderedBut(InsertAfter(index, i, p), table, p)
<1> DEFINE r == InsertAfter(index, i, p)
           Old(j) == IF j <= i THEN j ELSE j - 1
<1>1. /\ r \in Seq(Providers)
      /\ Len(r) = Len(index) + 1
      /\ \A j \in 1..(Len(index) + 1) :
            r[j] = IF j <= i THEN index[j] ELSE IF j = i + 1 THEN p ELSE index[j - 1]
  BY InsertProps
<1> HIDE DEF r
<1>2. Len(index) \in Nat /\ DOMAIN index = 1..Len(index) /\ DOMAIN r = 1..(Len(index) + 1)
  BY <1>1
<1>3. r[i + 1] = p
  BY <1>1, <1>2
<1>4. \A j \in 1..(Len(index) + 1) : j # i + 1 => Old(j) \in DOMAIN index /\ r[j] = index[Old(j)]
  BY <1>1, <1>2
<1>5. \A a, b \in 1..(Len(index) + 1) : a < b /\ a # i + 1 /\ b # i + 1 => Old(a) < Old(b)
  BY <1>2
<1> HIDE DEF Old
<1>6. SUFFICES ASSUME NEW a \in DOMAIN r, NEW b \in DOMAIN r, a < b, r[a] # p, r[b] # p
               PROVE  ~Less(table[r[b]], table[r[a]])
  BY DEF OrderedBut, r
<1>7. a # i + 1 /\ b # i + 1
  BY <1>3, <1>6
<1>8. /\ Old(a) \in DOMAIN index /\ r[a] = index[Old(a)]
      /\ Old(b) \in DOMAIN index /\ r[b] = index[Old(b)]
      /\ Old(a) < Old(b)
  BY <1>2, <1>4, <1>5, <1>6, <1>7
<1> QED BY <1>8 DEF Ordered

\* A table with an entry entered or replaced.
LEMMA WithTable ==
    ASSUME TableOK, NEW p \in Providers, NEW e \in table_entry
    PROVE  /\ With(adv_table, p, e) \in [DOMAIN adv_table \cup {p} -> table_entry]
           /\ DOMAIN With(adv_table, p, e) = DOMAIN adv_table \cup {p}
           /\ DOMAIN With(adv_table, p, e) \subseteq Providers
           /\ \A q \in DOMAIN adv_table \cup {p} :
                 With(adv_table, p, e)[q] = IF q = p THEN e ELSE adv_table[q]
BY DEF TableOK, With

\* The entry update leaves: known or fresh, with the space reported.
LEMMA UpdatedEntry ==
    ASSUME NEW o \in table_entry, NEW f \in Nat
    PROVE  [o EXCEPT !.free = f, !.life = Timeout] \in table_entry
<1>1. Timeout \in -1..Timeout
  BY ManagerAssumption
<1> DEFINE e == [o EXCEPT !.free = f, !.life = Timeout]
<1>2. o.score \in Nat
  BY DEF table_entry
<1>3. /\ e = [x \in {"score", "free", "life"} |-> e[x]]
      /\ e.score = o.score /\ e.free = f /\ e.life = Timeout
  BY DEF table_entry
<1> HIDE DEF e
<1>4. e = [score |-> o.score, free |-> f, life |-> Timeout]
  BY <1>3
<1>5. e \in table_entry
  BY <1>1, <1>2, <1>4 DEF table_entry
<1> QED BY <1>5 DEF e

\* The entry get leaves: one point more.
LEMMA ScoredEntry ==
    ASSUME NEW o \in table_entry
    PROVE  [o EXCEPT !.score = @ + 1] \in table_entry
<1> DEFINE e == [o EXCEPT !.score = @ + 1]
<1>1. e = [score |-> o.score + 1, free |-> o.free, life |-> o.life]
  BY DEF table_entry
<1>2. o.score \in Nat /\ o.free \in Nat /\ o.life \in -1..Timeout
  BY DEF table_entry
<1>3. o.score + 1 \in Nat
  BY <1>2
<1>4. e \in table_entry
  BY <1>1, <1>2, <1>3 DEF table_entry
<1> QED BY <1>4

\* The entry a tick leaves has the same score and free space.
LEMMA TickedEntry ==
    ASSUME NEW o \in table_entry
    PROVE  LET e == [o EXCEPT !.life = IF @ < 0 THEN @ ELSE @ - 1]
           IN  /\ e \in table_entry
               /\ e.score = o.score /\ e.free = o.free
<1> DEFINE l == IF o.life < 0 THEN o.life ELSE o.life - 1
           e == [o EXCEPT !.life = IF @ < 0 THEN @ ELSE @ - 1]
<1>1. o.score \in Nat /\ o.free \in Nat /\ o.life \in -1..Timeout
  BY DEF table_entry
<1>2. l \in -1..Timeout
  BY <1>1, ManagerAssumption
<1>3. e = [score |-> o.score, free |-> o.free, life |-> l]
  BY DEF table_entry
<1> HIDE DEF l, e
<1>4. e \in table_entry /\ e.score = o.score /\ e.free = o.free
  BY <1>1, <1>2, <1>3 DEF table_entry
<1> QED BY <1>4 DEF e

\* The invariant about the order after a step.
LEMMA OrderKept ==
    ASSUME ~overtaken' => ~Overtaken(adv_table') /\ Ordered(info_index', adv_table')
    PROVE  OrderInv'
<1>1. Overtaken(adv_table)' <=> Overtaken(adv_table')
  BY DEF Overtaken
<1>2. Ordered(info_index, adv_table)' <=> Ordered(info_index', adv_table')
  BY DEF Ordered, Less
<1> QED BY <1>1, <1>2 DEF OrderInv

\* update lists the provider once, also when it enters the table.
LEMMA UpdateStep ==
    ASSUME ManagerInv, NEW p \in Providers, NEW f \in FreeSpaces, update(p, f)
    PROVE  ManagerInv' /\ (OrderInv => OrderInv')
<1> DEFINE fresh == [score |-> 0, free |-> 0, life |-> Timeout]
           known == p \in DOMAIN adv_table
           o == IF known THEN adv_table[p] ELSE fresh
           e == [o EXCEPT !.free = f, !.life = Timeout]
<1>1. PICK index \in IF known THEN {info_index} ELSE Linked(info_index, adv_table, p, fresh) :
         /\ info_index' \in Replaced(index, adv_table, p, e)
         /\ adv_table' = With(adv_table, p, e)
  BY DEF update
<1>2. f \in Nat /\ Timeout \in -1..Timeout
  BY ManagerAssumption
<1>3. fresh \in table_entry
  BY <1>2 DEF table_entry
<1>4. o \in table_entry
  BY <1>3 DEF ManagerInv, TableOK
<1>5. e \in table_entry
  BY <1>2, <1>4, UpdatedEntry
<1> HIDE DEF e, o
<1>6. /\ index \in Seq(Providers) /\ Injective(index)
      /\ Elements(index) = DOMAIN adv_table \cup {p}
  <2>1. CASE known
    BY <1>1, <2>1 DEF ManagerInv, IndexOK
  <2>2. CASE ~known
    <3>1. index \in Linked(info_index, adv_table, p, fresh)
      BY <1>1, <2>2
    <3>2. p \notin Elements(info_index) /\ info_index \in Seq(Providers) /\ Injective(info_index)
      BY <2>2 DEF ManagerInv, IndexOK
    <3>3. Elements(info_index) = DOMAIN adv_table
      BY DEF ManagerInv, IndexOK
    <3> HIDE DEF fresh
    <3> QED BY <3>1, <3>2, <3>3, LinkedProps
  <2> QED BY <2>1, <2>2
<1>7. /\ info_index' \in Seq(Providers) /\ Injective(info_index')
      /\ Elements(info_index') = DOMAIN adv_table \cup {p}
  <2>1. p \in Elements(index) /\ info_index' \in Replaced(index, adv_table, p, e)
    BY <1>1, <1>6
  <2> QED BY <1>6, <2>1, ReplacedProps
<1>8. /\ adv_table' \in [DOMAIN adv_table \cup {p} -> table_entry]
      /\ DOMAIN adv_table' = DOMAIN adv_table \cup {p}
      /\ DOMAIN adv_table' \subseteq Providers
      /\ \A q \in DOMAIN adv_table \cup {p} : adv_table'[q] = IF q = p THEN e ELSE adv_table[q]
  <2>1. adv_table' = With(adv_table, p, e)
    BY <1>1
  <2>2. TableOK
    BY DEF ManagerInv
  <2> DEFINE w == With(adv_table, p, e)
  <2>3. /\ w \in [DOMAIN adv_table \cup {p} -> table_entry]
        /\ DOMAIN w = DOMAIN adv_table \cup {p}
        /\ DOMAIN w \subseteq Providers
        /\ \A q \in DOMAIN adv_table \cup {p} : w[q] = IF q = p THEN e ELSE adv_table[q]
    BY <1>5, <2>2, WithTable
  <2>4. adv_table' = w
    BY <2>1
  <2> HIDE DEF w
  <2> QED BY <2>3, <2>4, Zenon
<1>9. request' = request /\ overtaken' = (overtaken \/ Overtaken(adv_table'))
  BY DEF update
<1>10. ManagerInv'
  <2>1. TableOK'
    BY <1>8 DEF TableOK
  <2>2. IndexOK'
    BY <1>7, <1>8 DEF IndexOK, Injective, Elements
  <2>3. RequestOK' /\ ReplicasApart'
    BY <1>9 DEF ManagerInv, RequestOK, ReplicasApart
  <2>4. overtaken' \in BOOLEAN
    BY <1>9
  <2> QED BY <2>1, <2>2, <2>3, <2>4 DEF ManagerInv
<1>11. ASSUME OrderInv, ~overtaken' PROVE ~Overtaken(adv_table') /\ Ordered(info_index', adv_table')
  <2>1. ~overtaken /\ ~Overtaken(adv_table') /\ Ordered(info_index, adv_table)
    BY <1>9, <1>11 DEF OrderInv
  <2> DEFINE S == Entries(adv_table')
  <2>2. Peers(S)
    BY <1>8, <2>1, PeersTable
  <2>3. OrderedBut(index, adv_table, p)
    <3>1. CASE known
      BY <1>1, <2>1, <3>1 DEF Ordered, OrderedBut
    <3>2. CASE ~known
      <4>1. PICK i \in 0..Len(info_index) : index = InsertAfter(info_index, i, p)
        BY <1>1, <3>2 DEF Linked
      <4>2. info_index \in Seq(Providers)
        BY DEF ManagerInv, IndexOK
      <4>3. OrderedBut(InsertAfter(info_index, i, p), adv_table, p)
        BY <2>1, <4>2, InsertOrdered
      <4> QED BY <4>1, <4>3
    <3> QED BY <3>1, <3>2
  <2>4. e \in S /\ \A q \in Elements(index) \ {p} : q \in DOMAIN adv_table /\ adv_table[q] \in S
    BY <1>6, <1>8 DEF Entries
  <2> HIDE DEF S
  <2>5. p \in Elements(index) /\ info_index' \in Replaced(index, adv_table, p, e)
    BY <1>1, <1>6
  <2>6. Ordered(info_index', With(adv_table, p, e))
    BY <1>6, <2>2, <2>3, <2>4, <2>5, ReplacedOrdered
  <2> QED BY <1>1, <2>1, <2>6
<1>12. OrderInv => OrderInv'
  BY <1>11, OrderKept
<1> QED BY <1>10, <1>12

\* A provider with a replica of the page has its place at the end of adv_list.
LEMMA SamePage ==
    ASSUME NEW n \in Nat, NEW r \in Nat \ {0}, NEW j \in 1..n, (j - 1) \div r = n \div r
    PROVE  j \in (n - (n % r) + 1)..n
<1>1. n = (n \div r) * r + (n % r)
  OBVIOUS
<1>2. j - 1 = ((j - 1) \div r) * r + ((j - 1) % r) /\ (j - 1) % r >= 0
  OBVIOUS
<1> DEFINE a == (n \div r) * r
           m == n % r
           l == (j - 1) % r
<1>3. j - 1 = a + l
  BY <1>2
<1>4. a \in Int /\ m \in Int /\ l \in Int /\ l >= 0 /\ n = a + m
  BY <1>1, <1>2
<1> HIDE DEF a, m, l
<1>5. j >= n - m + 1
  BY <1>3, <1>4
<1> QED BY <1>4, <1>5 DEF m

\* One round of get: the winner's entry moves, and it has no replica of the
\* page yet.
LEMMA GetNextStep ==
    ASSUME ManagerInv, get_next
    PROVE  ManagerInv' /\ (OrderInv => OrderInv')
<1>1. PICK k \in DOMAIN info_index :
         /\ Suitable(k)
         /\ adv_table' = With(adv_table, info_index[k], [adv_table[info_index[k]] EXCEPT !.score = @ + 1])
         /\ info_index' \in Replaced(info_index, adv_table, info_index[k],
                                     [adv_table[info_index[k]] EXCEPT !.score = @ + 1])
         /\ request' = [request EXCEPT !.adv_list = Append(@, info_index[k])]
  BY DEF get_next
<1> DEFINE p == info_index[k]
           e == [adv_table[p] EXCEPT !.score = @ + 1]
<1>2. /\ info_index \in Seq(Providers) /\ Injective(info_index)
      /\ p \in Elements(info_index) /\ Elements(info_index) = DOMAIN adv_table
      /\ p \in Providers /\ p \in DOMAIN adv_table
  BY DEF ManagerInv, IndexOK, TableOK, Elements
<1>3. adv_table[p] \in table_entry
  BY <1>2 DEF ManagerInv, TableOK
<1>4. e \in table_entry
  BY <1>3, ScoredEntry
<1>5. /\ info_index' \in Replaced(info_index, adv_table, p, e)
      /\ adv_table' = With(adv_table, p, e)
      /\ request' = [request EXCEPT !.adv_list = Append(@, p)]
      /\ p \notin Allocated
  BY <1>1 DEF Suitable
<1>14. overtaken' = (overtaken \/ Overtaken(adv_table'))
  BY DEF get_next
<1> HIDE DEF e, p
<1>6. /\ info_index' \in Seq(Providers) /\ Injective(info_index')
      /\ Elements(info_index') = DOMAIN adv_table
  BY <1>2, <1>5, ReplacedProps
<1>7. /\ adv_table' \in [DOMAIN adv_table -> table_entry]
      /\ DOMAIN adv_table' = DOMAIN adv_table
      /\ DOMAIN adv_table' \subseteq Providers
      /\ \A q \in DOMAIN adv_table : adv_table'[q] = IF q = p THEN e ELSE adv_table[q]
  <2>1. TableOK /\ DOMAIN adv_table \cup {p} = DOMAIN adv_table
    BY <1>2 DEF ManagerInv
  <2> DEFINE w == With(adv_table, p, e)
  <2>2. /\ w \in [DOMAIN adv_table \cup {p} -> table_entry]
        /\ DOMAIN w = DOMAIN adv_table \cup {p}
        /\ DOMAIN w \subseteq Providers
        /\ \A q \in DOMAIN adv_table \cup {p} : w[q] = IF q = p THEN e ELSE adv_table[q]
    BY <1>2, <1>4, <2>1, WithTable
  <2>3. adv_table' = w
    BY <1>5
  <2> HIDE DEF w
  <2> QED BY <2>1, <2>2, <2>3, Zenon
<1>8. TableOK' /\ IndexOK'
  BY <1>6, <1>7 DEF TableOK, IndexOK, Injective, Elements
<1>9. /\ request \in request_t /\ request.replica_no \in Nat \ {0}
      /\ request.adv_list \in Seq(Providers)
  BY DEF ManagerInv, RequestOK, request_t
<1>10. /\ request' \in request_t /\ request'.replica_no = request.replica_no
       /\ request'.adv_list = Append(request.adv_list, p)
  <2>1. Append(request.adv_list, p) \in Seq(Providers)
    BY <1>2, <1>9
  <2> QED BY <1>5, <1>9, <2>1 DEF request_t
<1>11. RequestOK'
  BY <1>9, <1>10 DEF RequestOK
<1>12. ReplicasApart'
  <2> DEFINE n == Len(request.adv_list)
             r == request.replica_no
             s == request.adv_list
             t == request'.adv_list
  <2>1. /\ n \in Nat /\ DOMAIN s = 1..n /\ DOMAIN t = 1..(n + 1)
        /\ \A i \in 1..n : t[i] = s[i]
        /\ t[n + 1] = p
    BY <1>2, <1>9, <1>10
  <2>2. \A i, j \in 1..n : (i # j /\ (i - 1) \div r = (j - 1) \div r) => s[i] # s[j]
    BY <2>1 DEF ManagerInv, ReplicasApart
  <2>3. \A j \in (n - (n % r) + 1)..n : s[j] # p
    BY <1>5 DEF Allocated
  <2>4. r \in Nat \ {0} /\ request'.replica_no = r
    BY <1>9, <1>10
  <2>5. SUFFICES \A i, j \in 1..(n + 1) : (i # j /\ (i - 1) \div r = (j - 1) \div r) => t[i] # t[j]
    BY <2>1, <2>4 DEF ReplicasApart
  <2> HIDE DEF n, r, s, t
  <2>6. ASSUME NEW j \in 1..n, (j - 1) \div r = n \div r PROVE t[j] # p
    <3>1. j \in (n - (n % r) + 1)..n
      BY <2>1, <2>4, <2>6, SamePage
    <3> QED BY <2>1, <2>3, <3>1
  <2>7. SUFFICES ASSUME NEW i \in 1..(n + 1), NEW j \in 1..(n + 1), i # j,
                        (i - 1) \div r = (j - 1) \div r
                 PROVE  t[i] # t[j]
    OBVIOUS
  <2>8. CASE i \in 1..n /\ j \in 1..n
    BY <2>1, <2>2, <2>7, <2>8
  <2>9. CASE i = n + 1
    <3>1. j \in 1..n /\ i - 1 = n
      BY <2>1, <2>7, <2>9
    <3>2. (j - 1) \div r = n \div r
      BY <2>7, <3>1
    <3> QED BY <2>1, <2>6, <2>9, <3>1, <3>2
  <2>10. CASE j = n + 1
    <3>1. i \in 1..n /\ j - 1 = n
      BY <2>1, <2>7, <2>10
    <3>2. (i - 1) \div r = n \div r
      BY <2>7, <3>1
    <3> QED BY <2>1, <2>6, <2>10, <3>1, <3>2
  <2> QED BY <2>1, <2>8, <2>9, <2>10
<1>13. ASSUME OrderInv, ~overtaken' PROVE ~Overtaken(adv_table') /\ Ordered(info_index', adv_table')
  <2>1. ~overtaken /\ ~Overtaken(adv_table') /\ Ordered(info_index, adv_table)
    BY <1>13, <1>14 DEF OrderInv
  <2> DEFINE S == Entries(adv_table')
  <2>2. Peers(S)
    BY <1>7, <2>1, PeersTable
  <2>3. OrderedBut(info_index, adv_table, p)
    BY <2>1 DEF Ordered, OrderedBut
  <2>4. e \in S /\ \A q \in Elements(info_index) \ {p} : q \in DOMAIN adv_table /\ adv_table[q] \in S
    BY <1>2, <1>7 DEF Entries
  <2> HIDE DEF S
  <2>5. Ordered(info_index', With(adv_table, p, e))
    BY <1>2, <1>5, <2>2, <2>3, <2>4, ReplacedOrdered
  <2> QED BY <1>5, <2>1, <2>5
<1>15. OrderInv => OrderInv'
  BY <1>13, OrderKept
<1>16. overtaken' \in BOOLEAN
  BY <1>14
<1> QED BY <1>8, <1>11, <1>12, <1>15, <1>16 DEF ManagerInv

\* The watchdog erases an entry, also in the middle of get.
LEMMA WatchdogStep ==
    ASSUME ManagerInv, NEW p \in Providers, watchdog_exec(p)
    PROVE  ManagerInv' /\ (OrderInv => OrderInv')
<1>1. /\ p \in DOMAIN adv_table
      /\ adv_table' = [q \in DOMAIN adv_table \ {p} |-> adv_table[q]]
      /\ info_index' = Without(info_index, p)
      /\ request' = request /\ overtaken' = overtaken
  BY DEF watchdog_exec
<1>2. /\ info_index \in Seq(Providers) /\ Injective(info_index)
      /\ p \in Elements(info_index) /\ Elements(info_index) = DOMAIN adv_table
  BY <1>1 DEF ManagerInv, IndexOK
<1>3. /\ info_index' \in Seq(Providers) /\ Injective(info_index')
      /\ Elements(info_index') = DOMAIN adv_table \ {p}
      /\ \A table : OrderedBut(info_index, table, p) => Ordered(info_index', table)
  BY <1>1, <1>2, WithoutProps
<1>4. /\ adv_table' \in [DOMAIN adv_table \ {p} -> table_entry]
      /\ DOMAIN adv_table' = DOMAIN adv_table \ {p}
      /\ DOMAIN adv_table \subseteq Providers
      /\ \A q \in DOMAIN adv_table \ {p} : adv_table'[q] = adv_table[q]
  BY <1>1 DEF ManagerInv, TableOK
<1>5. TableOK'
  BY <1>4 DEF TableOK
<1>6. IndexOK'
  BY <1>3, <1>4 DEF IndexOK, Injective, Elements
<1>7. RequestOK' /\ ReplicasApart'
  BY <1>1 DEF ManagerInv, RequestOK, ReplicasApart
<1>8. ASSUME OrderInv, ~overtaken' PROVE ~Overtaken(adv_table') /\ Ordered(info_index', adv_table')
  <2>1. ~Overtaken(adv_table) /\ Ordered(info_index, adv_table)
    BY <1>1, <1>8 DEF OrderInv
  <2>2. ~Overtaken(adv_table')
    BY <1>4, <2>1 DEF Overtaken
  <2>3. Ordered(info_index', adv_table)
    BY <1>3, <2>1 DEF Ordered, OrderedBut
  <2>4. \A i \in DOMAIN info_index' : adv_table'[info_index'[i]] = adv_table[info_index'[i]]
    BY <1>3, <1>4 DEF Elements
  <2>5. Ordered(info_index', adv_table')
    BY <2>3, <2>4 DEF Ordered
  <2> QED BY <2>2, <2>5
<1>9. OrderInv => OrderInv'
  BY <1>8, OrderKept
<1> QED BY <1>1, <1>5, <1>6, <1>7, <1>9 DEF ManagerInv

\* Time changes no score and no free space.
LEMMA TickStep ==
    ASSUME ManagerInv, Tick
    PROVE  ManagerInv' /\ (OrderInv => OrderInv')
<1>1. /\ adv_table' = [p \in DOMAIN adv_table |->
                        [adv_table[p] EXCEPT !.life = IF @ < 0 THEN @ ELSE @ - 1]]
      /\ info_index' = info_index /\ request' = request /\ overtaken' = overtaken
  BY DEF Tick
<1>2. \A p \in DOMAIN adv_table : adv_table[p] \in table_entry
  BY DEF ManagerInv, TableOK
<1>3. ASSUME NEW p \in DOMAIN adv_table
      PROVE  /\ adv_table'[p] \in table_entry
             /\ adv_table'[p].score = adv_table[p].score
             /\ adv_table'[p].free = adv_table[p].free
  <2>1. adv_table'[p] = [adv_table[p] EXCEPT !.life = IF @ < 0 THEN @ ELSE @ - 1]
    BY <1>1
  <2> QED BY <1>2, <2>1, TickedEntry
<1>4. DOMAIN adv_table' = DOMAIN adv_table /\ adv_table' = [p \in DOMAIN adv_table |-> adv_table'[p]]
  BY <1>1
<1>5. TableOK' /\ IndexOK'
  BY <1>1, <1>3, <1>4 DEF ManagerInv, TableOK, IndexOK, Injective, Elements
<1>6. RequestOK' /\ ReplicasApart'
  BY <1>1 DEF ManagerInv, RequestOK, ReplicasApart
<1>7. ASSUME OrderInv, ~overtaken' PROVE ~Overtaken(adv_table') /\ Ordered(info_index', adv_table')
  <2>1. ~Overtaken(adv_table) /\ Ordered(info_index, adv_table)
    BY <1>1, <1>7 DEF OrderInv
  <2>2. ~Overtaken(adv_table')
    BY <1>3, <1>4, <2>1 DEF Overtaken
  <2>3. \A i \in DOMAIN info_index : info_index[i] \in DOMAIN adv_table
    BY DEF ManagerInv, IndexOK, Elements
  <2>4. \A p, q \in DOMAIN adv_table :
           Less(adv_table'[p], adv_table'[q]) <=> Less(adv_table[p], adv_table[q])
    BY <1>3 DEF Less
  <2>5. \A i, j \in DOMAIN info_index :
           i < j => ~Less(adv_table'[info_index[j]], adv_table'[info_index[i]])
    BY <2>1, <2>3, <2>4 DEF Ordered
  <2>6. Ordered(info_index', adv_table')
    BY <1>1, <2>5 DEF Ordered
  <2> QED BY <2>2, <2>6
<1>8. OrderInv => OrderInv'
  BY <1>7, OrderKept
<1> QED BY <1>1, <1>5, <1>6, <1>8 DEF ManagerInv

\* Starting and ending a get changes neither table nor index.
LEMMA GetStep ==
    ASSUME ManagerInv, NEW pages \in PageCounts, NEW replica_no \in ReplicaCounts,
           get(pages, replica_no)
    PROVE  ManagerInv' /\ (OrderInv => OrderInv')
<1>1. /\ adv_table' = adv_table /\ info_index' = info_index /\ overtaken' = overtaken
      /\ request' = [no_providers |-> pages * replica_no, replica_no |-> replica_no,
                     adv_list |-> << >>, status |-> "serving"]
  BY DEF get
<1>2. pages \in Nat /\ replica_no \in Nat /\ replica_no # 0
  BY ManagerAssumption
<1>3. pages * replica_no \in Nat
  BY <1>2
<1>4. RequestOK'
  BY <1>1, <1>2, <1>3 DEF RequestOK, request_t
<1>5. ReplicasApart'
  BY <1>1 DEF ReplicasApart
<1>6. TableOK' /\ IndexOK'
  BY <1>1 DEF ManagerInv, TableOK, IndexOK, Injective, Elements
<1>7. OrderInv => OrderInv'
  BY <1>1 DEF OrderInv, Ordered, Less, Overtaken
<1> QED BY <1>1, <1>4, <1>5, <1>6, <1>7 DEF ManagerInv

\* The end of get changes neither table nor index.
LEMMA GetEndsStep ==
    ASSUME ManagerInv, get_fails \/ get_succeeds \/ UNCHANGED vars
    PROVE  ManagerInv' /\ (OrderInv => OrderInv')
<1>1. /\ adv_table' = adv_table /\ info_index' = info_index /\ overtaken' = overtaken
      /\ \/ \E status \in {"ok", "eres"} : request' = [request EXCEPT !.status = status]
         \/ request' = request
  BY DEF get_fails, get_succeeds, vars
<1>2. request \in request_t
  BY DEF ManagerInv, RequestOK
<1>3. /\ request' \in request_t /\ request'.replica_no = request.replica_no
      /\ request'.adv_list = request.adv_list
  BY <1>1, <1>2 DEF request_t
<1>4. RequestOK' /\ ReplicasApart'
  BY <1>3 DEF ManagerInv, RequestOK, ReplicasApart
<1>5. TableOK' /\ IndexOK'
  BY <1>1 DEF ManagerInv, TableOK, IndexOK, Injective, Elements
<1>6. OrderInv => OrderInv'
  BY <1>1 DEF OrderInv, Ordered, Less, Overtaken
<1> QED BY <1>1, <1>4, <1>5, <1>6 DEF ManagerInv

-----------------------------------------------------------------------------
(* The theorems. *)

\* The manager starts with no provider.
LEMMA InitManager == Init => ManagerInv /\ OrderInv
<1> SUFFICES ASSUME Init PROVE ManagerInv /\ OrderInv
  OBVIOUS
<1>1. /\ adv_table = << >> /\ info_index = << >> /\ overtaken = FALSE
      /\ request = [no_providers |-> 0, replica_no |-> 1, adv_list |-> << >>, status |-> "ok"]
  BY DEF Init
<1>2. DOMAIN adv_table = {} /\ adv_table \in [{} -> table_entry]
  BY <1>1
<1>3. info_index \in Seq(Providers) /\ DOMAIN info_index = {}
  BY <1>1
<1>4. TableOK /\ IndexOK /\ OrderInv
  BY <1>2, <1>3 DEF TableOK, IndexOK, Injective, Elements, OrderInv, Ordered, Overtaken
<1>5. RequestOK /\ ReplicasApart
  BY <1>1 DEF RequestOK, ReplicasApart, request_t
<1> QED BY <1>1, <1>4, <1>5 DEF ManagerInv

\* Updates, allocations and erasures preserve the invariants.
LEMMA NextManager ==
    ASSUME ManagerInv, [Next]_vars
    PROVE  ManagerInv' /\ (OrderInv => OrderInv')
<1>1. CASE \E p \in Providers, free_space \in FreeSpaces : update(p, free_space)
  BY <1>1, UpdateStep
<1>2. CASE \E pages \in PageCounts, replica_no \in ReplicaCounts : get(pages, replica_no)
  BY <1>2, GetStep
<1>3. CASE get_next
  BY <1>3, GetNextStep
<1>4. CASE get_fails \/ get_succeeds \/ UNCHANGED vars
  BY <1>4, GetEndsStep
<1>5. CASE \E p \in Providers : watchdog_exec(p)
  BY <1>5, WatchdogStep
<1>6. CASE Tick
  BY <1>6, TickStep
<1> QED BY <1>1, <1>2, <1>3, <1>4, <1>5, <1>6 DEF Next

\* The index is as long as the table has providers.
LEMMA IndexCounts == ManagerInv => TypeOK
<1> SUFFICES ASSUME ManagerInv PROVE TypeOK
  OBVIOUS
<1> DEFINE n == Len(info_index)
           S == DOMAIN adv_table
<1>1. info_index \in Seq(Providers) /\ Injective(info_index) /\ Elements(info_index) = S
      /\ n \in Nat /\ DOMAIN info_index = 1..n
  BY DEF ManagerInv, IndexOK
<1>2. info_index \in Bijection(1..n, S)
  <2>1. info_index \in [1..n -> S]
    BY <1>1 DEF Elements
  <2>2. info_index \in Injection(1..n, S)
    BY <1>1, <2>1 DEF Injective, Injection, IsInjective
  <2>3. info_index \in Surjection(1..n, S)
    BY <1>1, <2>1 DEF Elements, Surjection
  <2> QED BY <2>2, <2>3 DEF Bijection
<1>3. IsFiniteSet(1..n) /\ Cardinality(1..n) = n
  <2>1. Cardinality(1..n) = IF 1 > n THEN 0 ELSE n - 1 + 1
    BY <1>1, FS_Interval
  <2>2. IsFiniteSet(1..n)
    BY <1>1, FS_Interval
  <2> QED BY <1>1, <2>1, <2>2
<1>4. Cardinality(S) = Cardinality(1..n)
  BY <1>2, <1>3, FS_Bijection DEF ExistsBijection
<1>5. Len(info_index) = Cardinality(DOMAIN adv_table)
  BY <1>3, <1>4
<1>6. {info_index[i] : i \in DOMAIN info_index} = DOMAIN adv_table
  BY <1>1 DEF Elements
<1>7. request \in request_t /\ adv_table \in [DOMAIN adv_table -> table_entry]
      /\ DOMAIN adv_table \subseteq Providers /\ overtaken \in BOOLEAN
  BY DEF ManagerInv, RequestOK, TableOK
<1> QED BY <1>1, <1>5, <1>6, <1>7 DEF TypeOK

\* For any providers, the table has its types and the index lists its
\* providers, each once, whatever update, get and watchdog_exec do in turn.
THEOREM IndexListsTable == Spec => []TypeOK
<1>1. Init => ManagerInv
  BY InitManager
<1>2. ManagerInv /\ [Next]_vars => ManagerInv'
  BY NextManager
<1> QED BY <1>1, <1>2, IndexCounts, PTL DEF Spec

\* For any number of pages and replicas, the replicas of a page are on
\* different providers, also when the watchdog erases some in the middle.
THEOREM ReplicasAlwaysApart == Spec => []ReplicasApart
<1>1. Init => ManagerInv
  BY InitManager
<1>2. ManagerInv /\ [Next]_vars => ManagerInv'
  BY NextManager
<1>3. ManagerInv => ReplicasApart
  BY DEF ManagerInv
<1> QED BY <1>1, <1>2, <1>3, PTL DEF Spec

\* Until a full provider is overtaken the index is in order, whatever space
\* providers report, none included.
THEOREM IndexAlwaysOrdered == Spec => []IndexOrdered
<1>1. Init => ManagerInv /\ OrderInv
  BY InitManager
<1>2. ManagerInv /\ OrderInv /\ [Next]_vars => ManagerInv' /\ OrderInv'
  BY NextManager
<1>3. OrderInv => IndexOrdered
  BY DEF OrderInv, Ordered, IndexOrdered
<1> QED BY <1>1, <1>2, <1>3, PTL DEF Spec

\* Until then the provider that get allocates is one with the lowest score
\* among those with free space.
THEOREM LowestScoreAlwaysWins == Spec => LowestScoreWins
<1>1. Init => ManagerInv /\ OrderInv
  BY InitManager
<1>2. ManagerInv /\ OrderInv /\ [Next]_vars => ManagerInv' /\ OrderInv'
  BY NextManager
<1> DEFINE Longer == ~overtaken /\ Len(request'.adv_list) > Len(request.adv_list)
           Won == Wins(request'.adv_list[Len(request'.adv_list)])
<1>3. ASSUME ManagerInv, OrderInv, [Next]_vars, Longer PROVE Won
  <2>1. request \in request_t /\ request.adv_list \in Seq(Providers) /\ Len(request.adv_list) \in Nat
    BY <1>3 DEF ManagerInv, RequestOK, request_t
  <2>2. get_next
    <3>5. request' # request
      BY <1>3, <2>1
    <3>1. ~(\E p \in Providers, free_space \in FreeSpaces : update(p, free_space))
      BY <3>5 DEF update
    <3>2. ~(\E pages \in PageCounts, replica_no \in ReplicaCounts : get(pages, replica_no))
      BY <1>3, <2>1 DEF get
    <3>3. ~get_fails /\ ~get_succeeds
      <4>1. get_fails \/ get_succeeds => request'.adv_list = request.adv_list
        BY <2>1 DEF get_fails, get_succeeds, request_t
      <4> QED BY <1>3, <2>1, <4>1
    <3>4. ~(\E p \in Providers : watchdog_exec(p)) /\ ~Tick /\ ~UNCHANGED vars
      BY <3>5 DEF watchdog_exec, Tick, vars
    <3> QED BY <1>3, <3>1, <3>2, <3>3, <3>4 DEF Next
  <2>3. PICK k \in DOMAIN info_index :
           /\ Suitable(k)
           /\ request' = [request EXCEPT !.adv_list = Append(@, info_index[k])]
    BY <2>2 DEF get_next
  <2> DEFINE p == info_index[k]
  <2>4. p \in Providers /\ p \in DOMAIN adv_table /\ Elements(info_index) = DOMAIN adv_table
        /\ info_index \in Seq(Providers)
    BY <1>3 DEF ManagerInv, IndexOK, TableOK, Elements
  <2>5. request'.adv_list[Len(request'.adv_list)] = p
    BY <2>1, <2>3, <2>4 DEF request_t
  <2>6. Wins(p)
    <3>1. SUFFICES ASSUME NEW q \in DOMAIN adv_table \ (Allocated \cup {p})
                   PROVE  \/ adv_table[q].free = 0
                          \/ adv_table[p].score < adv_table[q].score
                          \/ /\ adv_table[p].score = adv_table[q].score
                             /\ adv_table[p].free >= adv_table[q].free
      BY DEF Wins
    <3>2. PICK j \in DOMAIN info_index : info_index[j] = q
      BY <2>4 DEF Elements
    <3>3. j # k /\ j \notin 1..(k - 1)
      BY <2>3, <3>2 DEF Suitable
    <3>4. k < j
      BY <2>4, <3>3
    <3>5. ~Less(adv_table[q], adv_table[p])
      BY <1>3, <3>2, <3>4 DEF OrderInv, Ordered
    <3>6. adv_table[q] \in table_entry /\ adv_table[p] \in table_entry
      BY <1>3, <2>4 DEF ManagerInv, TableOK
    <3>8. adv_table[p].free > 0
      <4>1. k \in 1..k
        BY <2>4
      <4> QED BY <2>3, <4>1 DEF Suitable
    <3>9. adv_table[q].free \in Nat /\ adv_table[q].score \in Nat /\ adv_table[p].free \in Nat
          /\ adv_table[p].score \in Nat
      BY <3>6 DEF table_entry
    <3> QED BY <3>5, <3>8, <3>9 DEF Less
  <2> QED BY <2>5, <2>6
<1>4. ManagerInv /\ OrderInv /\ [Next]_vars => [Longer => Won]_vars
  BY <1>3
<1> QED BY <1>1, <1>2, <1>4, PTL DEF Spec, LowestScoreWins

\* A set of positions that is not empty has a first one.
LEMMA FirstPosition ==
    ASSUME NEW n \in Nat, NEW K \in SUBSET (1..n), K # {}
    PROVE  \E k \in K : \A j \in 1..(k - 1) : j \notin K
<1> DEFINE M == {1..k : k \in K}
           R == StrictSubsetOrdering(1..n)
<1>1. IsFiniteSet(1..n)
  BY FS_Interval
<1>2. IsWellFoundedOn(R, FiniteSubsetsOf(1..n))
  BY FS_StrictSubsetOrderingWellFounded
<1>3. M \subseteq FiniteSubsetsOf(1..n) /\ M # {}
  <2>1. SUFFICES ASSUME NEW k \in K PROVE 1..k \in FiniteSubsetsOf(1..n)
    BY DEF M
  <2>2. 1..k \in SUBSET (1..n)
    OBVIOUS
  <2>3. IsFiniteSet(1..k)
    BY <1>1, <2>2, FS_Subset
  <2> QED BY <2>2, <2>3 DEF FiniteSubsetsOf
<1> HIDE DEF M, R
<1>4. PICK m \in M : \A y \in M : ~(<<y, m>> \in R)
  BY <1>2, <1>3, WFMin
<1>5. PICK k \in K : m = 1..k
  BY <1>4 DEF M
<1>6. ASSUME NEW j \in 1..(k - 1), j \in K PROVE FALSE
  <2>1. 1..j \in M
    BY <1>6 DEF M
  <2>2. 1..j \in SUBSET (1..n) /\ 1..k \in SUBSET (1..n) /\ 1..j \subseteq 1..k /\ 1..j # 1..k
    <3>1. k \in 1..k /\ k \notin 1..j
      OBVIOUS
    <3>2. 1..j \in SUBSET (1..n) /\ 1..k \in SUBSET (1..n) /\ 1..j \subseteq 1..k
      OBVIOUS
    <3> QED BY <3>1, <3>2
  <2>3. <<1..j, 1..k>> \in R
    BY <2>2 DEF R, StrictSubsetOrdering
  <2> QED BY <1>4, <1>5, <2>1, <2>3
<1> QED BY <1>6

\* And get fails only if no provider with free space is left for the page:
\* the full provider its scan ends at has only full ones behind it.
THEOREM FailsOnlyWithoutProviders == Spec => FailsOnlyWhenFull
<1>1. Init => ManagerInv /\ OrderInv
  BY InitManager
<1>2. ManagerInv /\ OrderInv /\ [Next]_vars => ManagerInv' /\ OrderInv'
  BY NextManager
<1> DEFINE Fails == ~overtaken /\ Serving /\ request'.status = "eres"
           Full == \A p \in DOMAIN adv_table \ Allocated : adv_table[p].free = 0
<1>3. ASSUME ManagerInv, OrderInv, [Next]_vars, Fails PROVE Full
  <2>1. request \in request_t /\ request.status = "serving"
    BY <1>3 DEF ManagerInv, RequestOK, Serving
  <2>2. get_fails
    <3>1. request' # request
      BY <1>3, <2>1
    <3>2. ~(\E p \in Providers, free_space \in FreeSpaces : update(p, free_space))
      BY <3>1 DEF update
    <3>3. ~(\E pages \in PageCounts, replica_no \in ReplicaCounts : get(pages, replica_no))
      BY <1>3 DEF get
    <3>4. ~get_next /\ ~get_succeeds
      <4>1. get_next => request'.status = "serving"
        BY <2>1 DEF get_next, request_t
      <4>2. get_succeeds => request'.status = "ok"
        BY <2>1 DEF get_succeeds, request_t
      <4> QED BY <1>3, <4>1, <4>2
    <3>5. ~(\E p \in Providers : watchdog_exec(p)) /\ ~Tick /\ ~UNCHANGED vars
      BY <3>1 DEF watchdog_exec, Tick, vars
    <3> QED BY <1>3, <3>2, <3>3, <3>4, <3>5 DEF Next
  <2>3. \A k \in DOMAIN info_index : ~Suitable(k)
    BY <2>2 DEF get_fails
  <2> DEFINE n == Len(info_index)
             Free(k) == adv_table[info_index[k]].free
             K == {k \in 1..n : info_index[k] \notin Allocated /\ Free(k) > 0}
  <2>4. n \in Nat /\ DOMAIN info_index = 1..n /\ Elements(info_index) = DOMAIN adv_table
    BY <1>3 DEF ManagerInv, IndexOK
  <2>9. \A p \in DOMAIN adv_table : adv_table[p] \in table_entry
    BY <1>3 DEF ManagerInv, TableOK
  <2>5. ASSUME NEW j \in 1..n, NEW k \in 1..n, j < k, Free(k) > 0 PROVE Free(j) > 0
    <3> DEFINE S == Entries(adv_table)
               a == adv_table[info_index[j]]
               b == adv_table[info_index[k]]
    <3>1. Peers(S)
      BY <1>3, <2>9, PeersTable DEF OrderInv
    <3>2. a \in S /\ b \in S /\ ~Less(b, a)
      BY <1>3, <2>4, <2>5 DEF OrderInv, Ordered, Elements, Entries
    <3> HIDE DEF a, b, S
    <3>3. b.free > 0
      BY <2>5 DEF b
    <3>4. ~(a.free = 0) /\ a.free \in Nat
      BY <3>1, <3>2, <3>3, PeersLess
    <3>5. a.free > 0
      BY <3>4
    <3> QED BY <3>5 DEF a
  <2>6. K = {}
    <3>1. SUFFICES ASSUME K # {} PROVE FALSE
      OBVIOUS
    <3>2. PICK k \in K : \A j \in 1..(k - 1) : j \notin K
      BY <2>4, <3>1, FirstPosition
    <3>3. k \in 1..n /\ info_index[k] \notin Allocated /\ Free(k) > 0
      OBVIOUS
    <3>4. 1..k \subseteq 1..n /\ 1..(k - 1) \subseteq 1..n /\ \A j \in 1..k : j = k \/ j < k
      BY <2>4, <3>3
    <3>6. \A j \in 1..k : Free(j) > 0
      BY <2>5, <3>3, <3>4
    <3>7. \A j \in 1..(k - 1) : j \in 1..k
      BY <2>4, <3>3
    <3>8. \A j \in 1..(k - 1) : info_index[j] \in Allocated
      BY <3>2, <3>4, <3>6, <3>7
    <3>5. Suitable(k)
      BY <3>3, <3>6, <3>8 DEF Suitable
    <3> QED BY <2>3, <2>4, <3>3, <3>5
  <2>7. ASSUME NEW p \in DOMAIN adv_table \ Allocated PROVE adv_table[p].free = 0
    <3>1. PICK k \in 1..n : info_index[k] = p
      BY <2>4 DEF Elements
    <3>2. ~(Free(k) > 0)
      BY <2>6, <3>1
    <3>3. adv_table[p].free \in Nat
      BY <2>9 DEF table_entry
    <3> QED BY <3>1, <3>2, <3>3
  <2> QED BY <2>7
<1>4. ManagerInv /\ OrderInv /\ [Next]_vars => [Fails => Full]_vars
  BY <1>3
<1> QED BY <1>1, <1>2, <1>4, PTL DEF Spec, FailsOnlyWhenFull

=============================================================================
