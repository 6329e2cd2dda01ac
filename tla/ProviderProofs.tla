--------------------------- MODULE ProviderProofs ----------------------------
(***************************************************************************)
(* Proofs about a provider, for every set of keys, cache size, space and   *)
(* number of faults: first its page store on its own (PageStore), then the *)
(* listener, which reports for ever and never more than twice at a time,   *)
(* and both together.                                                      *)
(***************************************************************************)
EXTENDS Provider, FiniteSetTheorems, SequenceTheorems, TLAPS

Injective(q) == \A i, j \in DOMAIN q : q[i] = q[j] => i = j

-----------------------------------------------------------------------------
(* The LRU queue. *)

\* invalidate removes the key, keeps the others, and no key appears twice.
LEMMA InvalidateProps ==
    ASSUME NEW q \in Seq(Keys), Injective(q), NEW k
    PROVE  /\ Invalidate(q, k) \in Seq(Keys)
           /\ Injective(Invalidate(q, k))
           /\ Elements(Invalidate(q, k)) = Elements(q) \ {k}
           /\ Len(Invalidate(q, k)) = IF k \in Elements(q) THEN Len(q) - 1 ELSE Len(q)
<1>1. CASE k \notin Elements(q)
  BY <1>1 DEF Invalidate, Elements
<1>2. CASE k \in Elements(q)
  <2> DEFINE i == CHOOSE i \in DOMAIN q : q[i] = k
             r == [j \in 1..(Len(q) - 1) |-> IF j < i THEN q[j] ELSE q[j + 1]]
  <2>1. i \in 1..Len(q) /\ q[i] = k
    BY <1>2 DEF Elements
  <2>2. Invalidate(q, k) = r
    BY <1>2 DEF Invalidate
  <2> HIDE DEF i
  <2>3. r \in Seq(Keys) /\ Len(r) = Len(q) - 1 /\ DOMAIN r = 1..(Len(q) - 1)
    BY <2>1
  <2>4. \A j \in 1..(Len(q) - 1) : r[j] = IF j < i THEN q[j] ELSE q[j + 1]
    OBVIOUS
  <2> HIDE DEF r
  <2>5. Injective(r)
    <3>1. SUFFICES ASSUME NEW a \in 1..(Len(q) - 1), NEW b \in 1..(Len(q) - 1), r[a] = r[b]
                   PROVE  a = b
      BY <2>3 DEF Injective
    <3> DEFINE Place(j) == IF j < i THEN j ELSE j + 1
    <3>2. /\ Place(a) \in DOMAIN q /\ Place(b) \in DOMAIN q
          /\ Place(a) = Place(b) => a = b
      BY <2>1
    <3>3. r[a] = q[Place(a)] /\ r[b] = q[Place(b)]
      BY <2>4
    <3> HIDE DEF Place
    <3>4. Place(a) = Place(b)
      BY <3>1, <3>2, <3>3 DEF Injective
    <3> QED BY <3>2, <3>4
  <2>6. Elements(r) \subseteq Elements(q) \ {k}
    BY <2>1, <2>3, <2>4 DEF Elements, Injective
  <2>7. ASSUME NEW u \in Elements(q) \ {k} PROVE u \in Elements(r)
    <3>1. PICK j \in 1..Len(q) : q[j] = u
      BY DEF Elements
    <3>2. j # i
      BY <2>1, <3>1
    <3>3. CASE j < i
      <4>1. j \in 1..(Len(q) - 1) /\ r[j] = u
        BY <2>1, <2>4, <3>1, <3>3
      <4> QED BY <2>3, <4>1 DEF Elements
    <3>4. CASE j > i
      <4>1. j - 1 \in 1..(Len(q) - 1) /\ ~(j - 1 < i) /\ (j - 1) + 1 = j
        BY <2>1, <3>1, <3>4
      <4>2. r[j - 1] = u
        BY <2>4, <3>1, <4>1
      <4> QED BY <2>3, <4>1, <4>2 DEF Elements
    <3> QED BY <2>1, <3>1, <3>2, <3>3, <3>4
  <2> QED BY <1>2, <2>2, <2>3, <2>5, <2>6, <2>7
<1> QED BY <1>1, <1>2

\* hit puts the key at the back and keeps the others.
LEMMA HitProps ==
    ASSUME NEW q \in Seq(Keys), Injective(q), NEW k \in Keys
    PROVE  /\ Hit(q, k) \in Seq(Keys)
           /\ Injective(Hit(q, k))
           /\ Elements(Hit(q, k)) = Elements(q) \cup {k}
           /\ Len(Hit(q, k)) = IF k \in Elements(q) THEN Len(q) ELSE Len(q) + 1
<1> DEFINE r == Invalidate(q, k)
           h == Append(r, k)
<1>1. /\ r \in Seq(Keys) /\ Injective(r) /\ Elements(r) = Elements(q) \ {k}
      /\ Len(r) = IF k \in Elements(q) THEN Len(q) - 1 ELSE Len(q)
  BY InvalidateProps
<1> HIDE DEF r
<1>2. /\ h \in Seq(Keys) /\ Len(h) = Len(r) + 1 /\ DOMAIN h = 1..(Len(r) + 1)
      /\ DOMAIN r = 1..Len(r) /\ Len(r) \in Nat
      /\ \A j \in 1..Len(r) : h[j] = r[j]
      /\ h[Len(r) + 1] = k
  BY <1>1
<1>3. \A j \in 1..Len(r) : r[j] # k
  BY <1>1, <1>2 DEF Elements
<1> HIDE DEF h
<1>4. Injective(h)
  BY <1>1, <1>2, <1>3 DEF Injective
<1>5. Elements(h) = Elements(r) \cup {k}
  <2>1. Elements(h) \subseteq Elements(r) \cup {k}
    BY <1>2 DEF Elements
  <2>2. Elements(r) \subseteq Elements(h)
    BY <1>2 DEF Elements
  <2>3. k \in Elements(h)
    <3>1. Len(r) + 1 \in DOMAIN h
      BY <1>2
    <3> QED BY <1>2, <3>1 DEF Elements
  <2> QED BY <2>1, <2>2, <2>3
<1>6. Hit(q, k) = h
  BY DEF Hit, h, r
<1>7. Elements(h) = Elements(q) \cup {k}
  BY <1>1, <1>5
<1>8. Len(q) \in Nat
  OBVIOUS
<1>9. Len(h) = IF k \in Elements(q) THEN Len(q) ELSE Len(q) + 1
  BY <1>1, <1>2, <1>8
<1> QED BY <1>2, <1>4, <1>6, <1>7, <1>9

\* evictEntry takes the key at the front.
LEMMA TailProps ==
    ASSUME NEW q \in Seq(Keys), Injective(q), q # << >>
    PROVE  /\ Head(q) \in Elements(q)
           /\ Tail(q) \in Seq(Keys)
           /\ Injective(Tail(q))
           /\ Elements(Tail(q)) = Elements(q) \ {Head(q)}
           /\ Len(Tail(q)) = Len(q) - 1
<1> DEFINE t == Tail(q)
<1>1. /\ t \in Seq(Keys) /\ Len(t) = Len(q) - 1 /\ DOMAIN t = 1..(Len(q) - 1)
      /\ \A j \in 1..(Len(q) - 1) : t[j] = q[j + 1]
      /\ Head(q) = q[1] /\ 1 \in 1..Len(q) /\ DOMAIN q = 1..Len(q) /\ Len(q) \in Nat
  OBVIOUS
<1> HIDE DEF t
<1>2. Injective(t)
  BY <1>1 DEF Injective
<1>3. Elements(t) \subseteq Elements(q) \ {Head(q)}
  BY <1>1 DEF Elements, Injective
<1>4. ASSUME NEW u \in Elements(q) \ {Head(q)} PROVE u \in Elements(t)
  <2>1. PICK j \in 1..Len(q) : q[j] = u
    BY <1>1 DEF Elements
  <2>2. j - 1 \in 1..(Len(q) - 1) /\ (j - 1) + 1 = j
    BY <1>1, <2>1
  <2>3. t[j - 1] = u
    BY <1>1, <2>1, <2>2
  <2> QED BY <1>1, <2>2, <2>3 DEF Elements
<1> QED BY <1>1, <1>2, <1>3, <1>4 DEF Elements, t

\* Queueing evicted pages keeps those already queued.
LEMMA ConcatElements ==
    ASSUME NEW s \in Seq(Keys), NEW t \in Seq(Keys)
    PROVE  s \o t \in Seq(Keys) /\ Elements(s \o t) = Elements(s) \cup Elements(t)
<1> DEFINE c == s \o t
<1>1. /\ c \in Seq(Keys) /\ Len(c) = Len(s) + Len(t) /\ DOMAIN c = 1..(Len(s) + Len(t))
      /\ DOMAIN s = 1..Len(s) /\ DOMAIN t = 1..Len(t) /\ Len(s) \in Nat /\ Len(t) \in Nat
      /\ \A i \in 1..(Len(s) + Len(t)) : c[i] = IF i <= Len(s) THEN s[i] ELSE t[i - Len(s)]
  OBVIOUS
<1> HIDE DEF c
<1>2. Elements(c) \subseteq Elements(s) \cup Elements(t)
  <2>1. SUFFICES ASSUME NEW i \in DOMAIN c PROVE c[i] \in Elements(s) \cup Elements(t)
    BY DEF Elements
  <2>2. CASE i <= Len(s)
    BY <1>1, <2>2 DEF Elements
  <2>3. CASE ~(i <= Len(s))
    <3>1. i - Len(s) \in DOMAIN t /\ c[i] = t[i - Len(s)]
      BY <1>1, <2>3
    <3> QED BY <3>1 DEF Elements
  <2> QED BY <2>2, <2>3
<1>3. Elements(s) \subseteq Elements(c)
  BY <1>1 DEF Elements
<1>4. ASSUME NEW j \in DOMAIN t PROVE t[j] \in Elements(c)
  <2>1. Len(s) + j \in DOMAIN c /\ c[Len(s) + j] = t[j]
    BY <1>1
  <2> QED BY <2>1 DEF Elements
<1>5. Elements(t) \subseteq Elements(c)
  BY <1>4 DEF Elements
<1> QED BY <1>1, <1>2, <1>3, <1>5 DEF c

-----------------------------------------------------------------------------
(* The inductive invariant.  CacheConsistent counts the LRU queue; that no  *)
(* page is in it twice is what a hit and an eviction need.                  *)

Inv ==
    /\ TypeOK
    /\ Injective(queue)
    /\ IsFiniteSet(DOMAIN cache_map)
    /\ CacheConsistent
    /\ CleanPagesStored

\* cache_mt::write keeps cache and LRU queue in step, whichever page it has
\* to evict, and hands the evicted page to evict unless it is clean.
LEMMA CacheWriteInv ==
    ASSUME Inv, NEW k \in Keys, NEW dirty \in BOOLEAN, CacheWrite(k, dirty)
    PROVE  /\ queue' \in Seq(Keys) /\ Injective(queue') /\ write_queue' \in Seq(Keys)
           /\ IsFiniteSet(DOMAIN cache_map') /\ DOMAIN cache_map' \subseteq Keys
           /\ cache_map' \in [DOMAIN cache_map' -> BOOLEAN]
           /\ CacheConsistent'
           /\ \A u \in DOMAIN cache_map' : IF u = k THEN cache_map'[u] = dirty
                                          ELSE u \in DOMAIN cache_map /\ cache_map'[u] = cache_map[u]
           /\ k \in DOMAIN cache_map'
           /\ \A u \in DOMAIN cache_map \ DOMAIN cache_map' :
                 cache_map[u] => u \in Elements(write_queue')
           /\ Elements(write_queue) \subseteq Elements(write_queue')
           /\ Elements(write_queue') \subseteq Elements(write_queue) \cup DOMAIN cache_map
<1> DEFINE others == DOMAIN cache_map \ {k}
           full == Cardinality(others) = CacheSlots
           kept == IF full THEN others \ {Head(queue)} ELSE others
           q == IF full THEN Tail(queue) ELSE queue
           out == IF full THEN Evicted(Head(queue)) ELSE << >>
<1>1. /\ cache_map' = [u \in kept \cup {k} |-> IF u = k THEN dirty ELSE cache_map[u]]
      /\ queue' = Hit(q, k)
      /\ write_queue' = write_queue \o out
  BY DEF CacheWrite
<1>2. /\ queue \in Seq(Keys) /\ write_queue \in Seq(Keys) /\ Injective(queue)
      /\ DOMAIN cache_map \subseteq Keys /\ cache_map \in [DOMAIN cache_map -> BOOLEAN]
      /\ Elements(queue) = DOMAIN cache_map
      /\ Len(queue) = Cardinality(DOMAIN cache_map) /\ Len(queue) <= CacheSlots
      /\ IsFiniteSet(DOMAIN cache_map)
  BY DEF Inv, TypeOK, CacheConsistent
<1>3. /\ IsFiniteSet(others) /\ Cardinality(others) \in Nat /\ Len(queue) \in Nat
      /\ Cardinality(others) = IF k \in DOMAIN cache_map THEN Len(queue) - 1 ELSE Len(queue)
  BY <1>2, FS_RemoveElement, FS_CardinalityType
<1>4. /\ CacheSlots \in Nat \ {0}
  BY PageStoreAssumption
<1>5. ASSUME full
      PROVE  /\ k \notin DOMAIN cache_map /\ others = DOMAIN cache_map
             /\ queue # << >> /\ Len(queue) = CacheSlots
  <2>1. k \notin DOMAIN cache_map /\ Len(queue) = CacheSlots
    BY <1>2, <1>3, <1>4, <1>5
  <2> QED BY <2>1, <1>2, <1>4
<1>6. /\ q \in Seq(Keys) /\ Injective(q) /\ Elements(q) \ {k} = kept
      /\ Len(q) \in Nat
      /\ Len(q) = IF k \in Elements(q) THEN Cardinality(kept) + 1 ELSE Cardinality(kept)
      /\ IsFiniteSet(kept) /\ kept \subseteq others /\ Cardinality(kept) < CacheSlots
  <2>1. CASE full
    <3>1. /\ Head(queue) \in DOMAIN cache_map /\ Tail(queue) \in Seq(Keys) /\ Injective(Tail(queue))
          /\ Elements(Tail(queue)) = DOMAIN cache_map \ {Head(queue)}
          /\ Len(Tail(queue)) = Len(queue) - 1
      BY <1>2, <1>5, <2>1, TailProps
    <3>2. kept = DOMAIN cache_map \ {Head(queue)} /\ q = Tail(queue) /\ k \notin Elements(q)
      BY <1>5, <2>1, <3>1
    <3>3. IsFiniteSet(kept) /\ Cardinality(kept) = Cardinality(DOMAIN cache_map) - 1
      BY <1>2, <3>1, <3>2, FS_RemoveElement
    <3> HIDE DEF kept, q, full
    <3>4. Elements(q) \ {k} = kept
      BY <3>1, <3>2
    <3>5. kept \subseteq others
      BY <1>5, <2>1, <3>2
    <3>6. Len(q) = Cardinality(kept) /\ Len(q) \in Nat /\ Cardinality(kept) < CacheSlots
      BY <1>2, <1>3, <1>4, <3>1, <3>2, <3>3
    <3> QED BY <3>1, <3>2, <3>3, <3>4, <3>5, <3>6
  <2>2. CASE ~full
    <3>1. kept = others /\ q = queue
      BY <2>2
    <3>2. Cardinality(others) < CacheSlots
      BY <1>2, <1>3, <1>4, <2>2
    <3> HIDE DEF kept, q, full
    <3> QED BY <1>2, <1>3, <3>1, <3>2
  <2> QED BY <2>1, <2>2
<1>7. /\ out \in Seq(Keys)
      /\ \A u \in DOMAIN cache_map \ (kept \cup {k}) : cache_map[u] => u \in Elements(out)
      /\ Elements(out) \subseteq DOMAIN cache_map
  <2>1. CASE full
    <3>1. Head(queue) \in DOMAIN cache_map
      BY <1>2, <1>5, <2>1, TailProps
    <3>2. out = IF cache_map[Head(queue)] THEN <<Head(queue)>> ELSE << >>
      BY <2>1 DEF Evicted
    <3>3. out \in Seq(Keys)
      <4>1. Head(queue) \in Keys
        BY <1>2, <3>1
      <4>2. out \in {<<Head(queue)>>, << >>}
        BY <3>2
      <4>3. <<Head(queue)>> \in Seq(Keys)
        <5>1. \A h \in Keys : <<h>> \in Seq(Keys)
          OBVIOUS
        <5> QED BY <4>1, <5>1, Zenon
      <4>4. << >> \in Seq(Keys)
        OBVIOUS
      <4> HIDE DEF out
      <4> QED BY <4>2, <4>3, <4>4, Zenon
    <3>4. ASSUME NEW u \in DOMAIN cache_map \ (kept \cup {k}), cache_map[u]
          PROVE  u \in Elements(out)
      <4>1. u = Head(queue)
        BY <2>1, <3>4
      <4>2. out = <<u>>
        BY <3>2, <3>4, <4>1
      <4> HIDE DEF out
      <4> QED BY <4>2 DEF Elements
    <3>5. Elements(out) \subseteq DOMAIN cache_map
      <4>1. out = << >> \/ out = <<Head(queue)>>
        BY <3>2
      <4> HIDE DEF out
      <4> QED BY <3>1, <4>1 DEF Elements
    <3> QED BY <3>3, <3>4, <3>5
  <2>2. CASE ~full
    BY <2>2 DEF Elements
  <2> QED BY <2>1, <2>2
<1> HIDE DEF kept, q, out, full
<1>8. /\ queue' \in Seq(Keys) /\ Injective(queue') /\ Elements(queue') = kept \cup {k}
      /\ Len(queue') = Cardinality(kept) + 1
  <2>1. /\ queue' \in Seq(Keys) /\ Injective(queue') /\ Elements(queue') = Elements(q) \cup {k}
        /\ Len(queue') = IF k \in Elements(q) THEN Len(q) ELSE Len(q) + 1
    BY <1>1, <1>6, HitProps
  <2>2. Elements(queue') = kept \cup {k}
    BY <1>6, <2>1
  <2>3. Cardinality(kept) \in Nat
    BY <1>6, FS_CardinalityType
  <2>4. Len(queue') = Cardinality(kept) + 1
    BY <1>6, <2>1, <2>3
  <2> QED BY <2>1, <2>2, <2>4
<1>9. DOMAIN cache_map' = kept \cup {k} /\ k \notin kept
  BY <1>1, <1>6
<1>10. /\ IsFiniteSet(kept \cup {k}) /\ Cardinality(kept \cup {k}) = Cardinality(kept) + 1
       /\ Cardinality(kept) \in Nat
  BY <1>6, <1>9, FS_AddElement, FS_CardinalityType
<1>11. CacheConsistent'
  BY <1>4, <1>6, <1>8, <1>9, <1>10 DEF CacheConsistent, Elements
<1>12. \A u \in DOMAIN cache_map' : IF u = k THEN cache_map'[u] = dirty
                                   ELSE u \in DOMAIN cache_map /\ cache_map'[u] = cache_map[u]
  BY <1>1, <1>6, <1>9
<1>13. DOMAIN cache_map' \subseteq Keys /\ cache_map' \in [DOMAIN cache_map' -> BOOLEAN]
  BY <1>1, <1>2, <1>6, <1>9
<1>14. /\ write_queue' \in Seq(Keys) /\ Elements(write_queue') = Elements(write_queue) \cup Elements(out)
  BY <1>1, <1>2, <1>7, ConcatElements
<1> QED BY <1>7, <1>8, <1>9, <1>10, <1>11, <1>12, <1>13, <1>14

-----------------------------------------------------------------------------
\* An empty cache is consistent.
LEMMA EmptyCache ==
    ASSUME cache_map = << >>, queue = << >>
    PROVE  /\ Injective(queue) /\ IsFiniteSet(DOMAIN cache_map) /\ CacheConsistent
           /\ CleanPagesStored
           /\ DOMAIN cache_map \subseteq Keys /\ cache_map \in [DOMAIN cache_map -> BOOLEAN]
<1>1. DOMAIN cache_map = {} /\ Len(queue) = 0 /\ DOMAIN queue = {}
  OBVIOUS
<1>2. IsFiniteSet({}) /\ Cardinality({}) = 0
  BY FS_EmptySet
<1>3. Elements(queue) = {}
  BY <1>1 DEF Elements
<1>4. CacheConsistent
  BY <1>1, <1>2, <1>3, PageStoreAssumption DEF CacheConsistent
<1>5. cache_map \in [DOMAIN cache_map -> BOOLEAN]
  BY <1>1
<1> QED BY <1>1, <1>2, <1>4, <1>5 DEF Injective, CleanPagesStored

\* The provider starts in a state that satisfies the invariant.
LEMMA InitInv == Init => Inv
<1> SUFFICES ASSUME Init PROVE Inv
  OBVIOUS
<1>1. /\ Injective(queue) /\ IsFiniteSet(DOMAIN cache_map) /\ CacheConsistent /\ CleanPagesStored
      /\ DOMAIN cache_map \subseteq Keys /\ cache_map \in [DOMAIN cache_map -> BOOLEAN]
  BY EmptyCache DEF Init
<1>2. TypeOK
  BY <1>1, PageStoreAssumption DEF Init, TypeOK
<1> QED BY <1>1, <1>2 DEF Inv

\* Every handler and every step of the writer thread preserves it.
LEMMA NextInv == Inv /\ [Next]_vars => Inv'
<1> SUFFICES ASSUME Inv, [Next]_vars PROVE Inv'
  OBVIOUS
<1> USE PageStoreAssumption
<1>1. ASSUME NEW k \in Keys, write_page(k) PROVE Inv'
  <2>1. CacheWrite(k, TRUE)
    BY <1>1 DEF write_page
  <2>2. /\ queue' \in Seq(Keys) /\ Injective(queue') /\ write_queue' \in Seq(Keys)
        /\ IsFiniteSet(DOMAIN cache_map') /\ DOMAIN cache_map' \subseteq Keys
        /\ cache_map' \in [DOMAIN cache_map' -> BOOLEAN] /\ CacheConsistent'
        /\ \A u \in DOMAIN cache_map' : IF u = k THEN cache_map'[u] = TRUE
                                       ELSE u \in DOMAIN cache_map /\ cache_map'[u] = cache_map[u]
    BY <2>1, CacheWriteInv
  <2>3. CleanPagesStored'
    BY <1>1, <2>2 DEF Inv, CleanPagesStored, write_page
  <2>4. TypeOK'
    BY <1>1, <2>2 DEF Inv, TypeOK, write_page
  <2> QED BY <2>2, <2>3, <2>4 DEF Inv
<1>2. ASSUME NEW k \in Keys, read_hit(k) PROVE Inv'
  <2>1. /\ queue \in Seq(Keys) /\ Injective(queue) /\ k \in Elements(queue)
        /\ Elements(queue) = DOMAIN cache_map
    BY <1>2 DEF Inv, TypeOK, CacheConsistent, read_hit
  <2>2. /\ queue' \in Seq(Keys) /\ Injective(queue') /\ Elements(queue') = Elements(queue)
        /\ Len(queue') = Len(queue)
    <3>1. queue' = Hit(queue, k)
      BY <1>2 DEF read_hit
    <3>2. /\ Hit(queue, k) \in Seq(Keys) /\ Injective(Hit(queue, k))
          /\ Elements(Hit(queue, k)) = Elements(queue) \cup {k}
          /\ Len(Hit(queue, k)) = Len(queue)
      BY <2>1, HitProps
    <3> QED BY <2>1, <3>1, <3>2
  <2>3. cache_map' = cache_map /\ db' = db
    BY <1>2 DEF read_hit
  <2>4. CacheConsistent'
    BY <2>2, <2>3 DEF Inv, CacheConsistent, Elements
  <2>5. CleanPagesStored' /\ IsFiniteSet(DOMAIN cache_map')
    BY <2>3 DEF Inv, CleanPagesStored
  <2>6. TypeOK'
    BY <1>2, <2>2 DEF Inv, TypeOK, read_hit
  <2> QED BY <2>2, <2>4, <2>5, <2>6 DEF Inv
<1>3. ASSUME NEW k \in Keys, read_miss(k) PROVE Inv'
  <2>1. CacheWrite(k, FALSE) /\ k \in db
    BY <1>3 DEF read_miss
  <2>2. /\ queue' \in Seq(Keys) /\ Injective(queue') /\ write_queue' \in Seq(Keys)
        /\ IsFiniteSet(DOMAIN cache_map') /\ DOMAIN cache_map' \subseteq Keys
        /\ cache_map' \in [DOMAIN cache_map' -> BOOLEAN] /\ CacheConsistent'
        /\ \A u \in DOMAIN cache_map' : IF u = k THEN cache_map'[u] = FALSE
                                       ELSE u \in DOMAIN cache_map /\ cache_map'[u] = cache_map[u]
    BY <2>1, CacheWriteInv
  <2>3. CleanPagesStored'
    BY <1>3, <2>1, <2>2 DEF Inv, CleanPagesStored, read_miss
  <2>4. TypeOK'
    BY <1>3, <2>2 DEF Inv, TypeOK, read_miss
  <2> QED BY <2>2, <2>3, <2>4 DEF Inv
<1>4. CASE write_exec_take
  <2>1. Head(write_queue) \in Keys /\ Tail(write_queue) \in Seq(Keys)
    BY <1>4 DEF Inv, TypeOK, write_exec_take
  <2>2. entry' \in Seq(Keys) /\ Len(entry') <= 1
    BY <1>4, <2>1 DEF write_exec_take
  <2>3. TypeOK'
    BY <1>4, <2>1, <2>2 DEF Inv, TypeOK, write_exec_take
  <2> QED BY <1>4, <2>3 DEF Inv, write_exec_take, CacheConsistent, CleanPagesStored
<1>5. CASE write_exec_put
  <2>1. Elements(entry) \subseteq Keys
    BY DEF Inv, TypeOK, Elements
  <2>2. TypeOK'
    BY <1>5, <2>1 DEF Inv, TypeOK, write_exec_put
  <2> QED BY <1>5, <2>2 DEF Inv, write_exec_put, CacheConsistent, CleanPagesStored
<1>6. CASE write_exec_fails
  <2>1. TypeOK'
    BY <1>6 DEF Inv, TypeOK, write_exec_fails
  <2> QED BY <1>6, <2>1 DEF Inv, write_exec_fails, CacheConsistent, CleanPagesStored
<1>7. CASE restart
  <2>1. cache_map' = << >> /\ queue' = << >>
    BY <1>7 DEF restart
  <2>2. (cache_map = << >> /\ queue = << >>
            => /\ Injective(queue) /\ IsFiniteSet(DOMAIN cache_map) /\ CacheConsistent
               /\ CleanPagesStored
               /\ DOMAIN cache_map \subseteq Keys /\ cache_map \in [DOMAIN cache_map -> BOOLEAN])'
    BY EmptyCache, PTL
  <2>3. Elements(entry) \subseteq Keys
    BY DEF Inv, TypeOK, Elements
  <2>4. TypeOK'
    BY <1>7, <2>1, <2>2, <2>3 DEF Inv, TypeOK, restart
  <2> QED BY <2>1, <2>2, <2>4 DEF Inv
<1>8. CASE UNCHANGED vars
  BY <1>8 DEF Inv, vars, TypeOK, CacheConsistent, CleanPagesStored, Injective, Elements
<1> QED BY <1>1, <1>2, <1>3, <1>4, <1>5, <1>6, <1>7, <1>8 DEF Next

\* For every cache size the LRU queue and the cache agree, so cache_mt::write
\* always finds a victim, and a page it drops without writing is in the
\* database, restarts and failed database writes included.
THEOREM CacheAlwaysConsistent == Spec => [](TypeOK /\ CacheConsistent /\ CleanPagesStored)
<1>1. Inv => TypeOK /\ CacheConsistent /\ CleanPagesStored
  BY DEF Inv
<1> QED BY InitInv, NextInv, <1>1, PTL DEF Spec

\* No step of a provider that is not restarted, and whose database accepts
\* what it is given, loses an acknowledged page.
LEMMA NextKept ==
    ASSUME Inv, PagesKept, [Next]_vars
    PROVE  PagesKept'
<1> SUFFICES ASSUME faults' = 0 PROVE Kept'
  BY DEF PagesKept
<1>0. faults = 0
  <2>1. faults \in Nat
    BY PageStoreAssumption DEF Inv, TypeOK
  <2>2. faults' = faults \/ faults' = faults + 1
    BY DEF Next, vars, write_page, read_hit, read_miss, write_exec_take, write_exec_put,
           write_exec_fails, restart
  <2> QED BY <2>1, <2>2
<1> DEFINE Held == DOMAIN cache_map \cup Elements(write_queue) \cup Elements(entry) \cup db
<1>1. acked \subseteq Held
  BY <1>0 DEF PagesKept, Kept
<1>2. ASSUME NEW k \in Keys, NEW dirty \in BOOLEAN, CacheWrite(k, dirty), db' = db, entry' = entry,
             acked' \subseteq acked \cup {k}
      PROVE  Kept'
  <2>1. /\ k \in DOMAIN cache_map'
        /\ \A u \in DOMAIN cache_map \ DOMAIN cache_map' :
              cache_map[u] => u \in Elements(write_queue')
        /\ Elements(write_queue) \subseteq Elements(write_queue')
    BY <1>2, CacheWriteInv
  <2>2. Elements(entry') = Elements(entry)
    BY <1>2
  <2>3. ASSUME NEW u \in DOMAIN cache_map
        PROVE  u \in DOMAIN cache_map' \cup Elements(write_queue') \cup db
    BY <2>1 DEF Inv, CleanPagesStored
  <2>4. SUFFICES ASSUME NEW u \in acked'
                 PROVE  u \in DOMAIN cache_map' \cup Elements(write_queue') \cup Elements(entry') \cup db'
    BY DEF Kept, Elements
  <2> QED BY <1>1, <1>2, <2>1, <2>2, <2>3
<1>3. ASSUME NEW k \in Keys, write_page(k) PROVE Kept'
  BY <1>2, <1>3 DEF write_page
<1>4. ASSUME NEW k \in Keys, read_miss(k) PROVE Kept'
  BY <1>2, <1>4 DEF read_miss
<1>5. ASSUME NEW k \in Keys, read_hit(k) PROVE Kept'
  BY <1>1, <1>5 DEF read_hit, Kept, Elements
<1>6. CASE write_exec_take
  <2>1. write_queue \in Seq(Keys) /\ write_queue # << >> /\ entry = << >>
    BY <1>6 DEF Inv, TypeOK, write_exec_take
  <2>2. Elements(write_queue) \subseteq Elements(Tail(write_queue)) \cup {Head(write_queue)}
    <3>1. SUFFICES ASSUME NEW i \in DOMAIN write_queue
                   PROVE  write_queue[i] \in Elements(Tail(write_queue)) \cup {Head(write_queue)}
      BY DEF Elements
    <3>2. CASE i = 1
      BY <2>1, <3>2
    <3>3. CASE i # 1
      <4>1. i - 1 \in DOMAIN Tail(write_queue) /\ Tail(write_queue)[i - 1] = write_queue[i]
        BY <2>1, <3>3
      <4> QED BY <4>1 DEF Elements
    <3> QED BY <3>2, <3>3
  <2>3. Elements(entry) = {} /\ Elements(<<Head(write_queue)>>) = {Head(write_queue)}
    BY <2>1 DEF Elements
  <2>4. /\ entry' = <<Head(write_queue)>> /\ write_queue' = Tail(write_queue)
        /\ cache_map' = cache_map /\ db' = db /\ acked' = acked
    BY <1>6 DEF write_exec_take
  <2>5. Kept' <=> acked' \subseteq DOMAIN cache_map' \cup Elements(write_queue') \cup Elements(entry') \cup db'
    BY DEF Kept, Elements
  <2> QED BY <1>1, <2>2, <2>3, <2>4, <2>5
<1>7. CASE write_exec_put
  <2>1. /\ entry' = << >> /\ write_queue' = write_queue /\ db' = db \cup Elements(entry)
        /\ cache_map' = cache_map /\ acked' = acked
    BY <1>7 DEF write_exec_put
  <2>2. Kept' <=> acked' \subseteq DOMAIN cache_map' \cup Elements(write_queue') \cup Elements(entry') \cup db'
    BY DEF Kept, Elements
  <2> QED BY <1>1, <2>1, <2>2
<1>8. ~write_exec_fails /\ ~restart
  BY <1>0 DEF write_exec_fails, restart
<1>9. CASE UNCHANGED vars
  BY <1>1, <1>9 DEF vars, Kept, Elements
<1> QED BY <1>3, <1>4, <1>5, <1>6, <1>7, <1>8, <1>9 DEF Next

\* As long as the provider is not restarted and its database accepts what it
\* is given, an acknowledged page is in the cache, on its way to the database
\* or there, however far the writer thread lags behind the evictions.
THEOREM AcknowledgedPagesKept == Spec => []PagesKept
<1>1. Init => PagesKept
  BY DEF Init, PagesKept, Kept
<1>2. Inv /\ PagesKept /\ [Next]_vars => PagesKept'
  BY NextKept
<1> QED BY InitInv, NextInv, <1>1, <1>2, PTL DEF Spec

\* For every cache size the LRU queue lists exactly the cached pages and never
\* outgrows the slots: evictEntry always names a page that cache_mt::write can
\* evict.
THEOREM LruQueueConsistent == Spec => []CacheConsistent
<1>1. Inv => CacheConsistent
  BY DEF Inv
<1> QED BY InitInv, NextInv, <1>1, PTL DEF Spec

-----------------------------------------------------------------------------
(* The space a provider reports.  It is charged page by page as the pages   *)
(* come in; the argument is that no other step, least of all one of the     *)
(* writer thread, brings in a page that was not held before.                *)

PagesHeld == DOMAIN cache_map \cup Elements(write_queue) \cup Elements(entry) \cup db

\* The pages held are counted against the space only if they are finitely
\* many, which they are because each came with a write.
SpaceInv == faults = 0 => IsFiniteSet(PagesHeld) /\ SpaceHonest

\* cache_mt::write holds no more than the page it is given and those held.
LEMMA CacheWriteHolds ==
    ASSUME Inv, NEW k \in Keys, NEW dirty \in BOOLEAN, CacheWrite(k, dirty), UNCHANGED <<entry, db>>
    PROVE  PagesHeld' \subseteq PagesHeld \cup {k}
<1>1. /\ DOMAIN cache_map' \subseteq DOMAIN cache_map \cup {k}
      /\ Elements(write_queue') \subseteq Elements(write_queue) \cup DOMAIN cache_map
  BY CacheWriteInv
<1>2. PagesHeld' = DOMAIN cache_map' \cup Elements(write_queue') \cup Elements(entry') \cup db'
  BY DEF PagesHeld, Elements
<1>3. Elements(entry') = Elements(entry) /\ db' = db
  OBVIOUS
<1> QED BY <1>1, <1>2, <1>3 DEF PagesHeld

\* Only write_page adds to the pages held, and it adds the page it charges.
LEMMA HeldStep ==
    ASSUME Inv, [Next]_vars, faults' = 0
    PROVE  /\ faults = 0
           /\ \/ space_left' = space_left /\ PagesHeld' \subseteq PagesHeld
              \/ /\ space_left' = space_left - 1
                 /\ \E k \in Keys : PagesHeld' \subseteq PagesHeld \cup {k}
<1>0. faults = 0
  <2>1. faults \in Nat
    BY PageStoreAssumption DEF Inv, TypeOK
  <2>2. faults' = faults \/ faults' = faults + 1
    BY DEF Next, vars, write_page, read_hit, read_miss, write_exec_take, write_exec_put,
           write_exec_fails, restart
  <2> QED BY <2>1, <2>2
<1> DEFINE Goal == \/ space_left' = space_left /\ PagesHeld' \subseteq PagesHeld
                   \/ /\ space_left' = space_left - 1
                      /\ \E k \in Keys : PagesHeld' \subseteq PagesHeld \cup {k}
<1>d. PagesHeld' = DOMAIN cache_map' \cup Elements(write_queue') \cup Elements(entry') \cup db'
  BY DEF PagesHeld, Elements
<1>1. ASSUME NEW k \in Keys, write_page(k) PROVE Goal
  <2>1. PagesHeld' \subseteq PagesHeld \cup {k}
    BY <1>1, CacheWriteHolds DEF write_page
  <2>2. space_left' = space_left - 1
    BY <1>1 DEF write_page
  <2> QED BY <2>1, <2>2
<1>2. ASSUME NEW k \in Keys, read_miss(k) PROVE Goal
  <2>1. PagesHeld' \subseteq PagesHeld \cup {k}
    BY <1>2, CacheWriteHolds DEF read_miss
  <2>2. k \in PagesHeld /\ space_left' = space_left
    BY <1>2 DEF read_miss, PagesHeld
  <2> QED BY <2>1, <2>2
<1>3. ASSUME NEW k \in Keys, read_hit(k) PROVE Goal
  BY <1>3, <1>d DEF read_hit, PagesHeld
<1>4. CASE write_exec_take
  <2>1. /\ entry' = <<Head(write_queue)>> /\ write_queue' = Tail(write_queue)
        /\ cache_map' = cache_map /\ db' = db /\ space_left' = space_left
        /\ write_queue \in Seq(Keys) /\ write_queue # << >>
    BY <1>4 DEF write_exec_take, Inv, TypeOK
  <2>2. /\ Elements(<<Head(write_queue)>>) = {Head(write_queue)}
        /\ Head(write_queue) \in Elements(write_queue)
    BY <2>1 DEF Elements
  <2>3. Elements(Tail(write_queue)) \subseteq Elements(write_queue)
    <3>1. ASSUME NEW i \in DOMAIN Tail(write_queue)
          PROVE  Tail(write_queue)[i] \in Elements(write_queue)
      <4>1. i + 1 \in DOMAIN write_queue /\ Tail(write_queue)[i] = write_queue[i + 1]
        BY <2>1
      <4> QED BY <4>1 DEF Elements
    <3> QED BY <3>1 DEF Elements
  <2>4. PagesHeld' \subseteq PagesHeld
    BY <1>d, <2>1, <2>2, <2>3 DEF PagesHeld
  <2> QED BY <1>0, <2>1, <2>4
<1>5. CASE write_exec_put
  <2>1. /\ entry' = << >> /\ write_queue' = write_queue /\ db' = db \cup Elements(entry)
        /\ cache_map' = cache_map /\ space_left' = space_left
    BY <1>5 DEF write_exec_put
  <2>2. Elements(<< >>) = {}
    BY DEF Elements
  <2>3. PagesHeld' \subseteq PagesHeld
    BY <1>d, <2>1, <2>2 DEF PagesHeld
  <2> QED BY <1>0, <2>1, <2>3
<1>6. ~write_exec_fails /\ ~restart
  BY <1>0 DEF write_exec_fails, restart
<1>7. CASE UNCHANGED vars
  BY <1>0, <1>7, <1>d DEF vars, PagesHeld
<1> QED BY <1>0, <1>1, <1>2, <1>3, <1>4, <1>5, <1>6, <1>7 DEF Next

\* Every step keeps pages and space together within provider.space.
LEMMA NextSpace ==
    ASSUME Inv, SpaceInv, [Next]_vars
    PROVE  SpaceInv'
<1> SUFFICES ASSUME faults' = 0 PROVE IsFiniteSet(PagesHeld)' /\ SpaceHonest'
  BY DEF SpaceInv
<1>1. /\ faults = 0
      /\ \/ space_left' = space_left /\ PagesHeld' \subseteq PagesHeld
         \/ /\ space_left' = space_left - 1
            /\ \E k \in Keys : PagesHeld' \subseteq PagesHeld \cup {k}
  BY HeldStep
<1>2. /\ IsFiniteSet(PagesHeld) /\ Cardinality(PagesHeld) \in Nat
      /\ Cardinality(PagesHeld) + space_left <= TotalSpace
  BY <1>1, FS_CardinalityType DEF SpaceInv, SpaceHonest, PagesHeld
<1>3. space_left \in Int /\ TotalSpace \in Nat
  BY PageStoreAssumption DEF Inv, TypeOK
<1>4. IsFiniteSet(PagesHeld') /\ Cardinality(PagesHeld') + space_left' <= TotalSpace
  <2>1. CASE space_left' = space_left /\ PagesHeld' \subseteq PagesHeld
    <3>1. IsFiniteSet(PagesHeld') /\ Cardinality(PagesHeld') <= Cardinality(PagesHeld)
      BY <1>2, <2>1, FS_Subset
    <3>2. Cardinality(PagesHeld') \in Nat
      BY <3>1, FS_CardinalityType
    <3> QED BY <1>2, <1>3, <2>1, <3>1, <3>2
  <2>2. ASSUME space_left' = space_left - 1, NEW k \in Keys, PagesHeld' \subseteq PagesHeld \cup {k}
        PROVE  IsFiniteSet(PagesHeld') /\ Cardinality(PagesHeld') + space_left' <= TotalSpace
    <3> DEFINE more == PagesHeld \cup {k}
    <3>1. /\ IsFiniteSet(more) /\ Cardinality(more) \in Nat
          /\ Cardinality(more) <= Cardinality(PagesHeld) + 1
      <4>1. IsFiniteSet(more) /\ Cardinality(more) = IF k \in PagesHeld THEN Cardinality(PagesHeld)
                                                     ELSE Cardinality(PagesHeld) + 1
        BY <1>2, FS_AddElement
      <4> HIDE DEF more
      <4> QED BY <1>2, <4>1
    <3>2. IsFiniteSet(PagesHeld') /\ Cardinality(PagesHeld') <= Cardinality(more)
      BY <2>2, <3>1, FS_Subset
    <3>3. Cardinality(PagesHeld') \in Nat
      BY <3>2, FS_CardinalityType
    <3> HIDE DEF more
    <3> QED BY <1>2, <1>3, <2>2, <3>1, <3>2, <3>3
  <2> QED BY <1>1, <2>1, <2>2
<1>5. SpaceHonest'
  BY <1>4 DEF SpaceHonest, PagesHeld, Elements
<1> QED BY <1>4, <1>5

\* For every cache size and however the writer thread lags, a provider that
\* was not restarted never holds more pages than the space it has stopped
\* offering: what get_free reports is room it really has.
THEOREM SpaceAlwaysHonest == Spec => []SpaceHonest
<1>1. Init => SpaceInv
  <2> SUFFICES ASSUME Init PROVE IsFiniteSet(PagesHeld) /\ SpaceHonest
    BY DEF SpaceInv
  <2>1. Elements(<< >>) = {}
    BY DEF Elements
  <2>2. PagesHeld = {}
    BY <2>1 DEF Init, PagesHeld
  <2>3. IsFiniteSet({}) /\ Cardinality({}) = 0
    BY FS_EmptySet
  <2>4. space_left = TotalSpace /\ TotalSpace \in Nat
    BY PageStoreAssumption DEF Init
  <2>5. IsFiniteSet(PagesHeld) /\ Cardinality(PagesHeld) = 0
    BY <2>2, <2>3
  <2>6. Cardinality(PagesHeld) + space_left <= TotalSpace
    BY <2>4, <2>5
  <2>7. SpaceHonest
    BY <2>6 DEF SpaceHonest, PagesHeld
  <2> QED BY <2>5, <2>7
<1>2. Inv /\ SpaceInv /\ [Next]_vars => SpaceInv'
  BY NextSpace
<1>3. SpaceInv => SpaceHonest
  BY DEF SpaceInv, SpaceHonest
<1> QED BY InitInv, NextInv, <1>1, <1>2, <1>3, PTL DEF Spec

-----------------------------------------------------------------------------
(* The listener. *)

ListenerType ==
    /\ space_left \in Nat
    /\ free_space \in Nat
    /\ updates \in Seq(Nat)
    /\ armed \in BOOLEAN
    /\ expired \in Nat

\* A write reaches zero only once, from a store with space left, so only one
\* report can be added to the one under way: with the types this makes
\* ReportingAlive inductive.
ReportingInv == ListenerType /\ ReportingAlive

\* A function on 1..n is a sequence of length n.
LEMMA FunctionIsSequence ==
    ASSUME NEW S, NEW n \in Nat, NEW f \in [1..n -> S]
    PROVE  f \in Seq(S) /\ Len(f) = n
<1>1. f \in Seq(S)
  BY ONLY n \in Nat, f \in [1..n -> S], SMTT(30)
<1>2. Len(f) = n
  BY ONLY n \in Nat, f \in [1..n -> S], SMTT(30)
<1> QED BY <1>1, <1>2

\* The end of a report (rpc_client's callback) takes exactly one away.
LEMMA EndedShorter ==
    ASSUME updates \in Seq(Nat), NEW i \in DOMAIN updates
    PROVE  /\ Ended(i) \in Seq(Nat)
           /\ Len(updates) \in Nat \ {0}
           /\ Len(Ended(i)) = Len(updates) - 1
<1>1. Len(updates) \in Nat \ {0} /\ DOMAIN updates = 1..Len(updates)
  OBVIOUS
<1>2. \A j \in 1..(Len(updates) - 1) : updates[j] \in Nat /\ updates[j + 1] \in Nat
  BY <1>1
<1>3. Ended(i) \in [1..(Len(updates) - 1) -> Nat]
  BY <1>1, <1>2 DEF Ended
<1>4. Len(updates) - 1 \in Nat
  BY <1>1
<1>5. Ended(i) \in Seq(Nat) /\ Len(Ended(i)) = Len(updates) - 1
  BY <1>3, <1>4, FunctionIsSequence
<1> QED
  BY <1>1, <1>5

\* timeout_callback adds exactly one report.
LEMMA ReportedLonger ==
    ASSUME updates \in Seq(Nat), NEW s \in Nat
    PROVE  Reported(s) \in Seq(Nat) /\ Len(Reported(s)) = Len(updates) + 1 /\ Len(updates) \in Nat
BY DEF Reported

\* The new listener of a provider that starts has one report under way.
LEMMA ReportingInit == ASSUME ProviderInit PROVE ReportingInv
<1>1. TotalSpace \in Nat
  BY PageStoreAssumption
<1>2. <<TotalSpace>> \in Seq(Nat) /\ Len(<<TotalSpace>>) = 1
  BY <1>1
<1>3. ListenerType
  BY <1>1, <1>2 DEF ProviderInit, Init, ListenerType
<1>4. Chains = 1
  BY <1>2 DEF ProviderInit, Chains
<1>5. ReportingAlive
  BY <1>1, <1>4 DEF ReportingAlive
<1> QED
  BY <1>3, <1>5 DEF ReportingInv

\* No step of the provider ends the reporting or adds a second extra report.
LEMMA ReportingStep ==
    ASSUME ReportingInv, [ProviderNext]_providerVars
    PROVE  ReportingInv'
<1> USE DEF ReportingInv
<1>0. Len(updates) \in Nat
  BY DEF ListenerType
<1>1. ASSUME NEW k \in Keys, WritePage(k) PROVE ReportingInv'
  <2>1. /\ space_left >= 1
        /\ space_left' = space_left - 1
        /\ free_space' = space_left'
        /\ armed' = armed
        /\ expired' = expired
    BY <1>1 DEF WritePage, write_page, FreeInHook
  <2>2. Chains = 1
    BY <2>1 DEF ReportingAlive, ListenerType
  <2>3. CASE free_space' = 0
    <3>1. updates' = Reported(0)
      BY <1>1, <2>3 DEF WritePage, AtZero
    <3>2. updates' \in Seq(Nat) /\ Len(updates') = Len(updates) + 1
      BY <3>1, ReportedLonger DEF ListenerType
    <3>3. Chains' = 2
      BY <1>0, <2>1, <2>2, <3>2 DEF Chains, ListenerType
    <3> QED
      BY <2>1, <2>3, <3>2, <3>3 DEF ListenerType, ReportingAlive
  <2>4. CASE free_space' # 0
    <3>1. updates' = updates
      BY <1>1, <2>4 DEF WritePage, AtZero
    <3>2. Chains' = 1
      BY <2>1, <2>2, <3>1 DEF Chains
    <3> QED
      BY <2>1, <2>4, <3>1, <3>2 DEF ListenerType, ReportingAlive
  <2> QED
    BY <2>3, <2>4
<1>2. CASE StoreStep
  <2>1. space_left' = space_left
    BY <1>2 DEF StoreStep, read_hit, read_miss, write_exec_take, write_exec_put, write_exec_fails
  <2>2. UNCHANGED <<free_space, updates, armed, expired>>
    BY <1>2 DEF StoreStep, listenerVars
  <2>3. Chains' = Chains
    BY <2>2 DEF Chains
  <2>4. ListenerType'
    BY <2>1, <2>2 DEF ListenerType
  <2>5. ReportingAlive'
    BY <2>1, <2>3 DEF ReportingAlive
  <2> QED
    BY <2>4, <2>5
<1>3. CASE TimerExpires
  <2>1. /\ armed /\ armed' = FALSE
        /\ expired' = expired + 1
        /\ UNCHANGED <<space_left, free_space, updates>>
    BY <1>3 DEF TimerExpires, vars
  <2>2. Chains' = Chains
    BY <1>0, <2>1 DEF Chains, ListenerType
  <2>3. armed' \in BOOLEAN
    BY <2>1, Zenon
  <2>4. ListenerType'
    BY <2>1, <2>3, SMT DEF ListenerType
  <2>5. ReportingAlive'
    BY <2>1, <2>2 DEF ReportingAlive
  <2> QED
    BY <2>4, <2>5
<1>4. CASE TimeoutCallback
  <2>1. /\ expired > 0 /\ expired' = expired - 1
        /\ updates' = Reported(free_space)
        /\ UNCHANGED <<space_left, free_space, armed>>
    BY <1>4 DEF TimeoutCallback, vars
  <2>2. updates' \in Seq(Nat) /\ Len(updates') = Len(updates) + 1
    BY <2>1, ReportedLonger DEF ListenerType
  <2>3. Chains' = Chains
    BY <1>0, <2>1, <2>2 DEF Chains, ListenerType
  <2> QED
    BY <2>1, <2>2, <2>3 DEF ListenerType, ReportingAlive
<1>5. ASSUME NEW i \in DOMAIN updates, UpdateReceived(i) \/ UpdateFails(i) PROVE ReportingInv'
  <2>1. /\ updates' = Ended(i)
        /\ armed' = TRUE
        /\ UNCHANGED <<space_left, free_space, expired>>
    BY <1>5 DEF UpdateReceived, UpdateFails, Rearmed, vars
  <2>2. /\ updates' \in Seq(Nat) /\ Len(updates') = Len(updates) - 1
        /\ Len(updates) >= 1
    BY <2>1, EndedShorter DEF ListenerType
  <2>3. Chains' \in 1..Chains
    BY <1>0, <2>1, <2>2 DEF Chains, ListenerType
  <2>4. Chains \in Nat
    BY <1>0 DEF Chains, ListenerType
  <2>5. ListenerType'
    BY <2>1, <2>2 DEF ListenerType
  <2>6. ReportingAlive'
    BY <2>1, <2>3, <2>4 DEF ReportingAlive
  <2> QED
    BY <2>5, <2>6
<1>6. ASSUME NEW r \in late, LateReceived(r) PROVE ReportingInv'
  BY <1>6 DEF LateReceived, vars, ListenerType, ReportingAlive, Chains
<1>7. CASE Restart
  <2>1. TotalSpace \in Nat
    BY PageStoreAssumption
  <2>2. /\ updates' = <<TotalSpace>> /\ armed' = FALSE /\ expired' = 0
        /\ space_left' = TotalSpace /\ free_space' = TotalSpace
    BY <1>7 DEF Restart, restart
  <2>3. updates' \in Seq(Nat) /\ Len(updates') = 1
    BY <2>1, <2>2
  <2>4. Chains' = 1
    BY <2>2, <2>3 DEF Chains
  <2>5. armed' \in BOOLEAN
    BY <2>2, Zenon
  <2>6. ListenerType'
    BY <2>1, <2>2, <2>3, <2>5, SMT DEF ListenerType
  <2>7. ReportingAlive'
    BY <2>1, <2>2, <2>4 DEF ReportingAlive
  <2> QED
    BY <2>6, <2>7
<1>8. CASE UNCHANGED providerVars
  BY <1>8 DEF providerVars, vars, listenerVars, ListenerType, ReportingAlive, Chains
<1> QED
  BY <1>1, <1>2, <1>3, <1>4, <1>5, <1>6, <1>7, <1>8 DEF ProviderNext

\* In every behaviour of a provider, a report is under way or a timer will
\* send one, whichever reports fail and whenever the store becomes full
\* (timeout_callback, provider_callback, update_event).
THEOREM ProviderKeepsReporting == ProviderSpec => []ReportingAlive
<1>1. ProviderInit => ReportingInv
  BY ReportingInit
<1>2. ReportingInv /\ [ProviderNext]_providerVars => ReportingInv'
  BY ReportingStep
<1>3. ReportingInv => ReportingAlive
  BY DEF ReportingInv
<1> QED
  BY <1>1, <1>2, <1>3, PTL DEF ProviderSpec

-----------------------------------------------------------------------------
(* The store does not notice its listener: a step of the provider is a step *)
(* of the store or leaves it alone, so what is proved of a store on its own *)
(* holds of the store of a provider.                                        *)

\* Every step of the provider, the hook of a write and a restart included, is
\* a step of its page store or does not touch it.
LEMMA ProviderStepIsStoreStep == [ProviderNext]_providerVars => [Next]_vars
<1> SUFFICES ASSUME [ProviderNext]_providerVars PROVE [Next]_vars
  OBVIOUS
<1>1. ASSUME NEW k \in Keys, WritePage(k) PROVE Next
  BY <1>1 DEF WritePage, Next
<1>2. StoreStep => Next
  BY DEF StoreStep, Next
<1>3. Restart => Next
  BY DEF Restart, Next
<1>4. TimerExpires \/ TimeoutCallback => UNCHANGED vars
  BY DEF TimerExpires, TimeoutCallback
<1>5. ASSUME NEW i \in DOMAIN updates, UpdateReceived(i) \/ UpdateFails(i) PROVE UNCHANGED vars
  BY <1>5 DEF UpdateReceived, UpdateFails
<1>6. ASSUME NEW r \in late, LateReceived(r) PROVE UNCHANGED vars
  BY <1>6 DEF LateReceived
<1>7. UNCHANGED providerVars => UNCHANGED vars
  BY DEF providerVars
<1> QED BY <1>1, <1>2, <1>3, <1>4, <1>5, <1>6, <1>7 DEF ProviderNext

\* A provider implements its page store: seen without the listener, every
\* behaviour of page_manager with its hook is one of page_manager alone.
THEOREM ProviderImplementsStore == ProviderSpec => Spec
<1>1. ProviderInit => Init
  BY DEF ProviderInit
<1> QED BY <1>1, ProviderStepIsStoreStep, PTL DEF ProviderSpec, Spec

\* So a provider that reports to its manager, is restarted and loses reports
\* keeps its cache consistent, its clean pages stored, its acknowledged pages
\* and its space honest, for every number of keys, slots, faults and losses.
THEOREM ProviderKeepsStoreSafe ==
    ProviderSpec => [](CacheConsistent /\ CleanPagesStored /\ PagesKept /\ SpaceHonest)
BY ProviderImplementsStore, CacheAlwaysConsistent, AcknowledgedPagesKept, SpaceAlwaysHonest, PTL
=============================================================================
