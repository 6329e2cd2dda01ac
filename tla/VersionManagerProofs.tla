------------------------ MODULE VersionManagerProofs ------------------------
(***************************************************************************)
(* What holds of the version manager for every number of blobs and         *)
(* tickets, every page size, offset and size, and every word width.        *)
(***************************************************************************)
EXTENDS VersionManager, SequenceTheorems, TLAPS

-----------------------------------------------------------------------------
(* Arithmetic. *)

\* Quotient and remainder.
LEMMA DivMod ==
    ASSUME NEW x \in Nat, NEW d \in Nat \ {0}
    PROVE  /\ x \div d \in Nat /\ x % d \in 0..(d - 1)
           /\ x = (x \div d) * d + (x % d)
OBVIOUS

\* An earlier multiple of d is at least d below a later one.
LEMMA Below ==
    ASSUME NEW j \in Int, NEW m \in Int, NEW d \in Nat, j < m
    PROVE  j * d + d <= m * d /\ j * d \in Int /\ m * d \in Int
<1>1. PICK k \in Nat : m = j + 1 + k
  <2>1. m - j - 1 \in Nat /\ m = j + 1 + (m - j - 1)
     OBVIOUS
  <2> QED BY <2>1
<1>2. m * d = j * d + d + k * d /\ k * d \in Nat /\ j * d \in Int
  BY <1>1
<1> QED BY <1>2

\* Quotient and remainder are determined by what they add up to.
LEMMA DivModUnique ==
    ASSUME NEW x \in Nat, NEW d \in Nat \ {0}, NEW q \in Int, NEW r \in 0..(d - 1), x = q * d + r
    PROVE  x \div d = q /\ x % d = r
<1> DEFINE p == x \div d
           s == x % d
<1>1. p \in Nat /\ s \in 0..(d - 1) /\ x = p * d + s
  BY DivMod
<1> HIDE DEF p, s
<1>2. CASE p < q
  BY <1>1, <1>2, Below
<1>3. CASE q < p
  BY <1>1, <1>3, Below
<1>4. CASE p = q
  <2>1. p * d \in Int BY <1>1
  <2> QED BY <1>1, <1>4, <2>1 DEF p, s
<1> QED BY <1>1, <1>2, <1>3, <1>4

-----------------------------------------------------------------------------
\* What an operation needs of the blob it works on, and keeps.
ObjOK(id, o) == IsObjInfo(o) /\ Consecutive(id, o)

\* Doubling a word gives a word (max_size <<= 1 in get_ticket).
LEMMA DoubledType ==
    ASSUME NEW m \in Nat, NEW k \in 0..Width
    PROVE  Doubled(m, k) \in Nat
<1>1. 2^k \in Nat /\ Word \in Nat \ {0}
  BY WidthAssumption DEF Word
<1>2. m * 2^k \in Nat
  BY <1>1
<1> QED
  BY <1>1, <1>2 DEF Doubled

\* create's obj_info constructor.
LEMMA NewObjOK ==
    ASSUME NEW id \in Nat, NEW ps \in PageSizes
    PROVE  ObjOK(id, NewObj(id, ps))
<1> DEFINE r == [id |-> id, version |-> 0, size |-> 0, current_size |-> 0, page_size |-> ps]
<1>1. r \in root_t
  BY RequestAssumption DEF root_t
<1>2. <<r>> \in Seq(root_t) /\ Len(<<r>>) = 1
  BY <1>1
<1>3. NewObj(id, ps).intervals = << >> /\ DOMAIN << >> = {}
  BY DEF NewObj
<1> QED
  BY <1>2, <1>3, BoundAssumption, RequestAssumption DEF ObjOK, IsObjInfo, Consecutive, NewObj

\* clone's obj_info constructor.
LEMMA CloneObjOK ==
    ASSUME NEW id \in Nat, NEW root \in root_t
    PROVE  ObjOK(id, CloneObj(root))
<1>1. <<root>> \in Seq(root_t) /\ Len(<<root>>) = 1
  OBVIOUS
<1>2. root.size \in Nat /\ root.current_size \in Nat
  BY DEF root_t
<1>3. CloneObj(root).intervals = << >> /\ DOMAIN << >> = {}
  BY DEF CloneObj
<1> QED
  BY <1>1, <1>2, <1>3, BoundAssumption DEF ObjOK, IsObjInfo, Consecutive, CloneObj

\* get_root always answers a root of the blob.
LEMMA GetRootType ==
    ASSUME NEW o, IsObjInfo(o), NEW version \in Nat
    PROVE  GetRoot(o, version) \in root_t /\ LatestRoot(o) \in root_t
BY DEF IsObjInfo, GetRoot, LatestRoot

\* The answer of get_root is one of the blob's published roots.
LEMMA GetRootPublished ==
    ASSUME NEW o, IsObjInfo(o), NEW version \in Nat
    PROVE  \E k \in 1..Len(o.roots) : GetRoot(o, version) = o.roots[k]
<1>1. Len(o.roots) \in 1..Len(o.roots)
  BY DEF IsObjInfo
<1>2. CASE version = 0 \/ version >= Len(o.roots)
  BY <1>1, <1>2 DEF GetRoot, LatestRoot
<1>3. CASE ~(version = 0 \/ version >= Len(o.roots))
  <2>1. version + 1 \in 1..Len(o.roots)
    BY <1>1, <1>3
  <2> QED
    BY <1>3, <2>1 DEF GetRoot
<1> QED
  BY <1>2, <1>3

\* get_ticket keeps the versions consecutive.
LEMMA TicketedOK ==
    ASSUME NEW id \in Nat, NEW o, ObjOK(id, o), o.current_ticket <= MaxTickets,
           NEW off \in Nat, NEW size \in Nat, NEW m \in Nat
    PROVE  ObjOK(id, Ticketed(o, id, off, size, m))
<1> DEFINE v == o.current_ticket
           stable == LatestRoot(o)
           longer == off + size > stable.current_size
           r == [id |-> id, version |-> v, size |-> m, page_size |-> stable.page_size,
                 current_size |-> IF longer THEN off + size ELSE stable.current_size]
           e == [offset |-> off, size |-> size, done |-> FALSE, root |-> r]
           n == Ticketed(o, id, off, size, m)
<1>1. stable \in root_t /\ v \in Nat
  BY BoundAssumption DEF ObjOK, IsObjInfo, LatestRoot
<1>2. r \in root_t /\ r.id = id /\ r.version = v
  BY <1>1 DEF root_t
<1>3. e \in interval_t /\ e.root = r
  BY <1>2 DEF interval_t
<1>4. /\ n.roots = o.roots
      /\ n.max_size = m
      /\ n.current_ticket = v + 1
      /\ n.progress_size = IF longer THEN off + size ELSE o.progress_size
      /\ n.intervals = [u \in DOMAIN o.intervals \cup {v} |-> IF u = v THEN e ELSE o.intervals[u]]
      /\ n = [roots |-> n.roots, intervals |-> n.intervals, current_ticket |-> n.current_ticket,
              max_size |-> n.max_size, progress_size |-> n.progress_size]
  BY DEF Ticketed
<1> HIDE DEF r, e, n, longer, stable
<1>5. IsObjInfo(n)
  <2>1. n.progress_size \in Nat
    BY <1>4 DEF ObjOK, IsObjInfo
  <2>2. DOMAIN n.intervals = DOMAIN o.intervals \cup {v}
    BY <1>4
  <2>3. n.intervals \in [DOMAIN n.intervals -> interval_t]
    BY <1>3, <1>4 DEF ObjOK, IsObjInfo
  <2>4. DOMAIN n.intervals \subseteq 1..MaxTickets /\ n.current_ticket \in 1..(MaxTickets + 1)
    BY <1>4, <2>2, BoundAssumption DEF ObjOK, IsObjInfo
  <2> QED
    BY <1>4, <2>1, <2>3, <2>4 DEF ObjOK, IsObjInfo
<1>6. Consecutive(id, n)
  <2>1. Len(o.roots) \in Nat \ {0} /\ Len(o.roots) <= v
    BY DEF ObjOK, IsObjInfo, Consecutive
  <2>2. DOMAIN n.intervals = Len(o.roots)..v
    BY <1>1, <1>4, <2>1 DEF ObjOK, Consecutive
  <2>3. \A u \in DOMAIN n.intervals : n.intervals[u].root.id = id /\ n.intervals[u].root.version = u
    BY <1>2, <1>3, <1>4 DEF ObjOK, Consecutive
  <2>4. ~n.intervals[Len(o.roots)].done
    <3>1. ~e.done
      BY DEF e
    <3>2. CASE Len(o.roots) = v
      BY <1>4, <2>2, <3>1, <3>2, <2>1
    <3>3. CASE Len(o.roots) < v
      BY <1>1, <1>4, <2>1, <2>2, <3>3 DEF ObjOK, Consecutive
    <3> QED
      BY <1>1, <2>1, <3>2, <3>3
  <2>5. Len(n.roots) <= n.current_ticket /\ DOMAIN n.intervals = Len(n.roots)..(n.current_ticket - 1)
    BY <1>1, <1>4, <2>1, <2>2
  <2>6. \A k \in 2..Len(n.roots) : n.roots[k].id = id /\ n.roots[k].version = k - 1
    BY <1>4 DEF ObjOK, Consecutive
  <2> QED
    BY <1>4, <2>3, <2>4, <2>5, <2>6 DEF Consecutive
<1> QED
  BY <1>5, <1>6 DEF ObjOK, n

\* The intervals publish drains start at version Len(roots), and what it
\* leaves behind starts at next.
LEMMA DrainedShape ==
    ASSUME NEW id \in Nat, NEW o, ObjOK(id, o), NEW v \in DOMAIN o.intervals,
           NEW next \in 1..o.current_ticket, DrainStops(o, v, next)
    PROVE  LET n == Drained(o, v, next)
               len == Len(o.roots)
           IN  /\ len \in Nat \ {0} /\ next \in len..o.current_ticket
               /\ o.current_ticket \in Nat
               /\ n.roots \in Seq(root_t)
               /\ Len(n.roots) = next
               /\ \A k \in 1..len : n.roots[k] = o.roots[k]
               /\ \A k \in (len + 1)..next : n.roots[k] = o.intervals[k - 1].root
               /\ n.intervals = [u \in next..(o.current_ticket - 1) |->
                                    [offset |-> o.intervals[u].offset, size |-> o.intervals[u].size,
                                     root |-> o.intervals[u].root, done |-> Completed(o, v, u)]]
               /\ n.current_ticket = o.current_ticket
               /\ n.max_size = o.max_size
               /\ n.progress_size = o.progress_size
               /\ n = [roots |-> n.roots, intervals |-> n.intervals, current_ticket |-> n.current_ticket,
                       max_size |-> n.max_size, progress_size |-> n.progress_size]
<1> DEFINE n == Drained(o, v, next)
           len == Len(o.roots)
           D == DOMAIN o.intervals
           first == FirstInterval(o)
           moved == [k \in 1..(next - first) |-> o.intervals[first + k - 1].root]
<1>1. len \in Nat \ {0} /\ o.current_ticket \in Nat /\ D = len..(o.current_ticket - 1)
  BY BoundAssumption DEF ObjOK, IsObjInfo, Consecutive
<1>2. first = len
  <2>1. len \in D /\ \A w \in D : len <= w
    BY <1>1
  <2>2. \A u \in D : (\A w \in D : u <= w) => u = len
    BY <1>1, <2>1
  <2> QED
    BY <2>1, <2>2 DEF FirstInterval
<1>3. next \in len..o.current_ticket
  BY <1>1 DEF DrainStops
<1>4. /\ n.roots = o.roots \o moved
      /\ n.intervals = [u \in {w \in D : w >= next} |->
                            [offset |-> o.intervals[u].offset, size |-> o.intervals[u].size,
                             root |-> o.intervals[u].root, done |-> Completed(o, v, u)]]
      /\ n.current_ticket = o.current_ticket
      /\ n.max_size = o.max_size
      /\ n.progress_size = o.progress_size
      /\ n = [roots |-> n.roots, intervals |-> n.intervals, current_ticket |-> n.current_ticket,
              max_size |-> n.max_size, progress_size |-> n.progress_size]
  BY DEF Drained
<1>5. {w \in D : w >= next} = next..(o.current_ticket - 1)
  BY <1>1, <1>3
<1>6. moved = [k \in 1..(next - len) |-> o.intervals[len + k - 1].root]
  BY <1>2
<1> HIDE DEF n, moved, first
<1>7. moved \in Seq(root_t) /\ Len(moved) = next - len
  <2>1. \A k \in 1..(next - len) : len + k - 1 \in D
    BY <1>1, <1>3
  <2>2. \A k \in 1..(next - len) : o.intervals[len + k - 1].root \in root_t
    BY <2>1 DEF ObjOK, IsObjInfo, interval_t
  <2>3. next - len \in Nat
    BY <1>1, <1>3
  <2> QED
    BY <1>6, <2>2, <2>3
<1>8. o.roots \in Seq(root_t)
  BY DEF ObjOK, IsObjInfo
<1>9. n.roots \in Seq(root_t) /\ Len(n.roots) = next
  <2>1. n.roots \in Seq(root_t) /\ Len(n.roots) = len + (next - len)
    BY <1>4, <1>7, <1>8, ConcatProperties
  <2> QED
    BY <1>1, <1>3, <2>1
<1>10. \A k \in 1..len : n.roots[k] = o.roots[k]
  BY <1>1, <1>4, <1>7, <1>8
<1>11. ASSUME NEW k \in (len + 1)..next
       PROVE  n.roots[k] = o.intervals[k - 1].root
  <2>1. k - len \in 1..(next - len) /\ k \in Nat /\ len + (k - len) - 1 = k - 1
    BY <1>1, <1>3
  <2>2. k \in 1..(Len(o.roots) + Len(moved)) /\ k > Len(o.roots)
    BY <1>1, <1>3, <1>7
  <2>3. n.roots[k] = moved[k - len]
    BY <1>4, <1>7, <1>8, <2>2, ConcatProperties
  <2> QED
    BY <1>6, <2>1, <2>3
<1> QED
  BY <1>1, <1>3, <1>4, <1>5, <1>9, <1>10, <1>11 DEF n

\* publish extends the published roots up to version next - 1.
LEMMA DrainedRoots ==
    ASSUME NEW id \in Nat, NEW o, ObjOK(id, o), NEW v \in DOMAIN o.intervals,
           NEW next \in 1..o.current_ticket, DrainStops(o, v, next)
    PROVE  /\ next \in Len(o.roots)..o.current_ticket /\ o.current_ticket \in Nat
           /\ Len(Drained(o, v, next).roots) = next
           /\ \A k \in 1..Len(o.roots) : Drained(o, v, next).roots[k] = o.roots[k]
<1> DEFINE n == Drained(o, v, next)
           len == Len(o.roots)
<1>1. /\ len \in Nat \ {0} /\ next \in len..o.current_ticket
      /\ o.current_ticket \in Nat
      /\ Len(n.roots) = next
      /\ \A k \in 1..len : n.roots[k] = o.roots[k]
      /\ \A k \in (len + 1)..next : n.roots[k] = o.intervals[k - 1].root
      /\ n.intervals = [u \in next..(o.current_ticket - 1) |->
                           [offset |-> o.intervals[u].offset, size |-> o.intervals[u].size,
                            root |-> o.intervals[u].root, done |-> Completed(o, v, u)]]
      /\ n.max_size = o.max_size
  BY DrainedShape
<1> QED
  BY <1>1

\* publish keeps the versions consecutive.
LEMMA DrainedOK ==
    ASSUME NEW id \in Nat, NEW o, ObjOK(id, o), NEW v \in DOMAIN o.intervals,
           NEW next \in 1..o.current_ticket, DrainStops(o, v, next)
    PROVE  ObjOK(id, Drained(o, v, next))
<1> DEFINE n == Drained(o, v, next)
           len == Len(o.roots)
           moved(u) == [offset |-> o.intervals[u].offset, size |-> o.intervals[u].size,
                        root |-> o.intervals[u].root, done |-> Completed(o, v, u)]
<1>1. /\ len \in Nat \ {0} /\ next \in len..o.current_ticket
      /\ o.current_ticket \in Nat
      /\ n.roots \in Seq(root_t)
      /\ Len(n.roots) = next
      /\ \A k \in 1..len : n.roots[k] = o.roots[k]
      /\ \A k \in (len + 1)..next : n.roots[k] = o.intervals[k - 1].root
      /\ n.intervals = [u \in next..(o.current_ticket - 1) |-> moved(u)]
      /\ n.current_ticket = o.current_ticket
      /\ n.max_size = o.max_size
      /\ n.progress_size = o.progress_size
      /\ n = [roots |-> n.roots, intervals |-> n.intervals, current_ticket |-> n.current_ticket,
              max_size |-> n.max_size, progress_size |-> n.progress_size]
  BY DrainedShape
<1>2. DOMAIN o.intervals = len..(o.current_ticket - 1) /\ DOMAIN o.intervals \subseteq 1..MaxTickets
  BY DEF ObjOK, IsObjInfo, Consecutive
<1> HIDE DEF n
<1>3. next..(o.current_ticket - 1) \subseteq DOMAIN o.intervals
  BY <1>1, <1>2
<1>4. \A u \in DOMAIN o.intervals : o.intervals[u] \in interval_t
  BY DEF ObjOK, IsObjInfo
<1>5. \A u \in DOMAIN o.intervals : moved(u) \in interval_t
  BY <1>4 DEF interval_t, Completed
<1>6. IsObjInfo(n)
  <2>1. n.intervals \in [DOMAIN n.intervals -> interval_t] /\ DOMAIN n.intervals \subseteq 1..MaxTickets
    BY <1>1, <1>2, <1>3, <1>5
  <2> QED
    BY <1>1, <2>1 DEF ObjOK, IsObjInfo
<1>7. Consecutive(id, n)
  <2>1. DOMAIN n.intervals = Len(n.roots)..(n.current_ticket - 1) /\ Len(n.roots) <= n.current_ticket
    BY <1>1
  <2>2. ASSUME NEW k \in 2..Len(n.roots)
        PROVE  n.roots[k].id = id /\ n.roots[k].version = k - 1
    <3>1. CASE k \in 1..len
      <4>1. n.roots[k] = o.roots[k] /\ k \in 2..Len(o.roots)
        BY <1>1, <3>1
      <4> QED
        BY <4>1 DEF ObjOK, Consecutive
    <3>2. CASE k \in (len + 1)..next
      <4>1. k - 1 \in DOMAIN o.intervals
        BY <1>1, <1>2, <3>2
      <4> QED
        BY <1>1, <3>2, <4>1 DEF ObjOK, Consecutive
    <3> QED
      BY <1>1, <3>1, <3>2
  <2>3. \A u \in DOMAIN n.intervals : n.intervals[u].root.id = id /\ n.intervals[u].root.version = u
    BY <1>1, <1>3 DEF ObjOK, Consecutive
  <2>4. ASSUME Len(n.roots) < n.current_ticket
        PROVE  ~n.intervals[Len(n.roots)].done
    <3>1. next \in next..(o.current_ticket - 1) /\ next # o.current_ticket
      BY <1>1, <2>4
    <3>2. ~Completed(o, v, next)
      BY <3>1 DEF DrainStops
    <3>3. n.intervals[next].done = Completed(o, v, next)
      BY <1>1, <3>1
    <3> QED
      BY <1>1, <3>2, <3>3
  <2> QED
    BY <2>1, <2>2, <2>3, <2>4 DEF Consecutive
<1> QED
  BY <1>6, <1>7 DEF ObjOK, n
-----------------------------------------------------------------------------
(* What a step does to one blob. *)

Created(id) == \E ps \in PageSizes : obj_hash'[id] = NewObj(id, ps)

Cloned(id) == \E source \in Blobs, version \in Nat :
                  obj_hash'[id] = CloneObj(GetRoot(obj_hash[source], version))

GotTicket(id) ==
    LET o == obj_hash[id]
    IN  \E offset \in Offsets, size \in Sizes, append \in Appends, k \in 0..Width :
            LET off == TicketOffset(o, offset, append)
            IN  /\ o.current_ticket <= MaxTickets
                /\ LoopExits(o.max_size, off + size, k)
                /\ obj_hash'[id] = Ticketed(o, id, off, size, Doubled(o.max_size, k))

Published(id) ==
    LET o == obj_hash[id]
    IN  \E v \in DOMAIN o.intervals, next \in 1..o.current_ticket :
            /\ DrainStops(o, v, next)
            /\ obj_hash'[id] = Drained(o, v, next)

\* A step adds at most one blob, and leaves every other blob alone or gives
\* out one of its tickets or publishes in it.
PerBlob ==
    /\ obj_count \in Nat /\ obj_count' \in 0..MaxBlobs /\ obj_count <= obj_count'
    /\ DOMAIN obj_hash' = Blobs'
    /\ spinning' \in BOOLEAN
    /\ \A id \in Blobs : obj_hash'[id] = obj_hash[id] \/ GotTicket(id) \/ Published(id)
    /\ \A id \in Blobs' \ Blobs : Created(id) \/ Cloned(id)

\* Every handler of the version manager is of that form.
LEMMA StepShape ==
    ASSUME TypeOK, [Next]_vars
    PROVE  PerBlob
<1> USE BoundAssumption, WidthAssumption
<1>1. ASSUME NEW ps \in PageSizes, create(ps)
      PROVE  PerBlob
  BY <1>1 DEF create, AddBlob, TypeOK, Blobs, PerBlob, Created
<1>2. ASSUME NEW id \in Blobs, NEW version \in 0..MaxTickets, clone(id, version)
      PROVE  PerBlob
  BY <1>2 DEF clone, AddBlob, TypeOK, Blobs, PerBlob, Cloned
<1>3. ASSUME NEW id \in Blobs, NEW offset \in Offsets, NEW size \in Sizes, NEW append \in Appends,
             get_ticket(id, offset, size, append)
      PROVE  PerBlob
  BY <1>3 DEF get_ticket, TicketRequest, TypeOK, Blobs, PerBlob, GotTicket
<1>4. ASSUME NEW id \in Blobs, NEW offset \in Offsets, NEW size \in Sizes, NEW append \in Appends,
             get_ticket_spins(id, offset, size, append)
      PROVE  PerBlob
  BY <1>4 DEF get_ticket_spins, TypeOK, Blobs, PerBlob
<1>5. ASSUME NEW id \in Blobs, NEW version \in 1..MaxTickets, publish(id, version)
      PROVE  PerBlob
  BY <1>5 DEF publish, TypeOK, Blobs, PerBlob, Published
<1>6. ASSUME UNCHANGED vars
      PROVE  PerBlob
  BY <1>6 DEF vars, TypeOK, Blobs, PerBlob
<1> QED
  BY <1>1, <1>2, <1>3, <1>4, <1>5, <1>6 DEF Next

-----------------------------------------------------------------------------
Inv == TypeOK /\ VersionsConsecutive

\* Initially there is no blob.
LEMMA InitInv == Init => Inv
<1> SUFFICES ASSUME Init PROVE Inv
  OBVIOUS
<1>1. Blobs = {} /\ DOMAIN obj_hash = {}
  BY DEF Init, Blobs
<1>2. obj_count \in 0..MaxBlobs
  BY BoundAssumption DEF Init
<1>3. spinning \in BOOLEAN
  BY DEF Init
<1> QED
  BY <1>1, <1>2, <1>3 DEF Inv, TypeOK, VersionsConsecutive

\* The blobs a step leaves behind are well formed, and their versions
\* consecutive, if those it finds are.
LEMMA NextInv == Inv /\ [Next]_vars => Inv'
<1> SUFFICES ASSUME Inv, [Next]_vars PROVE Inv'
  OBVIOUS
<1>1. PerBlob
  BY StepShape DEF Inv
<1>2. \A id \in Blobs : ObjOK(id, obj_hash[id]) /\ id \in Nat
  BY <1>1 DEF Inv, TypeOK, VersionsConsecutive, ObjOK, Blobs, PerBlob
<1>3. ASSUME NEW id \in Blobs PROVE ObjOK(id, obj_hash'[id])
  <2>1. CASE obj_hash'[id] = obj_hash[id]
    BY <1>2, <2>1
  <2>2. CASE GotTicket(id)
    <3> DEFINE o == obj_hash[id]
    <3>1. PICK offset \in Offsets, size \in Sizes, append \in Appends, k \in 0..Width :
             /\ o.current_ticket <= MaxTickets
             /\ obj_hash'[id] = Ticketed(o, id, TicketOffset(o, offset, append), size, Doubled(o.max_size, k))
      BY <2>2 DEF GotTicket
    <3>2. TicketOffset(o, offset, append) \in Nat /\ size \in Nat /\ o.max_size \in Nat
      BY <1>2, RequestAssumption DEF TicketOffset, ObjOK, IsObjInfo
    <3>3. Doubled(o.max_size, k) \in Nat
      BY <3>2, DoubledType
    <3> QED
      BY <1>2, <3>1, <3>2, <3>3, TicketedOK
  <2>3. CASE Published(id)
    BY <1>2, <2>3, DrainedOK DEF Published
  <2> QED
    BY <1>1, <2>1, <2>2, <2>3 DEF PerBlob
<1>4. ASSUME NEW id \in Blobs' \ Blobs PROVE ObjOK(id, obj_hash'[id])
  <2>1. id \in Nat
    BY <1>1 DEF PerBlob, Blobs
  <2>2. CASE Created(id)
    BY <2>1, <2>2, NewObjOK DEF Created
  <2>3. CASE Cloned(id)
    <3>1. PICK source \in Blobs, version \in Nat :
             obj_hash'[id] = CloneObj(GetRoot(obj_hash[source], version))
      BY <2>3 DEF Cloned
    <3>2. GetRoot(obj_hash[source], version) \in root_t
      BY <1>2, GetRootType DEF ObjOK
    <3> QED
      BY <2>1, <3>1, <3>2, CloneObjOK
  <2> QED
    BY <1>1, <2>2, <2>3 DEF PerBlob
<1>5. \A id \in Blobs' : ObjOK(id, obj_hash'[id])
  BY <1>3, <1>4
<1> QED
  BY <1>1, <1>5 DEF Inv, TypeOK, VersionsConsecutive, ObjOK, PerBlob

\* Whatever the order in which writers take tickets and complete, every
\* variable keeps its type and the versions of a blob stay consecutive:
\* get_root(v) of a published v answers version v of that blob.
THEOREM VersionsAreConsecutive == Spec => [](TypeOK /\ VersionsConsecutive)
<1>1. Spec => []Inv
  BY InitInv, NextInv, PTL DEF Spec
<1> QED
  BY <1>1, PTL DEF Inv

-----------------------------------------------------------------------------
\* The growth loop only ever enlarges max_size, and far enough.
LEMMA GrowthEnough ==
    ASSUME NEW m \in Nat, NEW end \in Nat, NEW k \in 0..Width, LoopExits(m, end, k)
    PROVE  Doubled(m, k) >= end /\ Doubled(m, k) >= m
<1>1. Doubled(m, k) \in Nat /\ Doubled(m, k) >= end
  BY DoubledType DEF LoopExits
<1>2. CASE k = 0
  BY <1>1, <1>2 DEF Doubled
<1>3. CASE k # 0
  <2>1. 0 \in 0..(k - 1)
    BY <1>3, WidthAssumption
  <2>2. end > Doubled(m, 0) /\ Doubled(m, 0) = m
    BY <2>1 DEF LoopExits, Doubled
  <2> QED
    BY <1>1, <2>2
<1> QED
  BY <1>2, <1>3

\* get_ticket keeps every tree as large as its root says it is.
LEMMA TicketedFits ==
    ASSUME NEW id \in Nat, NEW o, ObjOK(id, o), Fits(o), NEW off \in Nat, NEW size \in Nat,
           NEW m \in Nat, m >= off + size, m >= o.max_size
    PROVE  Fits(Ticketed(o, id, off, size, m))
<1> DEFINE v == o.current_ticket
           stable == LatestRoot(o)
           r == [id |-> id, version |-> v, size |-> m, page_size |-> stable.page_size,
                 current_size |-> IF off + size > stable.current_size THEN off + size ELSE stable.current_size]
           e == [offset |-> off, size |-> size, done |-> FALSE, root |-> r]
           n == Ticketed(o, id, off, size, m)
<1>1. /\ n.roots = o.roots
      /\ n.max_size = m
      /\ n.intervals = [u \in DOMAIN o.intervals \cup {v} |-> IF u = v THEN e ELSE o.intervals[u]]
  BY DEF Ticketed
<1>2. /\ o.max_size \in Nat /\ Len(o.roots) \in Nat \ {0}
      /\ \A k \in 1..Len(o.roots) : o.roots[k] \in root_t
      /\ \A u \in DOMAIN o.intervals : o.intervals[u] \in interval_t
  BY DEF ObjOK, IsObjInfo
<1>3. stable \in root_t /\ stable.current_size <= o.max_size
  <2>1. Len(o.roots) \in 1..Len(o.roots)
    BY <1>2
  <2>2. stable \in root_t
    BY <1>2, <2>1 DEF LatestRoot
  <2>3. stable.current_size <= stable.size /\ stable.size <= o.max_size
    BY <2>1 DEF LatestRoot, Fits
  <2>4. stable.current_size \in Nat /\ stable.size \in Nat
    BY <2>2 DEF root_t
  <2> QED
    BY <1>2, <2>2, <2>3, <2>4
<1>4. /\ e.offset + e.size <= e.root.current_size
      /\ e.root.current_size <= e.root.size
      /\ e.root.size <= m
  BY <1>2, <1>3 DEF root_t
<1> HIDE DEF e, n
<1>5. \A k \in 1..Len(n.roots) :
         n.roots[k].current_size <= n.roots[k].size /\ n.roots[k].size <= n.max_size
  BY <1>1, <1>2 DEF Fits, root_t
<1>6. ASSUME NEW u \in DOMAIN n.intervals
      PROVE  LET x == n.intervals[u]
             IN  /\ x.offset + x.size <= x.root.current_size
                 /\ x.root.current_size <= x.root.size
                 /\ x.root.size <= n.max_size
  <2>1. CASE u = v
    BY <1>1, <1>4, <2>1
  <2>2. CASE u \in DOMAIN o.intervals /\ u # v
    BY <1>1, <1>2, <2>2 DEF Fits, interval_t, root_t
  <2> QED
    BY <1>1, <2>1, <2>2
<1> QED
  BY <1>5, <1>6 DEF Fits, n

\* publish moves roots that fit.
LEMMA DrainedFits ==
    ASSUME NEW id \in Nat, NEW o, ObjOK(id, o), Fits(o), NEW v \in DOMAIN o.intervals,
           NEW next \in 1..o.current_ticket, DrainStops(o, v, next)
    PROVE  Fits(Drained(o, v, next))
<1> DEFINE n == Drained(o, v, next)
           len == Len(o.roots)
<1>1. /\ len \in Nat \ {0} /\ next \in len..o.current_ticket
      /\ o.current_ticket \in Nat
      /\ Len(n.roots) = next
      /\ \A k \in 1..len : n.roots[k] = o.roots[k]
      /\ \A k \in (len + 1)..next : n.roots[k] = o.intervals[k - 1].root
      /\ n.intervals = [u \in next..(o.current_ticket - 1) |->
                           [offset |-> o.intervals[u].offset, size |-> o.intervals[u].size,
                            root |-> o.intervals[u].root, done |-> Completed(o, v, u)]]
      /\ n.max_size = o.max_size
  BY DrainedShape
<1>2. DOMAIN o.intervals = len..(o.current_ticket - 1)
  BY DEF ObjOK, Consecutive
<1> HIDE DEF n
<1>3. ASSUME NEW k \in 1..Len(n.roots)
      PROVE  n.roots[k].current_size <= n.roots[k].size /\ n.roots[k].size <= n.max_size
  <2>1. CASE k \in 1..len
    BY <1>1, <2>1 DEF Fits
  <2>2. CASE k \in (len + 1)..next
    <3>1. k - 1 \in DOMAIN o.intervals
      BY <1>1, <1>2, <2>2
    <3> QED
      BY <1>1, <2>2, <3>1 DEF Fits
  <2> QED
    BY <1>1, <2>1, <2>2
<1>4. ASSUME NEW u \in DOMAIN n.intervals
      PROVE  LET x == n.intervals[u]
             IN  /\ x.offset + x.size <= x.root.current_size
                 /\ x.root.current_size <= x.root.size
                 /\ x.root.size <= n.max_size
  <2>1. u \in DOMAIN o.intervals
    BY <1>1, <1>2
  <2> QED
    BY <1>1, <2>1 DEF Fits
<1> QED
  BY <1>3, <1>4 DEF Fits, n

\* Every step keeps every tree as large as its root says it is.
LEMMA NextFits == Inv /\ RootsFit /\ [Next]_vars => RootsFit'
<1> SUFFICES ASSUME Inv, RootsFit, [Next]_vars PROVE RootsFit'
  OBVIOUS
<1>1. PerBlob
  BY StepShape DEF Inv
<1>2. \A id \in Blobs : ObjOK(id, obj_hash[id]) /\ Fits(obj_hash[id]) /\ id \in Nat
  BY <1>1 DEF Inv, TypeOK, VersionsConsecutive, RootsFit, ObjOK, Blobs, PerBlob
<1>3. ASSUME NEW id \in Blobs PROVE Fits(obj_hash'[id])
  <2>1. CASE obj_hash'[id] = obj_hash[id]
    BY <1>2, <2>1
  <2>2. CASE GotTicket(id)
    <3> DEFINE o == obj_hash[id]
    <3>1. PICK offset \in Offsets, size \in Sizes, append \in Appends, k \in 0..Width :
             /\ LoopExits(o.max_size, TicketOffset(o, offset, append) + size, k)
             /\ obj_hash'[id] = Ticketed(o, id, TicketOffset(o, offset, append), size, Doubled(o.max_size, k))
      BY <2>2 DEF GotTicket
    <3> DEFINE off == TicketOffset(o, offset, append)
               m == Doubled(o.max_size, k)
    <3>2. off \in Nat /\ size \in Nat /\ o.max_size \in Nat
      BY <1>2, RequestAssumption DEF TicketOffset, ObjOK, IsObjInfo
    <3>3. off + size \in Nat
      BY <3>2
    <3>4. m \in Nat
      BY <3>2, DoubledType
    <3>5. m >= off + size /\ m >= o.max_size
      BY <3>1, <3>2, <3>3, GrowthEnough
    <3> HIDE DEF off, m
    <3>6. Fits(Ticketed(o, id, off, size, m))
      BY <1>2, <3>2, <3>4, <3>5, TicketedFits
    <3> QED
      BY <3>1, <3>6 DEF off, m
  <2>3. CASE Published(id)
    BY <1>2, <2>3, DrainedFits DEF Published
  <2> QED
    BY <1>1, <2>1, <2>2, <2>3 DEF PerBlob
<1>4. ASSUME NEW id \in Blobs' \ Blobs PROVE Fits(obj_hash'[id])
  <2>1. CASE Created(id)
    BY <2>1, RequestAssumption DEF Created, NewObj, Fits
  <2>2. CASE Cloned(id)
    <3>1. PICK source \in Blobs, version \in Nat :
             obj_hash'[id] = CloneObj(GetRoot(obj_hash[source], version))
      BY <2>2 DEF Cloned
    <3> DEFINE o == obj_hash[source]
               r == GetRoot(o, version)
    <3>2. PICK k \in 1..Len(o.roots) : r = o.roots[k]
      BY <1>2, GetRootPublished DEF ObjOK
    <3>3. r \in root_t /\ r.current_size <= r.size
      BY <1>2, <3>2, GetRootType DEF Fits, ObjOK
    <3> HIDE DEF r
    <3> QED
      BY <3>1, <3>3 DEF CloneObj, Fits, root_t, r
  <2> QED
    BY <1>1, <2>1, <2>2 DEF PerBlob
<1> QED
  BY <1>3, <1>4 DEF RootsFit

\* Every published or in-flight root describes a tree large enough for the
\* blob's size and for its own write, under any workload.
THEOREM RootsAlwaysFit == Spec => []RootsFit
<1>1. Init => RootsFit
  BY DEF Init, RootsFit, Blobs
<1> QED
  BY <1>1, InitInv, NextInv, NextFits, PTL DEF Spec

-----------------------------------------------------------------------------
(* Appends.  Tiles fixes each range by its predecessor; that a later range *)
(* also lies beyond all earlier ones and beyond the published end does not *)
(* follow in one step from it, so the induction carries it along.          *)

InOrder(o) ==
    /\ \A v \in DOMAIN o.intervals :
          o.intervals[v].size > 0 /\ LatestRoot(o).current_size <= o.intervals[v].offset
    /\ \A u, v \in DOMAIN o.intervals : u < v => End(o, u) <= o.intervals[v].offset

TilesInv == \A id \in Blobs : Tiles(obj_hash[id]) /\ InOrder(obj_hash[id])

\* What the lemmas below need of the types.
LEMMA TileTypes ==
    ASSUME NEW id \in Nat, NEW o, ObjOK(id, o)
    PROVE  /\ Len(o.roots) \in Nat \ {0} /\ o.current_ticket \in Nat
           /\ Len(o.roots) <= o.current_ticket
           /\ DOMAIN o.intervals = Len(o.roots)..(o.current_ticket - 1)
           /\ LatestRoot(o) \in root_t /\ LatestRoot(o).current_size \in Nat
           /\ o.progress_size \in Nat
           /\ \A v \in DOMAIN o.intervals :
                 /\ o.intervals[v].offset \in Nat /\ o.intervals[v].size \in Nat
                 /\ o.intervals[v].root.current_size \in Nat
                 /\ End(o, v) \in Nat
<1>1. LatestRoot(o) \in root_t
  BY DEF ObjOK, IsObjInfo, LatestRoot
<1>2. \A v \in DOMAIN o.intervals : o.intervals[v] \in interval_t
  BY DEF ObjOK, IsObjInfo
<1>3. ASSUME NEW v \in DOMAIN o.intervals
      PROVE  /\ o.intervals[v].offset \in Nat /\ o.intervals[v].size \in Nat
             /\ o.intervals[v].root.current_size \in Nat
             /\ End(o, v) \in Nat
  BY <1>2 DEF interval_t, root_t, End
<1>4. LatestRoot(o).current_size \in Nat
  BY <1>1 DEF root_t
<1>5. /\ Len(o.roots) \in Nat \ {0} /\ o.current_ticket \in Nat
      /\ Len(o.roots) <= o.current_ticket
      /\ DOMAIN o.intervals = Len(o.roots)..(o.current_ticket - 1)
      /\ o.progress_size \in Nat
  BY BoundAssumption DEF ObjOK, IsObjInfo, Consecutive
<1> QED
  BY <1>1, <1>3, <1>4, <1>5

\* An append extends the tiling by one range.
LEMMA TicketedTiles ==
    ASSUME NEW id \in Nat, NEW o, ObjOK(id, o), Tiles(o), InOrder(o),
           NEW size \in Nat \ {0}, NEW m \in Nat
    PROVE  LET n == Ticketed(o, id, o.progress_size, size, m) IN Tiles(n) /\ InOrder(n)
<1> DEFINE v == o.current_ticket
           len == Len(o.roots)
           off == o.progress_size
           stable == LatestRoot(o)
           r == [id |-> id, version |-> v, size |-> m, page_size |-> stable.page_size,
                 current_size |-> IF off + size > stable.current_size THEN off + size ELSE stable.current_size]
           e == [offset |-> off, size |-> size, done |-> FALSE, root |-> r]
           n == Ticketed(o, id, off, size, m)
<1>1. /\ n.roots = o.roots
      /\ n.current_ticket = v + 1
      /\ n.progress_size = IF off + size > stable.current_size THEN off + size ELSE off
      /\ n.intervals = [u \in DOMAIN o.intervals \cup {v} |-> IF u = v THEN e ELSE o.intervals[u]]
  BY DEF Ticketed
<1>2. /\ len \in Nat \ {0} /\ v \in Nat /\ len <= v
      /\ DOMAIN o.intervals = len..(v - 1)
      /\ stable.current_size \in Nat /\ off \in Nat
      /\ \A u \in DOMAIN o.intervals :
            /\ o.intervals[u].offset \in Nat /\ o.intervals[u].size \in Nat
            /\ End(o, u) \in Nat
  BY TileTypes
<1>3. /\ e.offset = off /\ e.size = size
      /\ e.root.current_size = IF off + size > stable.current_size THEN off + size ELSE stable.current_size
  OBVIOUS
<1>4. DOMAIN n.intervals = len..v
  BY <1>1, <1>2
<1> HIDE DEF n, e, stable
<1>5. LatestRoot(n) = stable
  BY <1>1 DEF LatestRoot, stable
<1>6. /\ n.intervals[v] = e /\ End(n, v) = off + size
      /\ \A u \in len..(v - 1) : n.intervals[u] = o.intervals[u] /\ End(n, u) = End(o, u)
  BY <1>1, <1>2, <1>3, <1>4 DEF End
<1>7. stable.current_size <= off /\ \A u \in len..(v - 1) : End(o, u) <= off
  <2>1. CASE len = v
    BY <1>2, <2>1 DEF Tiles, stable
  <2>2. CASE len < v
    <3>1. v - 1 \in len..(v - 1) /\ off = End(o, v - 1)
      BY <1>2, <2>2 DEF Tiles
    <3>2. /\ stable.current_size <= o.intervals[v - 1].offset
          /\ o.intervals[v - 1].offset \in Nat /\ o.intervals[v - 1].offset <= off
      <4>1. stable.current_size <= o.intervals[v - 1].offset
        BY <1>2, <3>1 DEF InOrder, stable
      <4>2. o.intervals[v - 1].offset \in Nat /\ o.intervals[v - 1].size \in Nat
        BY <1>2, <3>1
      <4>3. off = o.intervals[v - 1].offset + o.intervals[v - 1].size
        BY <3>1 DEF End
      <4> QED
        BY <4>1, <4>2, <4>3
    <3>3. ASSUME NEW u \in len..(v - 1) PROVE End(o, u) <= off
      <4>1. CASE u = v - 1
        BY <1>2, <3>1, <4>1
      <4>2. CASE u < v - 1
        <5>1. End(o, u) <= o.intervals[v - 1].offset
          BY <1>2, <3>1, <4>2 DEF InOrder
        <5> QED
          BY <1>2, <3>2, <5>1
      <4> QED
        BY <1>2, <4>1, <4>2
    <3> QED
      BY <1>2, <3>2, <3>3
  <2> QED
    BY <1>2, <2>1, <2>2
<1>8. off + size > stable.current_size
  BY <1>2, <1>7
<1>9. Tiles(n)
  <2>1. ASSUME NEW u \in DOMAIN n.intervals
        PROVE  /\ n.intervals[u].offset = IF u = Len(n.roots) THEN LatestRoot(n).current_size ELSE End(n, u - 1)
               /\ n.intervals[u].root.current_size = End(n, u)
    <3>1. CASE u = v
      <4>1. n.intervals[u].root.current_size = End(n, u) /\ n.intervals[u].offset = off
        BY <1>3, <1>6, <1>8, <3>1
      <4>2. CASE len = v
        BY <1>1, <1>2, <1>5, <3>1, <4>1, <4>2 DEF Tiles, stable
      <4>3. CASE len < v
        <5>1. v - 1 \in len..(v - 1) /\ off = End(o, v - 1)
          BY <1>2, <4>3 DEF Tiles
        <5>2. End(n, v - 1) = End(o, v - 1)
          BY <1>6, <5>1
        <5>3. u # Len(n.roots)
          BY <1>1, <1>2, <3>1, <4>3
        <5> QED
          BY <3>1, <4>1, <5>1, <5>2, <5>3
      <4> QED
        BY <1>2, <4>2, <4>3
    <3>2. CASE u \in len..(v - 1)
      <4>1. u = len \/ u - 1 \in len..(v - 1)
        BY <1>2, <3>2
      <4> QED
        BY <1>1, <1>2, <1>5, <1>6, <3>2, <4>1 DEF Tiles, stable
    <3> QED
      BY <1>2, <1>4, <3>1, <3>2
  <2>2. n.progress_size = End(n, n.current_ticket - 1) /\ Len(n.roots) # n.current_ticket
    BY <1>1, <1>2, <1>6, <1>8
  <2> QED
    BY <2>1, <2>2 DEF Tiles
<1>10. InOrder(n)
  <2>1. ASSUME NEW u \in DOMAIN n.intervals
        PROVE  n.intervals[u].size > 0 /\ LatestRoot(n).current_size <= n.intervals[u].offset
    <3>1. CASE u = v
      BY <1>3, <1>5, <1>6, <1>7, <3>1
    <3>2. CASE u \in len..(v - 1)
      BY <1>2, <1>5, <1>6, <3>2 DEF InOrder, stable
    <3> QED
      BY <1>2, <1>4, <3>1, <3>2
  <2>2. ASSUME NEW u \in DOMAIN n.intervals, NEW w \in DOMAIN n.intervals, u < w
        PROVE  End(n, u) <= n.intervals[w].offset
    <3>1. u \in len..(v - 1)
      BY <1>2, <1>4, <2>2
    <3>2. CASE w = v
      BY <1>3, <1>6, <1>7, <3>1, <3>2
    <3>3. CASE w \in len..(v - 1)
      BY <1>2, <1>6, <2>2, <3>1, <3>3 DEF InOrder
    <3> QED
      BY <1>2, <1>4, <3>2, <3>3
  <2> QED
    BY <2>1, <2>2 DEF InOrder
<1> QED
  BY <1>9, <1>10 DEF n

\* Publishing cuts the tiling where the published part ends.
LEMMA DrainedTiles ==
    ASSUME NEW id \in Nat, NEW o, ObjOK(id, o), Tiles(o), InOrder(o),
           NEW v \in DOMAIN o.intervals, NEW next \in 1..o.current_ticket, DrainStops(o, v, next)
    PROVE  LET n == Drained(o, v, next) IN Tiles(n) /\ InOrder(n)
<1> DEFINE n == Drained(o, v, next)
           len == Len(o.roots)
           last == o.current_ticket - 1
<1>1. /\ len \in Nat \ {0} /\ next \in len..o.current_ticket
      /\ o.current_ticket \in Nat
      /\ Len(n.roots) = next
      /\ \A k \in 1..len : n.roots[k] = o.roots[k]
      /\ \A k \in (len + 1)..next : n.roots[k] = o.intervals[k - 1].root
      /\ n.intervals = [u \in next..last |->
                           [offset |-> o.intervals[u].offset, size |-> o.intervals[u].size,
                            root |-> o.intervals[u].root, done |-> Completed(o, v, u)]]
      /\ n.current_ticket = o.current_ticket
      /\ n.progress_size = o.progress_size
  BY DrainedShape
<1>2. /\ DOMAIN o.intervals = len..last
      /\ LatestRoot(o).current_size \in Nat
      /\ \A u \in DOMAIN o.intervals :
            o.intervals[u].offset \in Nat /\ o.intervals[u].size \in Nat /\ End(o, u) \in Nat
  BY TileTypes
<1> HIDE DEF n
<1>3. /\ DOMAIN n.intervals = next..last
      /\ \A u \in next..last : /\ u \in len..last
                               /\ n.intervals[u].offset = o.intervals[u].offset
                               /\ n.intervals[u].size = o.intervals[u].size
                               /\ n.intervals[u].root = o.intervals[u].root
  BY <1>1
<1>4. \A u \in next..last : End(n, u) = End(o, u)
  BY <1>3 DEF End
<1>5. CASE next = len
  <2>1. LatestRoot(n) = LatestRoot(o)
    BY <1>1, <1>5 DEF LatestRoot
  <2>2. Tiles(n)
    <3>1. ASSUME NEW u \in DOMAIN n.intervals
          PROVE  /\ n.intervals[u].offset = IF u = Len(n.roots) THEN LatestRoot(n).current_size ELSE End(n, u - 1)
                 /\ n.intervals[u].root.current_size = End(n, u)
      <4>1. u \in len..last /\ (u = len \/ u - 1 \in next..last)
        BY <1>1, <1>3, <1>5
      <4> QED
        BY <1>1, <1>2, <1>3, <1>4, <1>5, <2>1, <4>1 DEF Tiles
    <3>2. o.current_ticket = len \/ o.current_ticket - 1 \in next..last
      BY <1>1, <1>5
    <3>3. n.progress_size = IF Len(n.roots) = n.current_ticket THEN LatestRoot(n).current_size
                                                             ELSE End(n, n.current_ticket - 1)
      BY <1>1, <1>4, <1>5, <2>1, <3>2 DEF Tiles
    <3> QED
      BY <3>1, <3>3 DEF Tiles
  <2>3. InOrder(n)
    BY <1>2, <1>3, <1>4, <2>1 DEF InOrder
  <2> QED
    BY <2>2, <2>3 DEF n
<1>6. CASE next > len
  <2>1. next \in (len + 1)..next /\ next - 1 \in len..last /\ next \in Nat
    BY <1>1, <1>6
  <2>2. LatestRoot(n).current_size = End(o, next - 1)
    <3>1. LatestRoot(n) = o.intervals[next - 1].root
      BY <1>1, <2>1 DEF LatestRoot
    <3> QED
      BY <1>2, <2>1, <3>1 DEF Tiles
  <2>3. Tiles(n)
    <3>1. ASSUME NEW u \in DOMAIN n.intervals
          PROVE  /\ n.intervals[u].offset = IF u = Len(n.roots) THEN LatestRoot(n).current_size ELSE End(n, u - 1)
                 /\ n.intervals[u].root.current_size = End(n, u)
      <4>1. u \in len..last /\ u # len
        BY <1>1, <1>3, <1>6
      <4>2. o.intervals[u].offset = End(o, u - 1) /\ o.intervals[u].root.current_size = End(o, u)
        BY <1>2, <4>1 DEF Tiles
      <4>3. n.intervals[u].root.current_size = End(n, u) /\ n.intervals[u].offset = End(o, u - 1)
        BY <1>3, <1>4, <4>2
      <4>4. CASE u = next
        BY <1>1, <2>2, <4>3, <4>4
      <4>5. CASE u # next
        <5>1. u - 1 \in next..last
          BY <1>1, <1>3, <4>5
        <5> QED
          BY <1>1, <1>4, <4>3, <4>5, <5>1
      <4> QED
        BY <4>4, <4>5
    <3>2. n.progress_size = End(o, last)
      BY <1>1, <1>6 DEF Tiles
    <3>3. CASE next = o.current_ticket
      BY <1>1, <2>2, <3>1, <3>2, <3>3 DEF Tiles
    <3>4. CASE next # o.current_ticket
      <4>1. last \in next..last
        BY <1>1, <3>4
      <4> QED
        BY <1>1, <1>4, <3>1, <3>2, <3>4, <4>1 DEF Tiles
    <3> QED
      BY <3>3, <3>4
  <2>4. InOrder(n)
    <3>1. ASSUME NEW u \in DOMAIN n.intervals
          PROVE  n.intervals[u].size > 0 /\ LatestRoot(n).current_size <= n.intervals[u].offset
      <4>1. u \in DOMAIN o.intervals /\ next - 1 \in DOMAIN o.intervals /\ next - 1 < u
        BY <1>1, <1>2, <1>3, <2>1
      <4>2. End(o, next - 1) <= o.intervals[u].offset /\ o.intervals[u].size > 0
        BY <4>1 DEF InOrder
      <4> QED
        BY <1>3, <2>2, <4>2
    <3>2. ASSUME NEW u \in DOMAIN n.intervals, NEW w \in DOMAIN n.intervals, u < w
          PROVE  End(n, u) <= n.intervals[w].offset
      BY <1>2, <1>3, <1>4, <3>2 DEF InOrder
    <3> QED
      BY <3>1, <3>2 DEF InOrder
  <2> QED
    BY <2>3, <2>4 DEF n
<1> QED
  BY <1>1, <1>5, <1>6

\* A workload of appends keeps the tiling of every blob.
LEMMA NextTiles ==
    ASSUME Appends \subseteq {TRUE}
    PROVE  Inv /\ TilesInv /\ [Next]_vars => TilesInv'
<1> SUFFICES ASSUME Inv, TilesInv, [Next]_vars PROVE TilesInv'
  OBVIOUS
<1>1. PerBlob
  BY StepShape DEF Inv
<1>2. \A id \in Blobs : ObjOK(id, obj_hash[id]) /\ id \in Nat
  BY <1>1 DEF Inv, TypeOK, VersionsConsecutive, ObjOK, Blobs, PerBlob
<1>3. \A id \in Blobs : Tiles(obj_hash[id]) /\ InOrder(obj_hash[id])
  BY DEF TilesInv
<1>4. ASSUME NEW id \in Blobs PROVE Tiles(obj_hash'[id]) /\ InOrder(obj_hash'[id])
  <2>1. CASE obj_hash'[id] = obj_hash[id]
    BY <1>3, <2>1
  <2>2. CASE GotTicket(id)
    <3> DEFINE o == obj_hash[id]
    <3>1. PICK offset \in Offsets, size \in Sizes, append \in Appends, k \in 0..Width :
             obj_hash'[id] = Ticketed(o, id, TicketOffset(o, offset, append), size, Doubled(o.max_size, k))
      BY <2>2 DEF GotTicket
    <3>2. TicketOffset(o, offset, append) = o.progress_size
      BY DEF TicketOffset
    <3>3. size \in Nat \ {0} /\ o.max_size \in Nat
      BY <1>2, RequestAssumption DEF ObjOK, IsObjInfo
    <3>4. Doubled(o.max_size, k) \in Nat
      BY <3>3, DoubledType
    <3> QED
      BY <1>2, <1>3, <3>1, <3>2, <3>3, <3>4, TicketedTiles
  <2>3. CASE Published(id)
    BY <1>2, <1>3, <2>3, DrainedTiles DEF Published
  <2> QED
    BY <1>1, <2>1, <2>2, <2>3 DEF PerBlob
<1>5. ASSUME NEW id \in Blobs' \ Blobs PROVE Tiles(obj_hash'[id]) /\ InOrder(obj_hash'[id])
  <2>1. \A o : /\ o.intervals = << >> /\ Len(o.roots) = 1 /\ o.current_ticket = 1
               /\ o.progress_size = LatestRoot(o).current_size
               => Tiles(o) /\ InOrder(o)
    BY DEF Tiles, InOrder
  <2>2. CASE Created(id)
    BY <2>1, <2>2 DEF Created, NewObj, LatestRoot
  <2>3. CASE Cloned(id)
    BY <2>1, <2>3 DEF Cloned, CloneObj, LatestRoot
  <2> QED
    BY <1>1, <2>2, <2>3 DEF PerBlob
<1> QED
  BY <1>4, <1>5 DEF TilesInv

\* Concurrent appenders, however many and however they interleave, get
\* ranges that follow one another without gap or overlap.
THEOREM AppendersNeverCollide ==
    ASSUME Appends \subseteq {TRUE}
    PROVE  Spec => []AppendsTile
<1>1. Init => TilesInv
  BY DEF Init, TilesInv, Blobs
<1>2. Inv /\ TilesInv /\ [Next]_vars => TilesInv'
  BY NextTiles
<1>3. TilesInv => AppendsTile
  BY DEF TilesInv, AppendsTile
<1> QED
  BY <1>1, <1>2, <1>3, InitInv, NextInv, PTL DEF Spec

-----------------------------------------------------------------------------
\* A published root is never withdrawn or changed.
THEOREM PublishedRootsImmutable == Spec => RootsImmutable
<1>1. ASSUME Inv, [Next]_vars, NEW id \in Blobs, NEW k \in 1..Len(obj_hash[id].roots)
      PROVE  /\ id \in Blobs' /\ k <= Len(obj_hash'[id].roots)
             /\ obj_hash'[id].roots[k] = obj_hash[id].roots[k]
  <2>1. PerBlob
    BY <1>1, StepShape DEF Inv
  <2>2. ObjOK(id, obj_hash[id]) /\ id \in Nat /\ id \in Blobs'
    BY <1>1, <2>1 DEF Inv, TypeOK, VersionsConsecutive, ObjOK, Blobs, PerBlob
  <2>3. Len(obj_hash[id].roots) \in Nat
    BY <2>2 DEF ObjOK, IsObjInfo
  <2>4. CASE obj_hash'[id] = obj_hash[id]
    BY <2>2, <2>3, <2>4
  <2>5. CASE GotTicket(id)
    <3>1. obj_hash'[id].roots = obj_hash[id].roots
      BY <2>5 DEF GotTicket, Ticketed
    <3> QED
      BY <2>2, <2>3, <3>1
  <2>6. CASE Published(id)
    <3>1. PICK v \in DOMAIN obj_hash[id].intervals, next \in 1..obj_hash[id].current_ticket :
             DrainStops(obj_hash[id], v, next) /\ obj_hash'[id] = Drained(obj_hash[id], v, next)
      BY <2>6 DEF Published
    <3>2. /\ next \in Len(obj_hash[id].roots)..obj_hash[id].current_ticket
          /\ Len(obj_hash'[id].roots) = next
          /\ \A j \in 1..Len(obj_hash[id].roots) : obj_hash'[id].roots[j] = obj_hash[id].roots[j]
      BY <2>2, <3>1, DrainedRoots
    <3> QED
      BY <2>2, <2>3, <3>2
  <2> QED
    BY <2>1, <2>4, <2>5, <2>6 DEF PerBlob
<1>2. Inv /\ [Next]_vars =>
        [\A id \in Blobs : \A k \in 1..Len(obj_hash[id].roots) :
            /\ id \in Blobs' /\ k <= Len(obj_hash'[id].roots)
            /\ obj_hash'[id].roots[k] = obj_hash[id].roots[k]]_vars
  BY <1>1
<1> QED
  BY <1>2, InitInv, NextInv, PTL DEF Spec, RootsImmutable

\* A version becomes readable only once every version up to it is complete.
THEOREM PublicationInOrder == Spec => PublishedInOrder
<1> DEFINE new(id) == Len(obj_hash[id].roots)..(Len(obj_hash'[id].roots) - 1)
<1>1. ASSUME Inv, [Next]_vars, NEW id \in Blobs, NEW u \in new(id), NEW w \in new(id),
             ~obj_hash[id].intervals[u].done, ~obj_hash[id].intervals[w].done
      PROVE  u = w
  <2> DEFINE o == obj_hash[id]
  <2>1. PerBlob
    BY <1>1, StepShape DEF Inv
  <2>2. ObjOK(id, o) /\ id \in Nat
    BY <1>1, <2>1 DEF Inv, TypeOK, VersionsConsecutive, ObjOK, Blobs, PerBlob
  <2>3. Len(o.roots) \in Nat
    BY <2>2 DEF ObjOK, IsObjInfo
  <2>4. CASE obj_hash'[id] = o
    BY <1>1, <2>3, <2>4
  <2>5. CASE GotTicket(id)
    <3>1. obj_hash'[id].roots = o.roots
      BY <2>5 DEF GotTicket, Ticketed
    <3> QED
      BY <1>1, <2>3, <3>1
  <2>6. CASE Published(id)
    <3>1. PICK v \in DOMAIN o.intervals, next \in 1..o.current_ticket :
             DrainStops(o, v, next) /\ obj_hash'[id] = Drained(o, v, next)
      BY <2>6 DEF Published
    <3>2. /\ next \in Len(o.roots)..o.current_ticket /\ o.current_ticket \in Nat
          /\ Len(obj_hash'[id].roots) = next
      BY <2>2, <3>1, DrainedRoots
    <3>3. DOMAIN o.intervals = Len(o.roots)..(o.current_ticket - 1)
      BY <2>2 DEF ObjOK, Consecutive
    <3>4. u \in DOMAIN o.intervals /\ u < next /\ w \in DOMAIN o.intervals /\ w < next
      BY <2>3, <3>2, <3>3
    <3>5. u = v /\ w = v
      BY <1>1, <3>1, <3>4 DEF DrainStops, Completed
    <3> QED
      BY <3>5
  <2> QED
    BY <2>1, <2>4, <2>5, <2>6 DEF PerBlob
<1>2. Inv /\ [Next]_vars =>
        [\A id \in Blobs :
            LET o == obj_hash[id]
                published == Len(o.roots)..(Len(obj_hash'[id].roots) - 1)
            IN  \A u, w \in published : ~o.intervals[u].done /\ ~o.intervals[w].done => u = w]_vars
  BY <1>1
<1> QED
  BY <1>2, InitInv, NextInv, PTL DEF Spec, PublishedInOrder
=============================================================================
