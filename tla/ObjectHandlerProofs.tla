------------------------- MODULE ObjectHandlerProofs -------------------------
(***************************************************************************)
(* What ObjectHandler's run checks on two handlers, proved for any number  *)
(* of handlers, providers, blobs, versions and faults.                     *)
(***************************************************************************)
EXTENDS ObjectHandler, VersionManagerProofs, FiniteSetTheorems

\* Version u of o has been completed by its writer, published or not.
Finished(o, u) == u < o.current_ticket /\ (u < Len(o.roots) \/ o.intervals[u].done)

-----------------------------------------------------------------------------
(* The inductive invariant *)

\* Where a page of a write is: a provider at least, for each.
Held == {f \in [Pages -> SUBSET Providers] : \A p \in Pages : f[p] # {}}

\* An operation under way.
OpOK(o) ==
    /\ o.pc \in {"idle", "ticket", "metadata", "publish", "read", "aborted"}
    /\ o.pc \in {"ticket", "metadata"} => o.held \in Held
    /\ o.pc \in {"metadata", "publish"} => o.version \in 1..MaxTickets
    /\ o.pc \in {"read", "aborted"} =>
          o.held \subseteq Providers /\ o.untried \subseteq Providers

SessionTypes ==
    /\ id \in [Handlers -> 0..MaxBlobs]
    /\ latest_root \in [Handlers -> Root] /\ \A h \in Handlers : latest_root[h].id <= MaxBlobs
    /\ version_cache = [h \in Handlers |-> version_cache[h]]
    /\ \A h \in Handlers : \A v \in DOMAIN version_cache[h] : version_cache[h][v] \in Root
    /\ op = [h \in Handlers |-> op[h]] /\ \A h \in Handlers : OpOK(op[h])
    /\ \A k \in DOMAIN leaves : leaves[k] \in Held
    /\ down \subseteq Providers
    /\ faults \in 0..MaxFaults

\* The first root of a blob is its own, of version 0, or that of an older one.
FirstRoots ==
    \A b \in Blobs : LET root == obj_hash[b].roots[1]
                     IN  root.id <= b /\ (root.id = b => root.version = 0)

\* Leaves are written before a write is completed, let alone published.
LeavesFirst ==
    \A b \in Blobs : \A v \in 1..MaxTickets : Finished(obj_hash[b], v) => <<b, v>> \in DOMAIN leaves

LeafOK(h) == op[h].pc = "publish" => <<id[h], op[h].version>> \in DOMAIN leaves

\* h works on its first blob, which was created under this id or may yet be.
OnFirstBlob(h) == h \notin moved /\ (id[h] \in Blobs => obj_hash[id[h]].roots[1].id = id[h])

\* Its cache.
CacheOK(h) ==
    \A v \in DOMAIN version_cache[h] \ {0} :
        /\ id[h] \in Blobs /\ v \in Nat /\ v < Len(obj_hash[id[h]].roots)
        /\ version_cache[h][v] = obj_hash[id[h]].roots[v + 1]

\* The last version it saw is completed, and older than the one it writes.
LatestOK(h) ==
    /\ op[h].pc \in {"metadata", "publish"} =>
          /\ id[h] \in Blobs /\ op[h].version < obj_hash[id[h]].current_ticket
          /\ OnFirstBlob(h) => latest_root[h].version < op[h].version
    /\ OnFirstBlob(h) /\ latest_root[h].version # 0 =>
          id[h] \in Blobs /\ Finished(obj_hash[id[h]], latest_root[h].version)

\* A replica a read has tried to no avail does not hold the page, is down, or
\* failed to answer.
TriedOK(h) ==
    op[h].pc \in {"read", "aborted"} /\ ~op[h].partial =>
        op[h].held \subseteq down \cup op[h].lost \cup (IF op[h].pc = "read" THEN op[h].untried ELSE {})

HandlerOK(h) == LeafOK(h) /\ (OnFirstBlob(h) => CacheOK(h)) /\ LatestOK(h) /\ TriedOK(h)

SessionInv ==
    /\ Inv /\ SessionTypes /\ FirstRoots /\ LeavesFirst
    /\ \A h \in Handlers : HandlerOK(h)

-----------------------------------------------------------------------------
(* What a step of the version manager does for its clients *)

\* A ticket completes nothing.
LEMMA TicketedFinished ==
    ASSUME NEW b \in Nat, NEW o, ObjOK(b, o), NEW off, NEW size, NEW m, NEW u \in Nat
    PROVE  Finished(Ticketed(o, b, off, size, m), u) <=> Finished(o, u)
<1> DEFINE n == Ticketed(o, b, off, size, m)
           v == o.current_ticket
<1>1. v \in Nat /\ Len(o.roots) \in Nat /\ Len(o.roots) <= v /\ DOMAIN o.intervals = Len(o.roots)..(v - 1)
  BY BoundAssumption DEF ObjOK, IsObjInfo, Consecutive
<1>2. n.roots = o.roots /\ n.current_ticket = v + 1 /\ DOMAIN n.intervals = DOMAIN o.intervals \cup {v}
      /\ n.intervals[v].done = FALSE
  BY DEF Ticketed
<1>3. \A w \in DOMAIN o.intervals : w # v => n.intervals[w] = o.intervals[w]
  BY DEF Ticketed
<1> SUFFICES Finished(n, u) <=> Finished(o, u)
  OBVIOUS
<1> HIDE DEF n
<1>4. CASE u < v
  <2>1. CASE u < Len(o.roots)
    BY <2>1, <1>1, <1>2, <1>4 DEF Finished
  <2>2. CASE ~(u < Len(o.roots))
    <3>1. u \in DOMAIN o.intervals /\ u # v
      BY <2>2, <1>1, <1>4
    <3> QED  BY <3>1, <2>2, <1>1, <1>2, <1>3, <1>4 DEF Finished
  <2> QED  BY <2>1, <2>2
<1>5. CASE u = v
  BY <1>5, <1>1, <1>2 DEF Finished
<1>6. CASE u > v
  BY <1>6, <1>1, <1>2 DEF Finished
<1> QED  BY <1>4, <1>5, <1>6, <1>1

\* publish completes the version it is called with, and no other.
LEMMA DrainedFinished ==
    ASSUME NEW b \in Nat, NEW o, ObjOK(b, o), NEW v \in DOMAIN o.intervals,
           NEW next \in 1..o.current_ticket, DrainStops(o, v, next), NEW u \in Nat
    PROVE  Finished(Drained(o, v, next), u) <=> Finished(o, u) \/ u = v
<1> DEFINE n == Drained(o, v, next)
           len == Len(o.roots)
           ct == o.current_ticket
<1>1. /\ len \in Nat \ {0} /\ next \in len..ct /\ ct \in Nat
      /\ Len(n.roots) = next /\ n.current_ticket = ct
      /\ n.intervals = [w \in next..(ct - 1) |->
                          [offset |-> o.intervals[w].offset, size |-> o.intervals[w].size,
                           root |-> o.intervals[w].root, done |-> Completed(o, v, w)]]
  BY DrainedShape
<1>2. DOMAIN o.intervals = len..(ct - 1)
  BY DEF ObjOK, Consecutive
<1>3. \A w \in next..(ct - 1) : n.intervals[w].done <=> Completed(o, v, w)
  BY <1>1
<1> SUFFICES Finished(n, u) <=> Finished(o, u) \/ u = v
  OBVIOUS
<1> HIDE DEF n
<1>4. CASE u < len
  BY <1>4, <1>1, <1>2 DEF Finished
<1>5. CASE u >= len /\ u < next
  <2>1. u \in DOMAIN o.intervals /\ u < ct
    BY <1>5, <1>1, <1>2
  <2>2. Completed(o, v, u)
    BY <2>1, <1>5 DEF DrainStops
  <2> QED  BY <2>1, <2>2, <1>1, <1>5 DEF Finished, Completed
<1>6. CASE u >= next /\ u < ct
  <2>1. u \in next..(ct - 1) /\ ~(u < len) /\ ~(u < next)
    BY <1>6, <1>1
  <2> QED  BY <2>1, <1>1, <1>3, <1>6 DEF Finished, Completed
<1>7. CASE u >= ct
  BY <1>7, <1>1, <1>2 DEF Finished
<1> QED  BY <1>4, <1>5, <1>6, <1>7, <1>1

\* What was published, completed or given out stays so.
VmGrows ==
    /\ \A b \in Blobs :
          /\ b \in Blobs'
          /\ Len(obj_hash[b].roots) <= Len(obj_hash'[b].roots)
          /\ \A k \in 1..Len(obj_hash[b].roots) : obj_hash'[b].roots[k] = obj_hash[b].roots[k]
          /\ obj_hash[b].current_ticket <= obj_hash'[b].current_ticket
          /\ \A u \in Nat : Finished(obj_hash[b], u) => Finished(obj_hash'[b], u)
    /\ \A b \in Blobs' \ Blobs : \A u \in Nat \ {0} : ~Finished(obj_hash'[b], u)

\* Nothing is completed, or nothing but version w of blob x.
NoneFinished ==
    \A b \in Blobs : \A u \in Nat : Finished(obj_hash'[b], u) => Finished(obj_hash[b], u)

OneFinished(x, w) ==
    \A b \in Blobs : \A u \in Nat :
        Finished(obj_hash'[b], u) => Finished(obj_hash[b], u) \/ (b = x /\ u = w)

\* The facts about a blob that the lemmas below start from.
LEMMA BlobFacts ==
    ASSUME Inv, NEW b \in Blobs
    PROVE  /\ b \in Nat \ {0} /\ b <= MaxBlobs /\ ObjOK(b, obj_hash[b])
           /\ Len(obj_hash[b].roots) \in Nat \ {0} /\ obj_hash[b].current_ticket \in Nat
           /\ \A k \in 1..Len(obj_hash[b].roots) : obj_hash[b].roots[k] \in root_t
<1>1. obj_count \in Nat /\ obj_count <= MaxBlobs /\ b \in 1..obj_count
  BY BoundAssumption DEF Inv, TypeOK, Blobs
<1>2. ObjOK(b, obj_hash[b])
  BY DEF Inv, TypeOK, VersionsConsecutive, ObjOK
<1> QED  BY <1>1, <1>2, BoundAssumption DEF ObjOK, IsObjInfo

\* Every step of the version manager is of that kind.
LEMMA VmStep ==
    ASSUME Inv, FirstRoots, [Next]_vars
    PROVE  Inv' /\ FirstRoots' /\ VmGrows
<1>1. PerBlob
  BY StepShape DEF Inv
<1>2. Inv'
  BY NextInv
<1>3. ASSUME NEW b \in Blobs
      PROVE  /\ b \in Blobs'
             /\ Len(obj_hash[b].roots) <= Len(obj_hash'[b].roots)
             /\ \A k \in 1..Len(obj_hash[b].roots) : obj_hash'[b].roots[k] = obj_hash[b].roots[k]
             /\ obj_hash[b].current_ticket <= obj_hash'[b].current_ticket
             /\ \A u \in Nat : Finished(obj_hash[b], u) => Finished(obj_hash'[b], u)
  <2>1. /\ b \in Nat /\ ObjOK(b, obj_hash[b])
        /\ Len(obj_hash[b].roots) \in Nat /\ obj_hash[b].current_ticket \in Nat
    BY BlobFacts
  <2>2. b \in Blobs'
    BY <1>1 DEF PerBlob, Blobs
  <2>3. CASE obj_hash'[b] = obj_hash[b]
    BY <2>1, <2>2, <2>3
  <2>4. CASE GotTicket(b)
    <3>1. PICK off, size, m : obj_hash'[b] = Ticketed(obj_hash[b], b, off, size, m)
      BY <2>4 DEF GotTicket
    <3>2. obj_hash'[b].roots = obj_hash[b].roots
          /\ obj_hash'[b].current_ticket = obj_hash[b].current_ticket + 1
      BY <3>1 DEF Ticketed
    <3>3. \A u \in Nat : Finished(obj_hash[b], u) => Finished(obj_hash'[b], u)
      BY <2>1, <3>1, TicketedFinished
    <3> QED  BY <2>1, <2>2, <3>2, <3>3
  <2>5. CASE Published(b)
    <3>1. PICK v \in DOMAIN obj_hash[b].intervals, next \in 1..obj_hash[b].current_ticket :
             DrainStops(obj_hash[b], v, next) /\ obj_hash'[b] = Drained(obj_hash[b], v, next)
      BY <2>5 DEF Published
    <3>2. /\ next \in Len(obj_hash[b].roots)..obj_hash[b].current_ticket
          /\ Len(obj_hash'[b].roots) = next
          /\ \A j \in 1..Len(obj_hash[b].roots) : obj_hash'[b].roots[j] = obj_hash[b].roots[j]
      BY <2>1, <3>1, DrainedRoots
    <3>3. \A u \in Nat : Finished(obj_hash[b], u) => Finished(obj_hash'[b], u)
      BY <2>1, <3>1, DrainedFinished
    <3>4. obj_hash'[b].current_ticket = obj_hash[b].current_ticket
      BY <3>1 DEF Drained
    <3> QED  BY <2>1, <2>2, <3>2, <3>3, <3>4
  <2> QED  BY <1>1, <2>3, <2>4, <2>5 DEF PerBlob
<1>4. ASSUME NEW b \in Blobs' \ Blobs
      PROVE  /\ \A u \in Nat \ {0} : ~Finished(obj_hash'[b], u)
             /\ LET root == obj_hash'[b].roots[1]
                IN  root.id <= b /\ (root.id = b => root.version = 0)
  <2>0. b \in Nat /\ \A x \in Blobs : x < b /\ x \in Nat
    BY <1>1 DEF PerBlob, Blobs
  <2>1. CASE Created(b)
    <3>1. PICK ps \in PageSizes : obj_hash'[b] = NewObj(b, ps)
      BY <2>1 DEF Created
    <3>2. obj_hash'[b].current_ticket = 1
          /\ obj_hash'[b].roots[1] = [id |-> b, version |-> 0, size |-> 0, current_size |-> 0, page_size |-> ps]
      BY <3>1 DEF NewObj
    <3> QED  BY <2>0, <3>2 DEF Finished
  <2>2. CASE Cloned(b)
    <3>1. PICK source \in Blobs, version \in Nat :
             obj_hash'[b] = CloneObj(GetRoot(obj_hash[source], version))
      BY <2>2 DEF Cloned
    <3>2. obj_hash'[b].current_ticket = 1 /\ obj_hash'[b].roots[1] = GetRoot(obj_hash[source], version)
      BY <3>1 DEF CloneObj
    <3>3. ObjOK(source, obj_hash[source]) /\ Len(obj_hash[source].roots) \in Nat
      BY BlobFacts
    <3>4. PICK k \in 1..Len(obj_hash[source].roots) :
             GetRoot(obj_hash[source], version) = obj_hash[source].roots[k]
      BY <3>3, GetRootPublished DEF ObjOK
    <3>5. obj_hash[source].roots[k].id <= source /\ obj_hash[source].roots[k].id \in Nat
      <4>1. obj_hash[source].roots[k] \in root_t
        BY BlobFacts
      <4>2. obj_hash[source].roots[k].id \in Nat
        BY <4>1 DEF root_t
      <4>3. CASE k = 1
        BY <4>2, <4>3 DEF FirstRoots
      <4>4. CASE k # 1
        <5>1. k \in 2..Len(obj_hash[source].roots)
          BY <3>3, <4>4
        <5> QED  BY <5>1, <3>3, <2>0 DEF ObjOK, Consecutive
      <4> QED  BY <4>3, <4>4
    <3> QED  BY <2>0, <3>2, <3>4, <3>5 DEF Finished
  <2> QED  BY <1>1, <2>1, <2>2 DEF PerBlob
<1>5. FirstRoots'
  <2> SUFFICES ASSUME NEW b \in Blobs'
               PROVE  LET root == obj_hash'[b].roots[1]
                      IN  root.id <= b /\ (root.id = b => root.version = 0)
    BY DEF FirstRoots
  <2>1. CASE b \in Blobs
    <3>1. 1 \in 1..Len(obj_hash[b].roots)
      BY <2>1, BlobFacts
    <3> QED  BY <2>1, <3>1, <1>3 DEF FirstRoots
  <2>2. CASE b \notin Blobs
    BY <2>2, <1>4
  <2> QED  BY <2>1, <2>2
<1> QED  BY <1>2, <1>3, <1>4, <1>5 DEF VmGrows

\* Only publish completes a version.
LEMMA VmQuiet ==
    ASSUME Inv,
           \/ UNCHANGED vars
           \/ \E ps \in PageSizes : create(ps)
           \/ \E b \in Blobs, version \in 0..MaxTickets : clone(b, version)
           \/ \E b \in Blobs, offset \in Offsets, size \in Sizes, append \in Appends :
                 get_ticket(b, offset, size, append) \/ get_ticket_spins(b, offset, size, append)
    PROVE  NoneFinished
<1> SUFFICES ASSUME NEW b \in Blobs, NEW u \in Nat, Finished(obj_hash'[b], u)
             PROVE  Finished(obj_hash[b], u)
  BY DEF NoneFinished
<1>1. CASE UNCHANGED vars
  BY <1>1 DEF vars
<1>2. ASSUME NEW ps \in PageSizes, create(ps)
      PROVE  obj_hash'[b] = obj_hash[b]
  BY <1>2 DEF create, AddBlob, Blobs, Inv, TypeOK
<1>3. ASSUME NEW c \in Blobs, NEW version \in 0..MaxTickets, clone(c, version)
      PROVE  obj_hash'[b] = obj_hash[b]
  BY <1>3 DEF clone, AddBlob, Blobs, Inv, TypeOK
<1>4. ASSUME NEW c \in Blobs, NEW offset \in Offsets, NEW size \in Sizes, NEW append \in Appends,
             get_ticket(c, offset, size, append)
      PROVE  Finished(obj_hash[b], u)
  <2>1. obj_hash'[b] = obj_hash[b] \/ \E off, m : obj_hash'[b] = Ticketed(obj_hash[b], b, off, size, m)
    BY <1>4 DEF get_ticket, Inv, TypeOK
  <2>2. b \in Nat /\ ObjOK(b, obj_hash[b])
    BY BlobFacts
  <2> QED  BY <2>1, <2>2, TicketedFinished
<1>5. ASSUME NEW c \in Blobs, NEW offset \in Offsets, NEW size \in Sizes, NEW append \in Appends,
             get_ticket_spins(c, offset, size, append)
      PROVE  obj_hash'[b] = obj_hash[b]
  BY <1>5 DEF get_ticket_spins
<1> QED  BY <1>1, <1>2, <1>3, <1>4, <1>5

\* publish(x, w) completes version w of blob x and no other.
LEMMA VmPublish ==
    ASSUME Inv, NEW x, NEW w, publish(x, w)
    PROVE  /\ x \in Blobs /\ w \in 1..MaxTickets /\ OneFinished(x, w) /\ Finished(obj_hash'[x], w)
<1> DEFINE o == obj_hash[x]
<1>1. x \in Blobs /\ w \in DOMAIN o.intervals
  BY DEF publish
<1>2. PICK next \in 1..o.current_ticket :
         DrainStops(o, w, next) /\ obj_hash' = [obj_hash EXCEPT ![x] = Drained(o, w, next)]
  BY DEF publish
<1>3. x \in Nat /\ ObjOK(x, o) /\ w \in 1..MaxTickets
  BY <1>1, BlobFacts DEF ObjOK, IsObjInfo
<1>4. \A b \in Blobs : obj_hash'[b] = IF b = x THEN Drained(o, w, next) ELSE obj_hash[b]
  BY <1>1, <1>2 DEF Inv, TypeOK
<1> HIDE DEF o
<1>5. \A u \in Nat : Finished(Drained(o, w, next), u) <=> Finished(o, u) \/ u = w
  BY <1>1, <1>2, <1>3, DrainedFinished
<1>6. w \in Nat
  BY <1>3, BoundAssumption
<1> QED  BY <1>1, <1>3, <1>4, <1>5, <1>6 DEF OneFinished, o

-----------------------------------------------------------------------------
(* What a step of the session leaves alone *)

\* A handler that stays on its blob is on its first blob if it was before.
LEMMA FirstBlobStays ==
    ASSUME Inv, VmGrows, NEW h \in Handlers, id'[h] = id[h], h \in moved => h \in moved', OnFirstBlob(h)'
    PROVE  OnFirstBlob(h)
<1>1. h \notin moved
  BY DEF OnFirstBlob
<1>2. ASSUME id[h] \in Blobs
      PROVE  obj_hash[id[h]].roots[1].id = id[h]
  <2>1. 1 \in 1..Len(obj_hash[id[h]].roots)
    BY <1>2, BlobFacts
  <2>2. id[h] \in Blobs' /\ obj_hash'[id[h]].roots[1] = obj_hash[id[h]].roots[1]
    BY <1>2, <2>1 DEF VmGrows
  <2> QED  BY <2>2 DEF OnFirstBlob
<1> QED  BY <1>1, <1>2 DEF OnFirstBlob

\* What it has cached stays right, whatever others publish.
LEMMA CacheStays ==
    ASSUME Inv, Inv', VmGrows, NEW h \in Handlers, id'[h] = id[h], version_cache'[h] = version_cache[h],
           CacheOK(h)
    PROVE  CacheOK(h)'
<1> SUFFICES ASSUME NEW v \in DOMAIN version_cache[h] \ {0}
             PROVE  /\ id[h] \in Blobs' /\ v \in Nat /\ v < Len(obj_hash'[id[h]].roots)
                    /\ version_cache[h][v] = obj_hash'[id[h]].roots[v + 1]
  BY DEF CacheOK
<1>1. /\ id[h] \in Blobs /\ v \in Nat /\ v < Len(obj_hash[id[h]].roots)
      /\ version_cache[h][v] = obj_hash[id[h]].roots[v + 1]
  BY DEF CacheOK
<1>2. Len(obj_hash[id[h]].roots) \in Nat
  BY <1>1, BlobFacts
<1>3. v + 1 \in 1..Len(obj_hash[id[h]].roots)
  BY <1>1, <1>2
<1>4. /\ id[h] \in Blobs' /\ obj_hash'[id[h]].roots[v + 1] = obj_hash[id[h]].roots[v + 1]
      /\ Len(obj_hash[id[h]].roots) <= Len(obj_hash'[id[h]].roots)
  BY <1>1, <1>3 DEF VmGrows
<1>5. Len(obj_hash'[id[h]].roots) \in Nat
  <2>1. IsObjInfo(obj_hash'[id[h]])
    BY <1>4 DEF Inv, TypeOK
  <2> QED  BY <2>1 DEF IsObjInfo
<1> QED  BY <1>1, <1>2, <1>4, <1>5

\* The version it saw last stays completed.
LEMMA LatestStays ==
    ASSUME SessionInv, Inv', VmGrows, NEW h \in Handlers, id'[h] = id[h], h \in moved => h \in moved',
           latest_root'[h] = latest_root[h],
           op'[h] = op[h] \/ op'[h].pc \notin {"metadata", "publish"}
    PROVE  LatestOK(h)'
<1> DEFINE b == id[h]
<1>1. LatestOK(h)
  BY DEF SessionInv, HandlerOK
<1>2. OnFirstBlob(h)' => OnFirstBlob(h)
  BY FirstBlobStays DEF SessionInv
<1>3. latest_root[h].version \in Nat
  BY DEF SessionInv, SessionTypes, Root
<1>4. ASSUME b \in Blobs
      PROVE  /\ b \in Blobs' /\ obj_hash[b].current_ticket <= obj_hash'[b].current_ticket
             /\ obj_hash[b].current_ticket \in Nat /\ obj_hash'[b].current_ticket \in Nat
             /\ \A u \in Nat : Finished(obj_hash[b], u) => Finished(obj_hash'[b], u)
  <2>1. b \in Blobs'
    BY <1>4 DEF VmGrows
  <2>2. obj_hash[b].current_ticket \in Nat
    BY <1>4, BlobFacts DEF SessionInv
  <2>3. IsObjInfo(obj_hash'[b])
    BY <2>1 DEF Inv, TypeOK
  <2>4. obj_hash'[b].current_ticket \in Nat
    BY <2>3, BoundAssumption DEF IsObjInfo
  <2> QED  BY <2>1, <2>2, <2>4, <1>4 DEF VmGrows
<1>5. ASSUME op'[h].pc \in {"metadata", "publish"}
      PROVE  /\ b \in Blobs' /\ op'[h].version < obj_hash'[b].current_ticket
             /\ OnFirstBlob(h)' => latest_root'[h].version < op'[h].version
  <2>1. op'[h] = op[h] /\ op[h].version \in 1..MaxTickets
    BY <1>5 DEF SessionInv, SessionTypes, OpOK
  <2>2. /\ b \in Blobs /\ op[h].version < obj_hash[b].current_ticket
        /\ OnFirstBlob(h) => latest_root[h].version < op[h].version
    BY <1>1, <1>5, <2>1 DEF LatestOK
  <2>3. op[h].version \in Nat
    BY <2>1, BoundAssumption
  <2> QED  BY <2>1, <2>2, <2>3, <1>2, <1>4
<1>6. ASSUME OnFirstBlob(h)', latest_root'[h].version # 0
      PROVE  b \in Blobs' /\ Finished(obj_hash'[b], latest_root'[h].version)
  BY <1>1, <1>2, <1>3, <1>4, <1>6 DEF LatestOK
<1> QED  BY <1>5, <1>6 DEF LatestOK

\* A step that does not move h: what h holds is the same, its operation too
\* unless it ends.
Calm(h) ==
    /\ id'[h] = id[h] /\ latest_root'[h] = latest_root[h] /\ version_cache'[h] = version_cache[h]
    /\ h \in moved => h \in moved'
    /\ op'[h] = op[h] \/ op'[h] = Idle

\* Nothing the invariant says of h is lost by such a step.
LEMMA CalmStep ==
    ASSUME SessionInv, Inv', VmGrows, DOMAIN leaves \subseteq DOMAIN leaves', down \subseteq down',
           NEW h \in Handlers, Calm(h)
    PROVE  HandlerOK(h)'
<1>1. HandlerOK(h) /\ Inv
  BY DEF SessionInv
<1>2. LeafOK(h)'
  BY <1>1 DEF HandlerOK, LeafOK, Calm, Idle
<1>3. OnFirstBlob(h)' => CacheOK(h)'
  BY <1>1, CacheStays, FirstBlobStays DEF HandlerOK, Calm
<1>4. LatestOK(h)'
  BY LatestStays DEF Calm, Idle
<1>5. TriedOK(h)'
  BY <1>1 DEF HandlerOK, TriedOK, Calm, Idle
<1> QED  BY <1>2, <1>3, <1>4, <1>5 DEF HandlerOK

\* Leaves are there first if only their own writer completes a version.
LEMMA LeavesStay ==
    ASSUME SessionInv, Inv', VmGrows, DOMAIN leaves \subseteq DOMAIN leaves',
           NoneFinished \/ \E x, w : OneFinished(x, w) /\ <<x, w>> \in DOMAIN leaves'
    PROVE  LeavesFirst'
<1> SUFFICES ASSUME NEW b \in Blobs', NEW v \in 1..MaxTickets, Finished(obj_hash'[b], v)
             PROVE  <<b, v>> \in DOMAIN leaves'
  BY DEF LeavesFirst
<1>1. v \in Nat \ {0}
  BY BoundAssumption
<1>2. b \in Blobs
  BY <1>1 DEF VmGrows
<1>3. CASE Finished(obj_hash[b], v)
  BY <1>2, <1>3 DEF SessionInv, LeavesFirst
<1>4. CASE ~Finished(obj_hash[b], v)
  <2>1. PICK x, w : OneFinished(x, w) /\ <<x, w>> \in DOMAIN leaves'
    BY <1>1, <1>2, <1>4 DEF NoneFinished
  <2>2. b = x /\ v = w
    BY <2>1, <1>1, <1>2, <1>4 DEF OneFinished
  <2> QED  BY <2>1, <2>2
<1> QED  BY <1>3, <1>4

-----------------------------------------------------------------------------
(* The version manager's part of a session's steps *)

\* The session's workload is one of those the version manager is modelled for.
LEMMA Workload == PageSize \in PageSizes /\ WriteSize \in Sizes /\ 0 \in Offsets /\ FALSE \in Appends
<1>1. PageSizes # {} /\ Sizes # {}
  BY SessionAssumption, FS_EmptySet
<1>2. Offsets = {0} /\ Appends = {FALSE}
  BY SessionAssumption
<1> QED  BY <1>1, <1>2 DEF PageSize, WriteSize

\* Calls that complete no version.
QuietCall ==
    \/ UNCHANGED vars
    \/ create(PageSize)
    \/ \E b, version : version \in 0..MaxTickets /\ clone(b, version)
    \/ \E b : get_ticket(b, 0, WriteSize, FALSE) \/ get_ticket_spins(b, 0, WriteSize, FALSE)

\* Calls that complete no write keep what the version manager knows.
LEMMA QuietCalls ==
    ASSUME SessionInv, QuietCall
    PROVE  Inv' /\ FirstRoots' /\ VmGrows /\ NoneFinished
<1>1. \A b, version : clone(b, version) => b \in Blobs
  BY DEF clone
<1>2. \A b : get_ticket(b, 0, WriteSize, FALSE) => b \in Blobs
  BY DEF get_ticket, TicketRequest
<1>3. \A b : get_ticket_spins(b, 0, WriteSize, FALSE) => b \in Blobs
  BY DEF get_ticket_spins, TicketRequest
<1> DEFINE Quiet ==
           \/ UNCHANGED vars
           \/ \E ps \in PageSizes : create(ps)
           \/ \E b \in Blobs, version \in 0..MaxTickets : clone(b, version)
           \/ \E b \in Blobs, offset \in Offsets, size \in Sizes, append \in Appends :
                 get_ticket(b, offset, size, append) \/ get_ticket_spins(b, offset, size, append)
<1>4. Quiet
  BY <1>1, <1>2, <1>3, Workload, Zenon DEF QuietCall
<1>5. [Next]_vars
  BY <1>4, Zenon DEF Next
<1>6. NoneFinished
  BY <1>4, VmQuiet DEF SessionInv
<1> QED  BY <1>5, <1>6, VmStep DEF SessionInv

\* publish completes one version.
LEMMA PublishCalls ==
    ASSUME SessionInv, NEW x, NEW w, publish(x, w)
    PROVE  /\ Inv' /\ FirstRoots' /\ VmGrows
           /\ x \in Blobs /\ OneFinished(x, w) /\ Finished(obj_hash'[x], w)
<1>1. x \in Blobs /\ w \in 1..MaxTickets /\ OneFinished(x, w) /\ Finished(obj_hash'[x], w)
  BY VmPublish DEF SessionInv
<1>2. [Next]_vars
  BY <1>1, Zenon DEF Next
<1> QED  BY <1>1, <1>2, VmStep DEF SessionInv

-----------------------------------------------------------------------------
(* The steps of a handler keep the invariant *)

\* The parts of the invariant, put together again.
LEMMA Assembled ==
    ASSUME SessionInv, Inv', FirstRoots', VmGrows, LeavesFirst', SessionTypes',
           DOMAIN leaves \subseteq DOMAIN leaves', down \subseteq down',
           \A g \in Handlers : Calm(g) \/ HandlerOK(g)'
    PROVE  SessionInv'
<1>1. \A g \in Handlers : HandlerOK(g)'
  BY CalmStep
<1> QED  BY <1>1 DEF SessionInv

\* Goto changes the operation of one handler.
LEMMA GotoStep ==
    ASSUME SessionInv, NEW h \in Handlers, NEW o, OpOK(o), Goto(h, o)
    PROVE  /\ op' = [g \in Handlers |-> op'[g]] /\ \A g \in Handlers : OpOK(op'[g])
           /\ op'[h] = o /\ \A g \in Handlers : g # h => op'[g] = op[g]
<1>1. op = [g \in Handlers |-> op[g]] /\ \A g \in Handlers : OpOK(op[g])
  BY DEF SessionInv, SessionTypes
<1>2. op' = [g \in Handlers |-> IF g = h THEN o ELSE op[g]]
  BY <1>1 DEF Goto
<1>3. op'[h] = o /\ \A g \in Handlers : g # h => op'[g] = op[g]
  BY <1>2
<1>4. op' = [g \in Handlers |-> op'[g]]
  BY <1>2
<1> QED  BY <1>1, <1>3, <1>4

\* The budget of faults is kept.
LEMMA FaultStep ==
    ASSUME SessionInv
    PROVE  /\ \A n \in Nat : Fault(n) => faults' \in 0..MaxFaults
           /\ VmFails => faults' \in 0..MaxFaults
           /\ UNCHANGED faults => faults' \in 0..MaxFaults
<1>1. faults \in 0..MaxFaults /\ MaxFaults \in Nat
  BY SessionAssumption DEF SessionInv, SessionTypes
<1> QED  BY <1>1 DEF Fault, VmFails

\* A handler moves to blob b, or stays there, with a root of b that is
\* completed if b is its first blob.
LEMMA MoveStep ==
    ASSUME SessionInv, QuietCall, NEW h \in Handlers, NEW b \in 0..MaxBlobs, NEW root \in Root,
           root.id <= MaxBlobs, MoveTo(h, b, root), op[h] = Idle,
           UNCHANGED <<op, leaves, down>>, faults' \in 0..MaxFaults,
           OnFirstBlob(h)' /\ root.version # 0 => b \in Blobs' /\ Finished(obj_hash'[b], root.version)
    PROVE  SessionInv'
<1>1. Inv' /\ FirstRoots' /\ VmGrows /\ NoneFinished
  BY QuietCalls
<1>2. SessionTypes
  BY DEF SessionInv
<1>3. /\ id' = [g \in Handlers |-> IF g = h THEN b ELSE id[g]]
      /\ latest_root' = [g \in Handlers |-> IF g = h THEN root ELSE latest_root[g]]
      /\ version_cache' = version_cache /\ op' = op /\ leaves' = leaves /\ down' = down
  BY <1>2 DEF MoveTo, SessionTypes
<1>4. /\ id' \in [Handlers -> 0..MaxBlobs]
      /\ latest_root' \in [Handlers -> Root] /\ \A g \in Handlers : latest_root'[g].id <= MaxBlobs
  <2>1. /\ id \in [Handlers -> 0..MaxBlobs] /\ latest_root \in [Handlers -> Root]
        /\ \A g \in Handlers : latest_root[g].id <= MaxBlobs
    BY <1>2 DEF SessionTypes
  <2> QED  BY <2>1, <1>3
<1>5. SessionTypes'
  BY <1>2, <1>3, <1>4 DEF SessionTypes
<1>6. LeavesFirst'
  BY <1>1, <1>3, LeavesStay
<1>7. ASSUME NEW g \in Handlers, g # h
      PROVE  Calm(g)
  BY <1>3, <1>7 DEF Calm, MoveTo
<1>8. LeafOK(h)' /\ TriedOK(h)'
  BY <1>3 DEF LeafOK, TriedOK, Idle
<1>9. LatestOK(h)'
  BY <1>3 DEF LatestOK, Idle
<1>10. ASSUME OnFirstBlob(h)'
       PROVE  CacheOK(h)'
  <2>1. h \notin moved' /\ moved' = moved \cup {g \in {h} : id[g] \notin {0, b}}
    BY <1>10 DEF OnFirstBlob, MoveTo
  <2>2. h \notin moved /\ id[h] \in {0, b}
    BY <2>1
  <2>3. HandlerOK(h) /\ Inv
    BY DEF SessionInv
  <2>4. CASE id[h] = 0
    <3>1. 0 \notin Blobs
      BY DEF Blobs
    <3>2. CacheOK(h)
      BY <2>2, <2>3, <2>4, <3>1 DEF HandlerOK, OnFirstBlob
    <3>3. DOMAIN version_cache[h] \ {0} = {}
      BY <2>4, <3>1, <3>2 DEF CacheOK
    <3> QED  BY <3>3, <1>3 DEF CacheOK
  <2>5. CASE id[h] = b
    <3>1. id'[h] = id[h]
      BY <2>5, <1>3
    <3>2. OnFirstBlob(h)
      BY <3>1, <2>1, <2>3, <1>1, <1>10, FirstBlobStays
    <3> QED  BY <3>1, <3>2, <2>3, <1>1, <1>3, CacheStays DEF HandlerOK
  <2> QED  BY <2>2, <2>4, <2>5
<1>11. HandlerOK(h)'
  BY <1>8, <1>9, <1>10 DEF HandlerOK
<1> QED  BY <1>1, <1>3, <1>5, <1>6, <1>7, <1>11, Assembled

\* What VMGR_GETROOT answers: a published root of the blob, or an empty one.
LEMMA AskFacts ==
    ASSUME SessionInv, NEW b \in 0..MaxBlobs, NEW version \in Nat
    PROVE  /\ Ask(b, version) \in Root /\ Ask(b, version).id <= MaxBlobs
           /\ b \notin Blobs => Ask(b, version).version = 0
           /\ b \in Blobs => \E k \in 1..Len(obj_hash[b].roots) : Ask(b, version) = obj_hash[b].roots[k]
<1>0. MaxBlobs \in Nat
  BY BoundAssumption
<1>1. CASE b \notin Blobs
  <2>1. Ask(b, version) = EmptyRoot
    BY <1>1 DEF Ask
  <2> QED  BY <2>1, <1>0, <1>1 DEF EmptyRoot, Root
<1>2. CASE b \in Blobs
  <2>1. ObjOK(b, obj_hash[b]) /\ Len(obj_hash[b].roots) \in Nat \ {0} /\ b \in Nat /\ b <= MaxBlobs
    BY <1>2, BlobFacts DEF SessionInv
  <2>2. PICK k \in 1..Len(obj_hash[b].roots) : GetRoot(obj_hash[b], version) = obj_hash[b].roots[k]
    BY <2>1, GetRootPublished DEF ObjOK
  <2>3. Ask(b, version) = obj_hash[b].roots[k]
    BY <1>2, <2>2 DEF Ask
  <2>4. obj_hash[b].roots[k] \in Root
    BY <1>2, BlobFacts DEF SessionInv, Root, root_t
  <2>5. obj_hash[b].roots[k].id <= b
    <3>1. CASE k = 1
      BY <3>1, <1>2 DEF SessionInv, FirstRoots
    <3>2. CASE k # 1
      <4>1. k \in 2..Len(obj_hash[b].roots)
        BY <2>1, <3>2
      <4>2. obj_hash[b].roots[k].id = b
        BY <4>1, <2>1 DEF ObjOK, Consecutive
      <4> QED  BY <4>2, <2>1
    <3> QED  BY <3>1, <3>2
  <2>6. obj_hash[b].roots[k].id \in Nat
    BY <2>4 DEF Root
  <2>7. obj_hash[b].roots[k].id <= MaxBlobs
    BY <2>1, <2>5, <2>6, <1>0
  <2> QED  BY <1>2, <2>3, <2>4, <2>7
<1> QED  BY <1>1, <1>2

\* A root of a blob created under its id has the version of its place.
LEMMA RootVersion ==
    ASSUME SessionInv, NEW b \in Blobs, obj_hash[b].roots[1].id = b,
           NEW k \in 1..Len(obj_hash[b].roots)
    PROVE  obj_hash[b].roots[k].version = k - 1 /\ (k # 1 => Finished(obj_hash[b], k - 1))
<1>1. ObjOK(b, obj_hash[b]) /\ Len(obj_hash[b].roots) \in Nat \ {0} /\ obj_hash[b].current_ticket \in Nat
  BY BlobFacts DEF SessionInv
<1>2. Len(obj_hash[b].roots) <= obj_hash[b].current_ticket
  BY <1>1 DEF ObjOK, Consecutive
<1>3. CASE k = 1
  BY <1>3 DEF SessionInv, FirstRoots
<1>4. CASE k # 1
  <2>1. k \in 2..Len(obj_hash[b].roots)
    BY <1>1, <1>4
  <2>2. obj_hash[b].roots[k].version = k - 1
    BY <2>1, <1>1 DEF ObjOK, Consecutive
  <2>3. k - 1 < Len(obj_hash[b].roots) /\ k - 1 < obj_hash[b].current_ticket
    BY <2>1, <1>1, <1>2
  <2> QED  BY <2>2, <2>3 DEF Finished
<1> QED  BY <1>3, <1>4

\* create: the session moves to a blob of its own.
LEMMA CreateStep ==
    ASSUME SessionInv, NEW h \in Handlers, Create(h)
    PROVE  SessionInv'
<1> DEFINE b == obj_count + 1
<1>1. obj_count \in Nat /\ obj_count < MaxBlobs /\ MaxBlobs \in Nat /\ obj_count' = b
      /\ obj_hash' = [x \in 1..b |-> IF x = b THEN NewObj(b, PageSize) ELSE obj_hash[x]]
  BY BoundAssumption DEF SessionInv, Inv, TypeOK, Create, create, AddBlob
<1>2. b \in 0..MaxBlobs /\ b \in Nat /\ b <= MaxBlobs
  BY <1>1
<1>3. obj_hash'[b] = NewObj(b, PageSize)
  BY <1>1
<1>4. LatestRoot(obj_hash'[b]) =
        [id |-> b, version |-> 0, size |-> 0, current_size |-> 0, page_size |-> PageSize]
  BY <1>3 DEF LatestRoot, NewObj
<1>5. PageSize \in Nat
  BY Workload, RequestAssumption
<1>6. /\ LatestRoot(obj_hash'[b]) \in Root /\ LatestRoot(obj_hash'[b]).id <= MaxBlobs
      /\ LatestRoot(obj_hash'[b]).version = 0
  BY <1>2, <1>4, <1>5 DEF Root
<1>7. MoveTo(h, b, LatestRoot(obj_hash'[b]))
  BY <1>1 DEF Create
<1>8. QuietCall /\ op[h] = Idle /\ UNCHANGED <<op, leaves, down>> /\ UNCHANGED faults
  BY DEF Create, QuietCall
<1>9. faults' \in 0..MaxFaults
  BY <1>8, FaultStep
<1> HIDE DEF b
<1> QED  BY <1>2, <1>6, <1>7, <1>8, <1>9, MoveStep

\* The handler keeps its root: it is still completed, if it is of the blob.
LEMMA KeptRoot ==
    ASSUME SessionInv, QuietCall, NEW h \in Handlers, NEW b \in 0..MaxBlobs,
           MoveTo(h, b, latest_root[h]), OnFirstBlob(h)', latest_root[h].version # 0
    PROVE  b \in Blobs' /\ Finished(obj_hash'[b], latest_root[h].version)
<1>1. Inv' /\ VmGrows /\ Inv
  BY QuietCalls DEF SessionInv
<1>2. id'[h] = b
  BY DEF MoveTo, SessionInv, SessionTypes
<1>3. h \notin moved' /\ moved' = moved \cup {g \in {h} : id[g] \notin {0, b}}
  BY DEF OnFirstBlob, MoveTo
<1>4. h \notin moved /\ id[h] \in {0, b}
  BY <1>3
<1>5. latest_root[h].version \in Nat /\ LatestOK(h)
  BY DEF SessionInv, SessionTypes, Root, HandlerOK
<1>6. 0 \notin Blobs
  BY DEF Blobs
<1>7. id[h] # 0
  BY <1>4, <1>5, <1>6 DEF LatestOK, OnFirstBlob
<1>8. id[h] = b
  BY <1>4, <1>7
<1>9. OnFirstBlob(h)
  BY <1>1, <1>2, <1>3, <1>8, FirstBlobStays
<1> QED  BY <1>1, <1>5, <1>8, <1>9 DEF LatestOK, VmGrows

\* create whose call or reply is lost.
LEMMA CreateFailsStep ==
    ASSUME SessionInv, NEW h \in Handlers, CreateFails(h)
    PROVE  SessionInv'
<1>1. QuietCall /\ op[h] = Idle /\ UNCHANGED <<op, leaves, down>> /\ VmFails
      /\ MoveTo(h, latest_root[h].id, latest_root[h])
  BY DEF CreateFails, QuietCall
<1>2. latest_root[h] \in Root /\ latest_root[h].id <= MaxBlobs
  BY DEF SessionInv, SessionTypes
<1>3. latest_root[h].id \in 0..MaxBlobs
  BY <1>2, BoundAssumption DEF Root
<1>4. faults' \in 0..MaxFaults
  BY <1>1, FaultStep
<1> QED  BY <1>1, <1>2, <1>3, <1>4, KeptRoot, MoveStep

\* A call names a blob or the one the session is on.
LEMMA NamedBlob ==
    ASSUME SessionInv, NEW h \in Handlers, NEW b \in 0..MaxBlobs
    PROVE  Named(h, b) \in 0..MaxBlobs
BY DEF Named, SessionInv, SessionTypes

\* get_latest whose call or reply is lost: the session has moved all the same.
LEMMA GetLatestFailsStep ==
    ASSUME SessionInv, NEW h \in Handlers, NEW b \in 0..MaxBlobs, GetLatestFails(h, b)
    PROVE  SessionInv'
<1>1. QuietCall /\ op[h] = Idle /\ UNCHANGED <<op, leaves, down>> /\ VmFails
      /\ MoveTo(h, Named(h, b), latest_root[h])
  BY DEF GetLatestFails, QuietCall
<1>2. latest_root[h] \in Root /\ latest_root[h].id <= MaxBlobs
  BY DEF SessionInv, SessionTypes
<1>3. Named(h, b) \in 0..MaxBlobs /\ faults' \in 0..MaxFaults
  BY <1>1, FaultStep, NamedBlob
<1> QED  BY <1>1, <1>2, <1>3, KeptRoot, MoveStep

\* get_latest: the session moves to the latest published root.
LEMMA GetLatestStep ==
    ASSUME SessionInv, NEW h \in Handlers, NEW b \in 0..MaxBlobs, GetLatest(h, b)
    PROVE  SessionInv'
<1> DEFINE x == Named(h, b)
           root == Ask(x, 0)
<1>1. QuietCall /\ UNCHANGED vars /\ op[h] = Idle /\ UNCHANGED <<op, leaves, down>> /\ UNCHANGED faults
      /\ MoveTo(h, x, root)
  BY DEF GetLatest, QuietCall
<1>2. x \in 0..MaxBlobs /\ faults' \in 0..MaxFaults
  BY <1>1, FaultStep, NamedBlob
<1>3. root \in Root /\ root.id <= MaxBlobs
      /\ (x \notin Blobs => root.version = 0)
      /\ (x \in Blobs => \E k \in 1..Len(obj_hash[x].roots) : root = obj_hash[x].roots[k])
  BY <1>2, AskFacts
<1> HIDE DEF x, root
<1>4. ASSUME OnFirstBlob(h)', root.version # 0
      PROVE  x \in Blobs' /\ Finished(obj_hash'[x], root.version)
  <2>1. x \in Blobs /\ id'[h] = x /\ obj_hash' = obj_hash /\ Blobs' = Blobs
    BY <1>1, <1>3, <1>4 DEF MoveTo, SessionInv, SessionTypes, vars, Blobs
  <2>2. obj_hash[x].roots[1].id = x
    BY <2>1, <1>4 DEF OnFirstBlob
  <2>3. PICK k \in 1..Len(obj_hash[x].roots) : root = obj_hash[x].roots[k]
    BY <2>1, <1>3
  <2>4. Len(obj_hash[x].roots) \in Nat
    BY <2>1, BlobFacts DEF SessionInv
  <2>5. root.version = k - 1 /\ (k # 1 => Finished(obj_hash[x], k - 1))
    BY <2>1, <2>2, <2>3, RootVersion
  <2>6. k # 1
    BY <2>5, <1>4
  <2> QED  BY <2>1, <2>5, <2>6
<1> QED  BY <1>1, <1>2, <1>3, <1>4, MoveStep

\* clone: the session moves to the clone of a published version.
LEMMA CloneStep ==
    ASSUME SessionInv, NEW h \in Handlers, NEW b \in 0..MaxBlobs, NEW version \in 0..MaxTickets,
           Clone(h, b, version)
    PROVE  SessionInv'
<1> DEFINE x == Named(h, b)
           n == obj_count + 1
           root == [Ask(x, version) EXCEPT !.id = id[h]]
<1>1. obj_count \in Nat /\ obj_count < MaxBlobs /\ MaxBlobs \in Nat /\ obj_count' = n /\ x \in Blobs
      /\ obj_hash' = [y \in 1..n |-> IF y = n THEN CloneObj(GetRoot(obj_hash[x], version)) ELSE obj_hash[y]]
  BY BoundAssumption DEF SessionInv, Inv, TypeOK, Clone, clone, AddBlob
<1>2. n \in 0..MaxBlobs /\ x \in 1..(n - 1) /\ n \in Nat
  BY <1>1 DEF Blobs
<1>3. QuietCall /\ op[h] = Idle /\ UNCHANGED <<op, leaves, down>> /\ UNCHANGED faults
  BY DEF Clone, QuietCall
<1>4. faults' \in 0..MaxFaults
  BY <1>3, FaultStep
<1>5. x \in 0..MaxBlobs /\ version \in Nat /\ id[h] \in 0..MaxBlobs
  BY NamedBlob, BoundAssumption DEF SessionInv, SessionTypes
<1>6. Ask(x, version) \in Root
  BY <1>5, AskFacts
<1>7. root \in Root /\ root.id <= MaxBlobs
  BY <1>1, <1>5, <1>6 DEF Root
<1>8. MoveTo(h, n, root)
  BY <1>1 DEF Clone
<1>9. ~OnFirstBlob(h)'
  <2>1. id'[h] = n /\ n \in Blobs'
    BY <1>1, <1>8 DEF MoveTo, SessionInv, SessionTypes, Blobs
  <2>2. obj_hash'[n].roots[1] = GetRoot(obj_hash[x], version)
    BY <1>1 DEF CloneObj
  <2>3. GetRoot(obj_hash[x], version).id # n
    <3>1. ObjOK(x, obj_hash[x]) /\ Len(obj_hash[x].roots) \in Nat \ {0}
      BY <1>1, BlobFacts DEF SessionInv
    <3>2. PICK k \in 1..Len(obj_hash[x].roots) : GetRoot(obj_hash[x], version) = obj_hash[x].roots[k]
      BY <3>1, <1>5, GetRootPublished DEF ObjOK
    <3>3. obj_hash[x].roots[k] \in root_t
      BY <1>1, BlobFacts DEF SessionInv
    <3>4. CASE k = 1
      <4>1. obj_hash[x].roots[k].id <= x
        BY <1>1, <3>4 DEF SessionInv, FirstRoots
      <4> QED  BY <4>1, <3>2, <3>3, <1>2 DEF root_t
    <3>5. CASE k # 1
      <4>1. k \in 2..Len(obj_hash[x].roots)
        BY <3>1, <3>5
      <4>2. obj_hash[x].roots[k].id = x
        BY <4>1, <3>1 DEF ObjOK, Consecutive
      <4> QED  BY <4>2, <3>2, <1>2
    <3> QED  BY <3>4, <3>5
  <2> QED  BY <2>1, <2>2, <2>3 DEF OnFirstBlob
<1> HIDE DEF n, root
<1> QED  BY <1>2, <1>3, <1>4, <1>7, <1>8, <1>9, MoveStep

\* A step that changes nothing of the sessions but the operation of h.
LEMMA OpStep ==
    ASSUME SessionInv, QuietCall, NEW h \in Handlers, NEW o, OpOK(o), Goto(h, o),
           UNCHANGED <<handlerVars, leaves, down>>, faults' \in 0..MaxFaults,
           LeafOK(h)', TriedOK(h)', LatestOK(h)' \/ o.pc \notin {"metadata", "publish"}
    PROVE  SessionInv'
<1>1. Inv' /\ FirstRoots' /\ VmGrows /\ NoneFinished /\ Inv
  BY QuietCalls DEF SessionInv
<1>2. /\ op' = [g \in Handlers |-> op'[g]] /\ \A g \in Handlers : OpOK(op'[g])
      /\ op'[h] = o /\ \A g \in Handlers : g # h => op'[g] = op[g]
  BY GotoStep
<1>3. /\ id' = id /\ latest_root' = latest_root /\ version_cache' = version_cache /\ moved' = moved
      /\ leaves' = leaves /\ down' = down
  BY DEF handlerVars
<1>4. SessionTypes'
  BY <1>2, <1>3 DEF SessionInv, SessionTypes
<1>5. LeavesFirst'
  BY <1>1, <1>3, LeavesStay
<1>6. \A g \in Handlers : g # h => Calm(g)
  BY <1>2, <1>3 DEF Calm
<1>7. LatestOK(h)'
  BY <1>1, <1>2, <1>3, LatestStays
<1>8. OnFirstBlob(h)' => CacheOK(h)'
  BY <1>1, <1>3, CacheStays, FirstBlobStays DEF SessionInv, HandlerOK
<1>9. HandlerOK(h)'
  BY <1>7, <1>8 DEF HandlerOK
<1> QED  BY <1>1, <1>3, <1>4, <1>5, <1>6, <1>9, Assembled

\* A step that ends the operation of h, or touches no session at all.
LEMMA EndStep ==
    ASSUME SessionInv, QuietCall, NEW h \in Handlers, Goto(h, Idle) \/ UNCHANGED op,
           UNCHANGED <<handlerVars, leaves>>, down \subseteq down', down' \subseteq Providers,
           faults' \in 0..MaxFaults
    PROVE  SessionInv'
<1>1. Inv' /\ FirstRoots' /\ VmGrows /\ NoneFinished /\ OpOK(Idle) /\ SessionTypes
  BY QuietCalls DEF SessionInv, OpOK, Idle
<1>2. /\ op' = [g \in Handlers |-> op'[g]] /\ \A g \in Handlers : OpOK(op'[g])
      /\ \A g \in Handlers : op'[g] = op[g] \/ op'[g] = Idle
  <2>1. CASE Goto(h, Idle)
    BY <2>1, <1>1, GotoStep
  <2>2. CASE UNCHANGED op
    BY <2>2, <1>1 DEF SessionTypes
  <2> QED  BY <2>1, <2>2
<1>3. /\ id' = id /\ latest_root' = latest_root /\ version_cache' = version_cache /\ moved' = moved
      /\ leaves' = leaves
  BY DEF handlerVars
<1>4. SessionTypes'
  BY <1>1, <1>2, <1>3 DEF SessionTypes
<1>5. LeavesFirst'
  BY <1>1, <1>3, LeavesStay
<1>6. \A g \in Handlers : Calm(g)
  BY <1>2, <1>3 DEF Calm
<1> QED  BY <1>1, <1>3, <1>4, <1>5, <1>6, Assembled

\* Calls that are lost or give up, and providers that stop.
LEMMA EndingSteps ==
    ASSUME SessionInv, NEW h \in Handlers,
           \/ \E b \in 0..MaxBlobs, version \in 0..MaxTickets : CloneFails(h, b, version)
           \/ TicketFails(h) \/ MetadataFails(h) \/ ReadFails(h)
           \/ \E q \in Providers : ProviderStops(q)
           \/ UNCHANGED <<vars, sessionVars>>
    PROVE  SessionInv'
<1>1. down \subseteq Providers
  BY DEF SessionInv, SessionTypes
<1>2. ASSUME NEW b \in 0..MaxBlobs, NEW version \in 0..MaxTickets, CloneFails(h, b, version)
      PROVE  SessionInv'
  <2>1. QuietCall /\ VmFails /\ UNCHANGED <<handlerVars, op, leaves, down>>
    BY <1>2 DEF CloneFails, QuietCall
  <2> QED  BY <1>1, <2>1, FaultStep, EndStep
<1>3. CASE TicketFails(h)
  <2>1. QuietCall
    BY <1>3 DEF TicketFails, QuietCall
  <2>2. faults' \in 0..MaxFaults
    BY <1>3, FaultStep DEF TicketFails
  <2>3. Goto(h, Idle) /\ UNCHANGED <<handlerVars, leaves, down>>
    BY <1>3 DEF TicketFails
  <2> QED  BY <1>1, <2>1, <2>2, <2>3, EndStep
<1>4. CASE MetadataFails(h)
  BY <1>1, <1>4, FaultStep, EndStep DEF MetadataFails, QuietCall
<1>5. CASE ReadFails(h)
  BY <1>1, <1>5, FaultStep, EndStep DEF ReadFails, QuietCall
<1>6. ASSUME NEW q \in Providers, ProviderStops(q)
      PROVE  SessionInv'
  BY <1>1, <1>6, FaultStep, EndStep DEF ProviderStops, QuietCall
<1>7. CASE UNCHANGED <<vars, sessionVars>>
  <2>1. QuietCall /\ UNCHANGED <<handlerVars, op, leaves, down, faults>>
    BY <1>7 DEF sessionVars, handlerVars, QuietCall
  <2> QED  BY <1>1, <2>1, FaultStep, EndStep
<1> QED  BY <1>2, <1>3, <1>4, <1>5, <1>6, <1>7

\* A root that is cached is cached under its own version.
LEMMA LookUpStep ==
    ASSUME SessionInv, NEW h \in Handlers, NEW version \in 1..(MaxTickets + 1), LookUp(h, version)
    PROVE  SessionInv'
<1> DEFINE b == id[h]
           root == Ask(b, version)
           key == root.version
           cached == [v \in DOMAIN version_cache[h] \cup {key} |->
                         IF v = key THEN root ELSE version_cache[h][v]]
<1>1. QuietCall /\ UNCHANGED <<vars, id, latest_root, moved, op, leaves, down, faults>>
      /\ op[h] = Idle
  BY DEF LookUp, QuietCall
<1>2. Inv' /\ FirstRoots' /\ VmGrows /\ NoneFinished /\ Inv /\ SessionTypes /\ HandlerOK(h)
  BY <1>1, QuietCalls DEF SessionInv
<1>3. version_cache' = [g \in Handlers |-> IF g = h THEN cached ELSE version_cache[g]]
  <2>1. version_cache' = [version_cache EXCEPT ![h] = cached]
    BY DEF LookUp, CacheKey
  <2> HIDE DEF cached
  <2> QED  BY <2>1, <1>2 DEF SessionTypes
<1>4. b \in 0..MaxBlobs /\ version \in Nat
  BY <1>2, BoundAssumption DEF SessionTypes
<1>5. root \in Root /\ (b \notin Blobs => root.version = 0)
      /\ (b \in Blobs => \E k \in 1..Len(obj_hash[b].roots) : root = obj_hash[b].roots[k])
  BY <1>4, AskFacts
<1>6. \A v \in DOMAIN cached : cached[v] \in Root
  BY <1>2, <1>5 DEF SessionTypes
<1>7. SessionTypes'
  <2>1. \A g \in Handlers : version_cache'[g] = IF g = h THEN cached ELSE version_cache[g]
    BY <1>3
  <2>2. version_cache' = [g \in Handlers |-> version_cache'[g]]
    BY <1>3
  <2>3. \A g \in Handlers : \A v \in DOMAIN version_cache'[g] : version_cache'[g][v] \in Root
    <3> HIDE DEF cached
    <3> QED  BY <2>1, <1>2, <1>6 DEF SessionTypes
  <2> HIDE DEF cached
  <2> QED  BY <2>2, <2>3, <1>1, <1>2 DEF SessionTypes
<1>8. LeavesFirst'
  BY <1>1, <1>2, LeavesStay
<1>9. \A g \in Handlers : g # h => Calm(g)
  BY <1>1, <1>3 DEF Calm
<1>10. LeafOK(h)' /\ TriedOK(h)'
  BY <1>1 DEF LeafOK, TriedOK, Idle
<1>11. LatestOK(h)'
  BY <1>1, <1>2, LatestStays
<1>12. ASSUME OnFirstBlob(h)'
       PROVE  CacheOK(h)'
  <2>1. OnFirstBlob(h) /\ CacheOK(h)
    BY <1>1, <1>2, <1>12, FirstBlobStays DEF HandlerOK
  <2>2. version_cache'[h] = cached /\ id'[h] = b /\ obj_hash' = obj_hash /\ Blobs' = Blobs
    BY <1>1, <1>3 DEF vars, Blobs
  <2> SUFFICES ASSUME NEW v \in DOMAIN cached \ {0}
               PROVE  /\ b \in Blobs /\ v \in Nat /\ v < Len(obj_hash[b].roots)
                      /\ cached[v] = obj_hash[b].roots[v + 1]
    BY <2>2 DEF CacheOK
  <2>3. CASE v = key
    <3>1. b \in Blobs /\ cached[v] = root
      BY <2>3, <1>5
    <3>2. PICK k \in 1..Len(obj_hash[b].roots) : root = obj_hash[b].roots[k]
      BY <3>1, <1>5
    <3>3. Len(obj_hash[b].roots) \in Nat
      BY <3>1, BlobFacts, <1>2
    <3>4. root.version = k - 1
      BY <2>1, <3>1, <3>2, RootVersion DEF OnFirstBlob
    <3> HIDE DEF root, cached
    <3> QED  BY <2>3, <3>1, <3>2, <3>3, <3>4
  <2>4. CASE v # key
    <3>1. v \in DOMAIN version_cache[h] \ {0} /\ cached[v] = version_cache[h][v]
      BY <2>4
    <3> QED  BY <3>1, <2>1 DEF CacheOK
  <2> QED  BY <2>3, <2>4
<1>13. HandlerOK(h)'
  BY <1>10, <1>11, <1>12 DEF HandlerOK
<1> QED  BY <1>1, <1>2, <1>7, <1>8, <1>9, <1>13, Assembled

\* Nothing is written in a tree before every page has a replica.
LEMMA WritePagesStep ==
    ASSUME SessionInv, NEW h \in Handlers, WritePages(h)
    PROVE  SessionInv'
<1>1. QuietCall /\ UNCHANGED <<handlerVars, leaves, down>>
  BY DEF WritePages, QuietCall
<1>2. PICK acked \in [Pages -> SUBSET (Providers \ down)], held \in [Pages -> SUBSET (Providers \ down)] :
         /\ Fault(Lost(acked)) /\ \A p \in Pages : acked[p] \subseteq held[p]
         /\ IF AllPagesWritten(acked) THEN Goto(h, [pc |-> "ticket", held |-> held]) ELSE UNCHANGED op
  BY DEF WritePages
<1>3. Lost(acked) \in Nat
  <2>1. WriteSize \in Nat /\ PageSize \in Nat \ {0}
    BY Workload, RequestAssumption
  <2>2. WriteSize \div PageSize - 1 \in Int
    BY <2>1
  <2>3. IsFiniteSet(Pages)
    BY <2>2, FS_Interval DEF Pages
  <2>4. {p \in Pages : acked[p] # Providers \ down} \subseteq Pages
    OBVIOUS
  <2>5. IsFiniteSet({p \in Pages : acked[p] # Providers \ down})
    BY <2>3, <2>4, FS_Subset
  <2> QED  BY <2>5, FS_CardinalityType DEF Lost
<1>4. faults' \in 0..MaxFaults
  BY <1>2, <1>3, FaultStep
<1>5. CASE AllPagesWritten(acked)
  <2> DEFINE o == [pc |-> "ticket", held |-> held]
  <2>1. Goto(h, o)
    BY <1>2, <1>5
  <2>2. held \in Held
    BY <1>2, <1>5 DEF Held, AllPagesWritten
  <2>3. OpOK(o) /\ o.pc = "ticket"
    BY <2>2 DEF OpOK
  <2> HIDE DEF o
  <2>4. op'[h] = o
    BY <2>1, <2>3, GotoStep
  <2>5. LeafOK(h)' /\ TriedOK(h)'
    BY <2>3, <2>4 DEF LeafOK, TriedOK
  <2> QED  BY <1>1, <1>4, <2>1, <2>3, <2>5, OpStep
<1>6. CASE ~AllPagesWritten(acked)
  <2>1. UNCHANGED op /\ down' \subseteq Providers
    BY <1>1, <1>2, <1>6 DEF SessionInv, SessionTypes
  <2> QED  BY <1>1, <1>4, <2>1, EndStep
<1> QED  BY <1>5, <1>6

\* A ticket is later than every version completed before.
LEMMA TicketStep ==
    ASSUME SessionInv, NEW h \in Handlers, Ticket(h)
    PROVE  SessionInv'
<1> DEFINE b == id[h]
           v == obj_hash[b].current_ticket
           o == [pc |-> "metadata", held |-> op[h].held, version |-> v]
<1>1. QuietCall /\ UNCHANGED <<handlerVars, leaves, down>> /\ UNCHANGED faults
      /\ op[h].pc = "ticket" /\ Goto(h, o) /\ get_ticket(b, 0, WriteSize, FALSE)
  BY DEF Ticket, QuietCall
<1>2. Inv' /\ VmGrows /\ Inv
  BY <1>1, QuietCalls DEF SessionInv
<1>3. b \in Blobs /\ v <= MaxTickets
  BY <1>1 DEF get_ticket, TicketRequest
<1>4. v \in 1..MaxTickets /\ v \in Nat
  <2>1. IsObjInfo(obj_hash[b])
    BY <1>2, <1>3 DEF Inv, TypeOK
  <2>2. v \in 1..(MaxTickets + 1) /\ MaxTickets \in Nat
    BY <2>1, BoundAssumption DEF IsObjInfo
  <2> QED  BY <2>2, <1>3
<1>5. b \in Blobs' /\ v < obj_hash'[b].current_ticket
  <2>1. \E off, m : obj_hash'[b] = Ticketed(obj_hash[b], b, off, WriteSize, m)
    BY <1>1, <1>2, <1>3 DEF get_ticket, Inv, TypeOK
  <2>2. obj_hash'[b].current_ticket = v + 1
    BY <2>1 DEF Ticketed
  <2> QED  BY <1>2, <1>3, <1>4, <2>2 DEF VmGrows
<1>6. op[h].held \in Held
  BY <1>1 DEF SessionInv, SessionTypes, OpOK
<1>7. OpOK(o) /\ o.pc = "metadata" /\ o.version = v
  BY <1>4, <1>6 DEF OpOK
<1> HIDE DEF o
<1>8. op'[h] = o /\ id'[h] = b /\ latest_root'[h] = latest_root[h] /\ moved' = moved
  BY <1>1, <1>7, GotoStep DEF handlerVars
<1>9. LeafOK(h)' /\ TriedOK(h)'
  BY <1>7, <1>8 DEF LeafOK, TriedOK
<1>10. LatestOK(h) /\ latest_root[h].version \in Nat
  BY DEF SessionInv, HandlerOK, SessionTypes, Root
<1>11. ASSUME OnFirstBlob(h)'
       PROVE  /\ latest_root[h].version < v
              /\ latest_root[h].version # 0 => Finished(obj_hash'[b], latest_root[h].version)
  <2>1. OnFirstBlob(h)
    BY <1>2, <1>8, <1>11, FirstBlobStays
  <2>2. latest_root[h].version # 0 => Finished(obj_hash[b], latest_root[h].version)
    BY <2>1, <1>10 DEF LatestOK
  <2>3. latest_root[h].version # 0 => latest_root[h].version < v
    BY <2>2 DEF Finished
  <2> QED  BY <2>2, <2>3, <1>2, <1>3, <1>4, <1>10 DEF VmGrows
<1>12. LatestOK(h)'
  BY <1>5, <1>7, <1>8, <1>11 DEF LatestOK
<1>13. faults' \in 0..MaxFaults
  BY <1>1, FaultStep
<1> HIDE DEF b, v
<1> QED  BY <1>1, <1>7, <1>9, <1>12, <1>13, OpStep

\* The leaves are written before VMGR_PUBLISH is called.
LEMMA WriteMetadataStep ==
    ASSUME SessionInv, NEW h \in Handlers, WriteMetadata(h)
    PROVE  SessionInv'
<1> DEFINE key == <<id[h], op[h].version>>
           o == [pc |-> "publish", version |-> op[h].version]
<1>1. QuietCall /\ UNCHANGED <<vars, handlerVars, down, faults>> /\ op[h].pc = "metadata" /\ Goto(h, o)
      /\ leaves' = [k \in DOMAIN leaves \cup {key} |-> IF k = key THEN op[h].held ELSE leaves[k]]
  BY DEF WriteMetadata, QuietCall
<1>2. Inv' /\ FirstRoots' /\ VmGrows /\ NoneFinished /\ Inv /\ SessionTypes /\ HandlerOK(h)
  BY <1>1, QuietCalls DEF SessionInv
<1>3. op[h].held \in Held /\ op[h].version \in 1..MaxTickets
  BY <1>1, <1>2 DEF SessionTypes, OpOK
<1>4. OpOK(o)
  BY <1>3 DEF OpOK
<1>5. /\ op' = [g \in Handlers |-> op'[g]] /\ \A g \in Handlers : OpOK(op'[g])
      /\ op'[h] = o /\ \A g \in Handlers : g # h => op'[g] = op[g]
  BY <1>1, <1>4, GotoStep
<1>6. /\ DOMAIN leaves' = DOMAIN leaves \cup {key}
      /\ \A k \in DOMAIN leaves' : leaves'[k] \in Held
  BY <1>1, <1>2, <1>3 DEF SessionTypes
<1>7. /\ id' = id /\ latest_root' = latest_root /\ version_cache' = version_cache /\ moved' = moved
      /\ down' = down /\ faults' = faults /\ obj_hash' = obj_hash /\ Blobs' = Blobs
  BY <1>1 DEF handlerVars, vars, Blobs
<1>8. SessionTypes'
  BY <1>2, <1>5, <1>6, <1>7 DEF SessionTypes
<1>9. LeavesFirst'
  BY <1>2, <1>6, LeavesStay
<1>10. \A g \in Handlers : g # h => Calm(g)
  BY <1>5, <1>7 DEF Calm
<1>11. o.pc = "publish" /\ o.version = op[h].version
  OBVIOUS
<1> HIDE DEF o
<1>12. LeafOK(h)' /\ TriedOK(h)'
  BY <1>5, <1>6, <1>7, <1>11 DEF LeafOK, TriedOK
<1>13. OnFirstBlob(h)' <=> OnFirstBlob(h)
  BY <1>7 DEF OnFirstBlob
<1>14. LatestOK(h)'
  BY <1>1, <1>2, <1>5, <1>7, <1>11, <1>13 DEF HandlerOK, LatestOK
<1>15. OnFirstBlob(h)' => CacheOK(h)'
  BY <1>2, <1>7, <1>13 DEF HandlerOK, CacheOK
<1>16. HandlerOK(h)'
  BY <1>12, <1>14, <1>15 DEF HandlerOK
<1> QED  BY <1>2, <1>6, <1>7, <1>8, <1>9, <1>10, <1>16, Assembled

\* The handler takes its own version for the latest.
LEMMA PublishStep ==
    ASSUME SessionInv, NEW h \in Handlers, Publish(h)
    PROVE  SessionInv'
<1> DEFINE b == id[h]
           v == op[h].version
           root == [latest_root[h] EXCEPT !.version = v]
<1>1. /\ UNCHANGED <<id, version_cache, moved, leaves, down, faults>> /\ Goto(h, Idle)
      /\ op[h].pc = "publish" /\ publish(b, v)
      /\ latest_root' = [latest_root EXCEPT ![h] = root]
  BY DEF Publish
<1>2. Inv' /\ FirstRoots' /\ VmGrows /\ b \in Blobs /\ OneFinished(b, v) /\ Finished(obj_hash'[b], v)
  BY <1>1, PublishCalls
<1>3. Inv /\ SessionTypes /\ HandlerOK(h)
  BY DEF SessionInv
<1>4. v \in Nat /\ latest_root \in [Handlers -> Root]
      /\ \A g \in Handlers : latest_root[g].id <= MaxBlobs
  BY <1>1, <1>3, BoundAssumption DEF SessionTypes, OpOK
<1>5. root \in Root /\ root.version = v /\ root.id = latest_root[h].id
  BY <1>4 DEF Root
<1> HIDE DEF root
<1>6. /\ latest_root' \in [Handlers -> Root] /\ latest_root'[h] = root
      /\ \A g \in Handlers : g # h => latest_root'[g] = latest_root[g]
  BY <1>1, <1>4, <1>5
<1>7. \A g \in Handlers : latest_root'[g].id <= MaxBlobs
  BY <1>4, <1>5, <1>6
<1>8. OpOK(Idle)
  BY DEF OpOK, Idle
<1>9. /\ op' = [g \in Handlers |-> op'[g]] /\ \A g \in Handlers : OpOK(op'[g])
      /\ op'[h] = Idle /\ \A g \in Handlers : g # h => op'[g] = op[g]
  BY <1>1, <1>8, GotoStep
<1>10. SessionTypes'
  BY <1>1, <1>3, <1>6, <1>7, <1>9 DEF SessionTypes
<1>11. <<b, v>> \in DOMAIN leaves'
  BY <1>1, <1>3 DEF HandlerOK, LeafOK
<1>12. LeavesFirst'
  BY <1>1, <1>2, <1>11, LeavesStay
<1>13. \A g \in Handlers : g # h => Calm(g)
  BY <1>1, <1>6, <1>9 DEF Calm
<1>14. LeafOK(h)' /\ TriedOK(h)'
  BY <1>9 DEF LeafOK, TriedOK, Idle
<1>15. LatestOK(h)'
  <2>1. b \in Blobs' /\ id'[h] = b
    BY <1>1, <1>2 DEF VmGrows
  <2> QED  BY <2>1, <1>2, <1>5, <1>6, <1>9 DEF LatestOK, Idle
<1>16. OnFirstBlob(h)' => CacheOK(h)'
  BY <1>1, <1>2, <1>3, CacheStays, FirstBlobStays DEF HandlerOK
<1>17. HandlerOK(h)'
  BY <1>14, <1>15, <1>16 DEF HandlerOK
<1> HIDE DEF b, v
<1> QED  BY <1>1, <1>2, <1>10, <1>12, <1>13, <1>17, Assembled

\* The version is completed although its writer does not know.
LEMMA PublishFailsStep ==
    ASSUME SessionInv, NEW h \in Handlers, PublishFails(h)
    PROVE  SessionInv'
<1>1. /\ op[h].pc = "publish" /\ Goto(h, Idle) /\ UNCHANGED <<handlerVars, leaves, down>>
      /\ publish(id[h], op[h].version) \/ UNCHANGED vars
  BY DEF PublishFails
<1>2. faults' \in 0..MaxFaults
  BY FaultStep DEF PublishFails
<1>3. SessionTypes /\ HandlerOK(h)
  BY DEF SessionInv
<1>4. CASE UNCHANGED vars
  BY <1>1, <1>2, <1>3, <1>4, EndStep DEF QuietCall, SessionTypes
<1>5. CASE publish(id[h], op[h].version)
  <2>1. Inv' /\ FirstRoots' /\ VmGrows /\ OneFinished(id[h], op[h].version)
    BY <1>5, PublishCalls
  <2>2. OpOK(Idle)
    BY DEF OpOK, Idle
  <2>3. /\ op' = [g \in Handlers |-> op'[g]] /\ \A g \in Handlers : OpOK(op'[g])
        /\ op'[h] = Idle /\ \A g \in Handlers : g # h => op'[g] = op[g]
    BY <1>1, <2>2, GotoStep
  <2>4. /\ id' = id /\ latest_root' = latest_root /\ version_cache' = version_cache /\ moved' = moved
        /\ leaves' = leaves /\ down' = down
    BY <1>1 DEF handlerVars
  <2>5. SessionTypes'
    BY <1>2, <1>3, <2>3, <2>4 DEF SessionTypes
  <2>6. <<id[h], op[h].version>> \in DOMAIN leaves'
    BY <1>1, <1>3, <2>4 DEF HandlerOK, LeafOK
  <2>7. LeavesFirst'
    BY <2>1, <2>4, <2>6, LeavesStay
  <2>8. \A g \in Handlers : Calm(g)
    BY <2>3, <2>4 DEF Calm
  <2> QED  BY <2>1, <2>4, <2>5, <2>7, <2>8, Assembled
<1> QED  BY <1>1, <1>4, <1>5

\* read: the leaf found is that of a published version or of a write of its
\* own.
LEMMA ReadStep ==
    ASSUME SessionInv, NEW h \in Handlers, NEW version, NEW p \in Pages, NEW partial,
           Read(h, version, p, partial)
    PROVE  SessionInv'
<1> DEFINE root == RootFor(h, version)
           key == <<root.id, root.version>>
           o == [pc |-> "read", held |-> leaves[key][p], partial |-> partial, untried |-> Providers,
                 lost |-> {}]
<1>1. QuietCall /\ UNCHANGED <<handlerVars, leaves, down>> /\ UNCHANGED faults
      /\ key \in DOMAIN leaves /\ Goto(h, o)
  BY DEF Read, QuietCall
<1>2. leaves[key] \in Held
  BY <1>1 DEF SessionInv, SessionTypes
<1>3. leaves[key][p] \subseteq Providers
  BY <1>2 DEF Held
<1>4. OpOK(o) /\ o.pc = "read" /\ o.held \subseteq o.untried
  BY <1>3 DEF OpOK
<1> HIDE DEF o
<1>5. op'[h] = o
  BY <1>1, <1>4, GotoStep
<1>6. LeafOK(h)' /\ TriedOK(h)'
  BY <1>4, <1>5 DEF LeafOK, TriedOK
<1>7. faults' \in 0..MaxFaults
  BY <1>1, FaultStep
<1> QED  BY <1>1, <1>4, <1>6, <1>7, OpStep

\* A replica that did not serve a whole page is down, does not hold it, or is
\* one more that failed to answer.
LEMMA TryReplicaStep ==
    ASSUME SessionInv, NEW h \in Handlers, NEW q \in Providers, TryReplica(h, q)
    PROVE  SessionInv'
<1> DEFINE o == op[h]
           left == o.untried \ {q}
           next == [pc |-> IF left = {} THEN "aborted" ELSE "read", held |-> o.held,
                    partial |-> o.partial, untried |-> left,
                    lost |-> IF CanServe(o, q) THEN o.lost \cup {q} ELSE o.lost]
<1>1. QuietCall /\ UNCHANGED <<handlerVars, leaves, down>> /\ UNCHANGED faults
      /\ o.pc = "read" /\ q \in o.untried
      /\ (Goto(h, Idle) \/ Goto(h, next))
  BY DEF TryReplica, QuietCall, Untried
<1>2. OpOK(o) /\ TriedOK(h)
  BY DEF SessionInv, SessionTypes, HandlerOK
<1>3. faults' \in 0..MaxFaults
  BY <1>1, FaultStep
<1>4. down \subseteq Providers
  BY DEF SessionInv, SessionTypes
<1>5. o.held \subseteq Providers /\ o.untried \subseteq Providers
  BY <1>1, <1>2 DEF OpOK
<1>6. ~o.partial => o.held \subseteq down \cup o.lost \cup o.untried
  BY <1>1, <1>2 DEF TriedOK
<1>7. ~o.partial => (q \in o.held \ down => CanServe(o, q))
  BY DEF CanServe
<1>8. CASE Goto(h, Idle)
  BY <1>1, <1>3, <1>4, <1>8, EndStep
<1>9. CASE Goto(h, next)
  <2>1. /\ next.pc = (IF left = {} THEN "aborted" ELSE "read") /\ next.held = o.held
        /\ next.partial = o.partial /\ next.untried = left
        /\ next.lost = IF CanServe(o, q) THEN o.lost \cup {q} ELSE o.lost
    OBVIOUS
  <2> HIDE DEF next
  <2>2. OpOK(next) /\ next.pc \in {"read", "aborted"}
    BY <1>5, <2>1 DEF OpOK
  <2>3. op'[h] = next
    BY <1>9, <2>2, GotoStep
  <2>4. ~next.partial => next.held \subseteq down \cup next.lost \cup left
    BY <1>6, <1>7, <2>1
  <2>5. LeafOK(h)' /\ TriedOK(h)'
    BY <1>1, <2>1, <2>2, <2>3, <2>4 DEF LeafOK, TriedOK
  <2> QED  BY <1>1, <1>3, <1>9, <2>2, <2>5, OpStep
<1> QED  BY <1>1, <1>8, <1>9

-----------------------------------------------------------------------------
(* The invariant holds, and what follows from it *)

\* Sessions start on no blob.
LEMMA SessionInitInv == SessionInit => SessionInv
<1> SUFFICES ASSUME SessionInit PROVE SessionInv
  OBVIOUS
<1>1. Inv
  BY InitInv DEF SessionInit
<1>2. Blobs = {}
  BY DEF SessionInit, Init, Blobs
<1>3. /\ id = [h \in Handlers |-> 0] /\ latest_root = [h \in Handlers |-> EmptyRoot]
      /\ version_cache = [h \in Handlers |-> << >>] /\ op = [h \in Handlers |-> Idle]
      /\ leaves = << >> /\ down = {} /\ faults = 0 /\ moved = {}
  BY DEF SessionInit
<1>4. SessionTypes
  <2>1. MaxBlobs \in Nat /\ MaxFaults \in Nat
    BY BoundAssumption, SessionAssumption
  <2>2. EmptyRoot \in Root /\ EmptyRoot.id = 0 /\ OpOK(Idle) /\ DOMAIN << >> = {}
    BY DEF EmptyRoot, Root, OpOK, Idle
  <2>3. id \in [Handlers -> 0..MaxBlobs] /\ faults \in 0..MaxFaults /\ down \subseteq Providers
    BY <1>3, <2>1
  <2>4. latest_root \in [Handlers -> Root] /\ \A h \in Handlers : latest_root[h].id <= MaxBlobs
    BY <1>3, <2>1, <2>2
  <2>5. /\ version_cache = [h \in Handlers |-> version_cache[h]]
        /\ \A h \in Handlers : \A v \in DOMAIN version_cache[h] : version_cache[h][v] \in Root
    BY <1>3, <2>2
  <2>6. op = [h \in Handlers |-> op[h]] /\ \A h \in Handlers : OpOK(op[h])
    BY <1>3, <2>2
  <2>7. \A k \in DOMAIN leaves : leaves[k] \in Held
    BY <1>3, <2>2
  <2> QED  BY <2>3, <2>4, <2>5, <2>6, <2>7 DEF SessionTypes
<1>5. FirstRoots /\ LeavesFirst
  BY <1>2 DEF FirstRoots, LeavesFirst
<1>6. ASSUME NEW h \in Handlers
      PROVE  HandlerOK(h)
  <2>1. op[h] = Idle /\ latest_root[h].version = 0 /\ DOMAIN version_cache[h] = {}
    BY <1>3 DEF EmptyRoot
  <2> QED  BY <2>1 DEF HandlerOK, LeafOK, CacheOK, LatestOK, TriedOK, Idle
<1> QED  BY <1>1, <1>4, <1>5, <1>6 DEF SessionInv

\* Every step of a session, a provider or the version manager preserves the
\* invariant.
LEMMA SessionNextInv == SessionInv /\ [SessionNext]_<<vars, sessionVars>> => SessionInv'
<1> SUFFICES ASSUME SessionInv, [SessionNext]_<<vars, sessionVars>> PROVE SessionInv'
  OBVIOUS
<1>1. ASSUME NEW h \in Handlers, HandlerNext(h)
      PROVE  SessionInv'
  <2>1. CASE Create(h)  BY <2>1, CreateStep
  <2>2. CASE CreateFails(h)  BY <2>2, CreateFailsStep
  <2>3. ASSUME NEW b \in 0..MaxBlobs, GetLatest(h, b)
        PROVE  SessionInv'
    BY <2>3, GetLatestStep
  <2>4. ASSUME NEW b \in 0..MaxBlobs, GetLatestFails(h, b)
        PROVE  SessionInv'
    BY <2>4, GetLatestFailsStep
  <2>5. ASSUME NEW b \in 0..MaxBlobs, NEW version \in 0..MaxTickets, Clone(h, b, version)
        PROVE  SessionInv'
    BY <2>5, CloneStep
  <2>6. ASSUME NEW b \in 0..MaxBlobs, NEW version \in 0..MaxTickets, CloneFails(h, b, version)
        PROVE  SessionInv'
    BY <2>6, EndingSteps
  <2>7. ASSUME NEW version \in 1..(MaxTickets + 1), LookUp(h, version)
        PROVE  SessionInv'
    BY <2>7, LookUpStep
  <2>8. CASE WritePages(h)  BY <2>8, WritePagesStep
  <2>9. CASE Ticket(h)  BY <2>9, TicketStep
  <2>10. CASE TicketFails(h) \/ MetadataFails(h) \/ ReadFails(h)  BY <2>10, EndingSteps
  <2>11. CASE WriteMetadata(h)  BY <2>11, WriteMetadataStep
  <2>12. CASE Publish(h)  BY <2>12, PublishStep
  <2>13. CASE PublishFails(h)  BY <2>13, PublishFailsStep
  <2>14. ASSUME NEW version \in 0..MaxTickets, NEW p \in Pages, NEW partial \in BOOLEAN,
                Read(h, version, p, partial)
         PROVE  SessionInv'
    BY <2>14, ReadStep
  <2>15. ASSUME NEW q \in Providers, TryReplica(h, q)
         PROVE  SessionInv'
    BY <2>15, TryReplicaStep
  <2> QED  BY <1>1, <2>1, <2>2, <2>3, <2>4, <2>5, <2>6, <2>7, <2>8, <2>9, <2>10, <2>11, <2>12, <2>13,
              <2>14, <2>15, Zenon DEF HandlerNext
<1>2. ASSUME (\E q \in Providers : ProviderStops(q)) \/ UNCHANGED <<vars, sessionVars>>
      PROVE  SessionInv'
  <2>1. CASE Handlers # {}
    BY <1>2, <2>1, EndingSteps
  <2>2. CASE Handlers = {}
    <3>1. QuietCall /\ UNCHANGED <<handlerVars, op, leaves>> /\ UNCHANGED vars
          /\ down \subseteq down' /\ down' \subseteq Providers
      BY <1>2 DEF SessionInv, SessionTypes, ProviderStops, QuietCall, sessionVars, handlerVars
    <3>2. Inv' /\ FirstRoots' /\ VmGrows /\ NoneFinished
      BY <3>1, QuietCalls
    <3>3. LeavesFirst'
      BY <3>1, <3>2, LeavesStay
    <3>4. faults' \in 0..MaxFaults
      BY <1>2, FaultStep DEF ProviderStops, sessionVars
    <3>5. SessionTypes'
      BY <3>1, <3>4, <2>2 DEF SessionInv, SessionTypes, handlerVars
    <3> QED  BY <3>1, <3>2, <3>3, <3>5, <2>2, Assembled
  <2> QED  BY <2>1, <2>2
<1> QED  BY <1>1, <1>2 DEF SessionNext

\* What follows from the invariant in one state.
LEMMA SessionInvImplies == SessionInv => VersionCacheRight /\ PublishedPagesStored /\ ReadFindsReplica
<1> SUFFICES ASSUME SessionInv PROVE VersionCacheRight /\ PublishedPagesStored /\ ReadFindsReplica
  OBVIOUS
<1>1. VersionCacheRight
  <2>1. ASSUME NEW h \in Handlers, Settled(h)
        PROVE  CacheOK(h)
    BY <2>1 DEF Settled, OnFirstBlob, SessionInv, HandlerOK
  <2> QED  BY <2>1 DEF VersionCacheRight, CacheOK
<1>2. SessionTypeOK
  <2>1. \A f \in Held : f \in [Pages -> SUBSET Providers]
    BY DEF Held
  <2> QED  BY <2>1 DEF SessionInv, SessionTypes, SessionTypeOK, OpOK
<1>3. ASSUME NEW b \in Blobs, NEW k \in 2..Len(obj_hash[b].roots)
      PROVE  <<b, k - 1>> \in DOMAIN leaves /\ \A p \in Pages : leaves[<<b, k - 1>>][p] # {}
  <2>1. ObjOK(b, obj_hash[b]) /\ Len(obj_hash[b].roots) \in Nat
    BY BlobFacts DEF SessionInv
  <2>2. /\ obj_hash[b].current_ticket \in 1..(MaxTickets + 1) /\ MaxTickets \in Nat
        /\ Len(obj_hash[b].roots) <= obj_hash[b].current_ticket
    BY <2>1, BoundAssumption DEF ObjOK, IsObjInfo, Consecutive
  <2>3. /\ k - 1 \in 1..MaxTickets
        /\ k - 1 < Len(obj_hash[b].roots) /\ k - 1 < obj_hash[b].current_ticket
    BY <2>1, <2>2
  <2>4. <<b, k - 1>> \in DOMAIN leaves
    BY <2>3 DEF Finished, SessionInv, LeavesFirst
  <2>5. leaves[<<b, k - 1>>] \in Held
    BY <2>4 DEF SessionInv, SessionTypes
  <2> QED  BY <2>4, <2>5 DEF Held
<1>4. PublishedPagesStored
  BY <1>2, <1>3 DEF PublishedPagesStored
<1>5. ReadFindsReplica
  BY DEF SessionInv, HandlerOK, TriedOK, ReadFindsReplica
<1> QED  BY <1>1, <1>4, <1>5

\* A handler that stays on one created blob never reads a version from its
\* cache that is another one, whatever others publish meanwhile (get_root).
THEOREM CachedVersionsRight == SessionSpec => []VersionCacheRight
<1>1. SessionInv => VersionCacheRight
  BY SessionInvImplies
<1> QED  BY <1>1, SessionInitInv, SessionNextInv, PTL DEF SessionSpec

\* Whatever pages, tickets, metadata, replies or providers are lost on the way,
\* a published version has its leaves and a replica of each page (exec_write).
THEOREM PublishedVersionsStored == SessionSpec => []PublishedPagesStored
<1>1. SessionInv => PublishedPagesStored
  BY SessionInvImplies
<1> QED  BY <1>1, SessionInitInv, SessionNextInv, PTL DEF SessionSpec

\* The read of a whole page gives up only when every provider that holds the
\* page is down or failed to answer this read (rpc_provider_callback).
THEOREM ReadsFindReplicas == SessionSpec => []ReadFindsReplica
<1>1. SessionInv => ReadFindsReplica
  BY SessionInvImplies
<1> QED  BY <1>1, SessionInitInv, SessionNextInv, PTL DEF SessionSpec

\* Which steps change the root a handler saw last.
LEMMA RootChanges ==
    ASSUME SessionInv, [SessionNext]_<<vars, sessionVars>>, NEW h \in Handlers,
           latest_root'[h] # latest_root[h]
    PROVE  \/ Create(h) \/ Publish(h)
           \/ \E b \in 0..MaxBlobs : GetLatest(h, b) \/ \E version \in 0..MaxTickets : Clone(h, b, version)
<1>1. latest_root = [g \in Handlers |-> latest_root[g]]
  BY DEF SessionInv, SessionTypes
<1>2. \A g \in Handlers : \A b, root : MoveTo(g, b, root) => latest_root' = [latest_root EXCEPT ![g] = root]
  BY DEF MoveTo
<1>3. \A g \in Handlers : (CreateFails(g) \/ \E b \in 0..MaxBlobs : GetLatestFails(g, b)) =>
          latest_root' = [latest_root EXCEPT ![g] = latest_root[g]]
  BY <1>2 DEF CreateFails, GetLatestFails
<1>4. \A g \in Handlers : (CreateFails(g) \/ \E b \in 0..MaxBlobs : GetLatestFails(g, b)) =>
          latest_root' = latest_root
  BY <1>1, <1>3
<1>5. UNCHANGED handlerVars => latest_root' = latest_root
  BY DEF handlerVars
<1>6. PICK g \in Handlers : HandlerNext(g)
  <2>1. UNCHANGED <<vars, sessionVars>> => latest_root' = latest_root
    BY DEF sessionVars
  <2>2. \A q : ProviderStops(q) => latest_root' = latest_root
    BY <1>5 DEF ProviderStops
  <2> QED  BY <2>1, <2>2, Zenon DEF SessionNext
<1>7. latest_root' # latest_root
  OBVIOUS
<1>8. \/ Create(g) \/ Publish(g)
      \/ \E b \in 0..MaxBlobs : GetLatest(g, b) \/ \E version \in 0..MaxTickets : Clone(g, b, version)
  <2>1. ~CreateFails(g) /\ ~\E b \in 0..MaxBlobs : GetLatestFails(g, b)
    BY <1>4, <1>7
  <2>2. \A b, version : ~CloneFails(g, b, version)
    BY <1>5, <1>7 DEF CloneFails
  <2>3. \A version : ~LookUp(g, version)
    BY <1>7 DEF LookUp
  <2>4. ~WritePages(g) /\ ~Ticket(g) /\ ~TicketFails(g) /\ ~WriteMetadata(g) /\ ~MetadataFails(g)
    BY <1>5, <1>7 DEF WritePages, Ticket, TicketFails, WriteMetadata, MetadataFails
  <2>5. ~PublishFails(g) /\ ~ReadFails(g) /\ \A q : ~TryReplica(g, q)
    BY <1>5, <1>7 DEF PublishFails, ReadFails, TryReplica
  <2>6. \A version, p, partial : ~Read(g, version, p, partial)
    BY <1>5, <1>7 DEF Read
  <2> QED  BY <1>6, <2>1, <2>2, <2>3, <2>4, <2>5, <2>6, Zenon DEF HandlerNext
<1>9. g = h
  <2>1. \E root : latest_root' = [latest_root EXCEPT ![g] = root]
    <3>1. CASE Publish(g)
      BY <3>1 DEF Publish
    <3>2. CASE Create(g)
      BY <1>2, <3>2 DEF Create
    <3>3. CASE \E b \in 0..MaxBlobs : GetLatest(g, b) \/ \E version \in 0..MaxTickets : Clone(g, b, version)
      BY <1>2, <3>3 DEF GetLatest, Clone
    <3> QED  BY <1>8, <3>1, <3>2, <3>3
  <2> QED  BY <1>1, <2>1
<1> QED  BY <1>8, <1>9

\* A handler that moves to a new blob is not settled after it.
LEMMA NewBlobUnsettles ==
    ASSUME SessionInv, NEW h \in Handlers, Settled(h), NEW root, MoveTo(h, obj_count + 1, root)
    PROVE  ~Settled(h)'
<1>1. obj_count \in Nat
  BY BoundAssumption DEF SessionInv, Inv, TypeOK
<1>2. id[h] \in 1..obj_count
  BY DEF Settled, Blobs
<1>3. id[h] \notin {0, obj_count + 1}
  BY <1>1, <1>2
<1>4. h \in moved'
  BY <1>3 DEF MoveTo
<1> QED  BY <1>4 DEF Settled

\* The version a settled handler sees goes back only behind a writer with an
\* earlier ticket (exec_write and get_latest).
THEOREM BackOnlyBehindWriter == SessionSpec => StepsBackOnlyBehindWriter
<1>1. ASSUME SessionInv, [SessionNext]_<<vars, sessionVars>>, NEW h \in Handlers,
             Settled(h), Settled(h)', latest_root'[h].version < latest_root[h].version
      PROVE  \E u \in DOMAIN obj_hash[id[h]].intervals :
                u < latest_root[h].version /\ ~obj_hash[id[h]].intervals[u].done
  <2> DEFINE b == id[h]
             last == latest_root[h].version
             o == obj_hash[b]
             len == Len(o.roots)
  <2>1. last \in Nat /\ HandlerOK(h) /\ Inv
    BY <1>1 DEF SessionInv, SessionTypes, Root
  <2>2. latest_root'[h] # latest_root[h]
    BY <1>1, <2>1
  <2>3. \/ Create(h) \/ Publish(h)
        \/ \E x \in 0..MaxBlobs : GetLatest(h, x) \/ \E version \in 0..MaxTickets : Clone(h, x, version)
    BY <1>1, <2>2, RootChanges
  <2>4. OnFirstBlob(h) /\ b \in Blobs /\ o.roots[1].id = b
    BY <1>1 DEF Settled, OnFirstBlob
  <2>5. ~Create(h)
    BY <1>1, NewBlobUnsettles DEF Create, create, AddBlob
  <2>6. \A x, version : ~Clone(h, x, version)
    BY <1>1, NewBlobUnsettles DEF Clone, clone, AddBlob
  <2>7. ~Publish(h)
    <3> SUFFICES ASSUME Publish(h) PROVE FALSE
      OBVIOUS
    <3>1. op[h].pc = "publish" /\ latest_root' = [latest_root EXCEPT ![h].version = op[h].version]
      BY DEF Publish
    <3>2. latest_root'[h].version = op[h].version /\ op[h].version \in Nat
      BY <1>1, <3>1, BoundAssumption DEF SessionInv, SessionTypes, OpOK, Root
    <3>3. last < op[h].version
      BY <2>1, <2>4, <3>1 DEF HandlerOK, LatestOK
    <3> QED  BY <1>1, <2>1, <3>2, <3>3
  <2>8. PICK x \in 0..MaxBlobs : GetLatest(h, x)
    BY <2>3, <2>5, <2>6, <2>7
  <2>9. Named(h, x) = b /\ latest_root'[h] = Ask(b, 0)
    <3>1. MoveTo(h, Named(h, x), Ask(Named(h, x), 0))
      BY <2>8 DEF GetLatest
    <3>2. h \notin moved' /\ moved' = moved \cup {g \in {h} : id[g] \notin {0, Named(h, x)}}
      BY <1>1, <3>1 DEF MoveTo, Settled
    <3>3. b # 0
      BY <2>4 DEF Blobs
    <3>4. Named(h, x) = b
      BY <3>2, <3>3
    <3> QED  BY <1>1, <3>1, <3>4 DEF MoveTo, SessionInv, SessionTypes
  <2>10. ObjOK(b, o) /\ len \in Nat \ {0} /\ o.current_ticket \in Nat
    BY <2>1, <2>4, BlobFacts
  <2>11. latest_root'[h].version = len - 1
    <3>1. Ask(b, 0) = o.roots[len]
      BY <2>4 DEF Ask, GetRoot, LatestRoot
    <3>2. len \in 1..len
      BY <2>10
    <3>3. o.roots[len].version = len - 1
      BY <1>1, <2>4, <3>2, RootVersion
    <3> QED  BY <2>9, <3>1, <3>3
  <2>12. len <= last /\ last # 0
    BY <1>1, <2>1, <2>10, <2>11
  <2>13. Finished(o, last)
    BY <2>1, <2>4, <2>12 DEF HandlerOK, LatestOK
  <2>14. last < o.current_ticket /\ o.intervals[last].done
    BY <2>1, <2>10, <2>12, <2>13 DEF Finished
  <2>15. len \in DOMAIN o.intervals /\ ~o.intervals[len].done
    <3>1. len < o.current_ticket
      BY <2>1, <2>10, <2>12, <2>14
    <3>2. len \in len..(o.current_ticket - 1)
      BY <2>10, <3>1
    <3> QED  BY <2>10, <3>1, <3>2 DEF ObjOK, Consecutive
  <2>16. len # last
    BY <2>14, <2>15, Zenon
  <2>17. len < last
    BY <2>1, <2>10, <2>12, <2>16
  <2> QED  BY <2>15, <2>17
<1>2. SessionInv /\ [SessionNext]_<<vars, sessionVars>> =>
        [\A h \in Handlers :
            (Settled(h) /\ Settled(h)' /\ latest_root'[h].version < latest_root[h].version) =>
                \E u \in DOMAIN obj_hash[id[h]].intervals :
                    u < latest_root[h].version /\ ~obj_hash[id[h]].intervals[u].done
        ]_<<vars, sessionVars>>
  BY <1>1
<1> QED  BY <1>2, SessionInitInv, SessionNextInv, PTL DEF SessionSpec, StepsBackOnlyBehindWriter

-----------------------------------------------------------------------------
(* How read cuts a range into requests: arithmetic of the division by the   *)
(* page size, for every range and every page size.                          *)

\* The range in pages: it starts at byte a of its first page and ends after
\* byte e of the n-th page after it.
LEMMA RangeInPages ==
    ASSUME NEW offset \in Nat, NEW size \in Nat \ {0}, NEW ps \in Nat \ {0}
    PROVE  \E n \in Nat :
              /\ size + (offset % ps) = n * ps + ((offset + size) % ps)
              /\ (size + offset - (offset \div ps) * ps) \div ps = n
              /\ n * ps \in Nat
<1> DEFINE q == offset \div ps
           a == offset % ps
           b == (offset + size) \div ps
           e == (offset + size) % ps
           n == b - q
<1>1. q \in Nat /\ a \in 0..(ps - 1) /\ offset = q * ps + a /\ q * ps \in Nat
  <2>1. q \in Nat /\ a \in 0..(ps - 1) /\ offset = q * ps + a
    BY DivMod
  <2> HIDE DEF q, a
  <2> QED BY <2>1
<1>2. b \in Nat /\ e \in 0..(ps - 1) /\ offset + size = b * ps + e /\ b * ps \in Nat
  <2>1. offset + size \in Nat
    OBVIOUS
  <2>2. b \in Nat /\ e \in 0..(ps - 1) /\ offset + size = b * ps + e
    BY <2>1, DivMod
  <2> HIDE DEF b, e
  <2> QED BY <2>2
<1> HIDE DEF q, a, b, e
<1>3. n \in Nat
  <2>1. ~(b < q)
    BY <1>1, <1>2, Below
  <2> QED BY <1>1, <1>2, <2>1
<1>4. n * ps = b * ps - q * ps /\ n * ps \in Nat
  BY <1>1, <1>2, <1>3
<1> HIDE DEF n
<1>5. size + a = n * ps + e
  BY <1>1, <1>2, <1>4
<1>6. size + offset - q * ps = n * ps + e /\ size + offset - q * ps \in Nat
  BY <1>1, <1>2, <1>4, <1>5
<1>7. (size + offset - q * ps) \div ps = n
  BY <1>2, <1>3, <1>6, DivModUnique
<1> QED BY <1>3, <1>4, <1>5, <1>7 DEF a, e, q

\* Each byte of the buffer is in exactly one piece, which takes it from its
\* place in the blob, and no piece ends beyond the buffer (the partial first
\* and last pages and the whole ones between them, in read).
THEOREM PiecesFill ==
    ASSUME NEW offset \in Nat, NEW size \in Nat \ {0}, NEW ps \in Nat \ {0}
    PROVE  /\ \A i \in 0..(size - 1) :
                 SourcesOf(i, offset, size, ps) = {<<(offset + i) \div ps, (offset + i) % ps>>}
           /\ \A c \in Pieces(offset, size, ps) : c.at + c.length <= size
<1> DEFINE q == offset \div ps
           a == offset % ps
           e == (offset + size) % ps
           part == (ps - a) % ps
           l == IF a # 0 THEN 1 ELSE 0
<1>1. PICK n \in Nat : /\ size + a = n * ps + e
                       /\ (size + offset - q * ps) \div ps = n
                       /\ n * ps \in Nat
  BY RangeInPages
<1>2. /\ q \in Nat /\ a \in 0..(ps - 1) /\ offset = q * ps + a
      /\ e \in 0..(ps - 1)
  <2>1. offset + size \in Nat
    OBVIOUS
  <2>2. e \in 0..(ps - 1)
    BY <2>1, DivMod
  <2> QED BY <2>2, DivMod
<1>3. q * ps \in Nat
  BY <1>2
<1>4. part = IF a = 0 THEN 0 ELSE ps - a
  <2>1. CASE a = 0
    <3>1. ps \in Nat /\ ps = 1 * ps + 0 /\ 0 \in 0..(ps - 1) /\ 1 \in Int
      OBVIOUS
    <3>2. ps % ps = 0
      BY <3>1, DivModUnique
    <3> QED BY <2>1, <3>2
  <2>2. CASE a # 0
    <3> HIDE DEF a
    <3>1. ps - a \in Nat /\ ps - a = 0 * ps + (ps - a) /\ ps - a \in 0..(ps - 1) /\ 0 \in Int
      BY <1>2, <2>2
    <3>2. (ps - a) % ps = ps - a
      BY <3>1, DivModUnique
    <3> QED BY <2>2, <3>2
  <2> QED BY <2>1, <2>2
<1> DEFINE count == n + (IF e = 0 THEN 0 ELSE 1)
           hasRight == (e # 0 /\ count > 1) \/ (a = 0 /\ size < ps)
           r == IF hasRight THEN count - 1 ELSE count
           Piece(page, from, length, at, partial) ==
               [page |-> page, from |-> from, length |-> length, at |-> at, partial |-> partial]
           LeftPiece == Piece(0, ps - part, Min2(part, size), 0, TRUE)
           RightPiece == Piece(r, 0, e, part + (r - l) * ps, TRUE)
           Full(j) == Piece(j, 0, ps, part + (j - l) * ps, FALSE)
           All == (IF a # 0 THEN {LeftPiece} ELSE {})
                  \cup (IF hasRight THEN {RightPiece} ELSE {})
                  \cup {Full(j) : j \in l..(r - 1)}
<1>5. Pieces(offset, size, ps) = All
  BY <1>1 DEF Pieces, RightPart
<1> HIDE DEF q, a, e, part
\* A piece other than the first starts where its page does.
<1>6. ASSUME NEW j \in Int PROVE /\ j * ps \in Int
                                 /\ part + (j - l) * ps \in Int
                                 /\ a + (part + (j - l) * ps) = j * ps
  <2>1. j * ps \in Int /\ (j - 1) * ps = j * ps - ps /\ (j - 0) * ps = j * ps
    OBVIOUS
  <2> QED BY <1>2, <1>4, <2>1
\* If there is a right piece, it lies in the n-th page.
<1>7. hasRight => r = n /\ e # 0
  <2>1. CASE a = 0 /\ size < ps
    <3>1. ~(0 < n)
      <4>1. 0 < n => 0 * ps + ps <= n * ps
        BY Below
      <4> QED BY <1>1, <1>2, <2>1, <4>1
    <3> QED BY <1>1, <1>2, <2>1, <3>1
  <2> QED BY <1>1, <1>2, <2>1
\* Otherwise the pages end with the n-th, or the left piece is all.
<1>8. ~hasRight => (IF e = 0 THEN r = n ELSE r = 1 /\ n = 0 /\ a # 0)
  <2>1. SUFFICES ASSUME ~hasRight, e # 0 PROVE r = 1 /\ n = 0 /\ a # 0
    BY <1>1
  <2>2. n = 0 /\ r = 1
    BY <1>1, <2>1
  <2>3. size + a = e
    BY <1>1, <1>2, <2>2
  <2> QED BY <1>2, <2>1, <2>2, <2>3
<1> HIDE DEF hasRight, r
<1>9. r \in Nat /\ l \in {0, 1} /\ (l = 1 <=> a # 0)
  BY <1>7, <1>8, <1>1
<1> HIDE DEF l, LeftPiece, RightPiece, Full, Piece
<1>10. ASSUME NEW c \in All
       PROVE  \/ a # 0 /\ c = LeftPiece
              \/ hasRight /\ c = RightPiece
              \/ \E j \in l..(r - 1) : c = Full(j)
  OBVIOUS
<1>11. /\ LeftPiece.page = 0 /\ LeftPiece.from = ps - part /\ LeftPiece.at = 0
       /\ LeftPiece.length = Min2(part, size)
  BY DEF LeftPiece, Piece
<1>12. /\ RightPiece.page = r /\ RightPiece.from = 0 /\ RightPiece.at = part + (r - l) * ps
       /\ RightPiece.length = e
  BY DEF RightPiece, Piece
<1>13. ASSUME NEW j
       PROVE  /\ Full(j).page = j /\ Full(j).from = 0 /\ Full(j).at = part + (j - l) * ps
              /\ Full(j).length = ps
  BY DEF Full, Piece
<1> HIDE DEF All
<1>14. ASSUME NEW c \in Pieces(offset, size, ps) PROVE c.at + c.length <= size
  <2>1. CASE a # 0 /\ c = LeftPiece
    BY <1>2, <1>4, <1>11, <2>1 DEF Min2
  <2>2. CASE hasRight /\ c = RightPiece
    <3>1. n * ps \in Int /\ part + (n - l) * ps \in Int /\ a + (part + (n - l) * ps) = n * ps
      BY <1>6
    <3> QED BY <1>1, <1>2, <1>7, <1>12, <2>2, <3>1
  <2>3. ASSUME NEW j \in l..(r - 1), c = Full(j) PROVE c.at + c.length <= size
    <3>0. j \in Int /\ j < r /\ j >= l
      BY <1>9
    <3>1. j * ps \in Int /\ part + (j - l) * ps \in Int /\ a + (part + (j - l) * ps) = j * ps
      BY <1>6, <3>0
    <3>2. j < n
      BY <1>7, <1>8, <1>9, <3>0
    <3>3. j * ps + ps <= n * ps
      BY <3>0, <3>2, Below
    <3> QED BY <1>1, <1>2, <1>13, <2>3, <3>1, <3>3
  <2> QED BY <1>5, <1>10, <2>1, <2>2, <2>3
<1>15. ASSUME NEW i \in 0..(size - 1)
       PROVE  SourcesOf(i, offset, size, ps) = {<<(offset + i) \div ps, (offset + i) % ps>>}
  <2> DEFINE m == (a + i) \div ps
             f == (a + i) % ps
             Here(c) == c.at <= i /\ i < c.at + c.length
             Source(c) == <<q + c.page, c.from + i - c.at>>
  <2>1. m \in Nat /\ f \in 0..(ps - 1) /\ a + i = m * ps + f /\ m * ps \in Nat
    <3>1. a + i \in Nat
      BY <1>2
    <3>2. m \in Nat /\ f \in 0..(ps - 1) /\ a + i = m * ps + f
      BY <3>1, DivMod
    <3> HIDE DEF m, f
    <3> QED BY <3>2
  <2> HIDE DEF m, f
  <2>2. (offset + i) \div ps = q + m /\ (offset + i) % ps = f
    <3>1. offset + i \in Nat /\ q + m \in Int /\ offset + i = (q + m) * ps + f
      <4>1. (q + m) * ps = q * ps + m * ps
        BY <1>2, <2>1
      <4> QED BY <1>2, <1>3, <2>1, <4>1
    <3> QED BY <2>1, <3>1, DivModUnique
  \* The byte is in the m-th page, which is the n-th only before its end.
  <2>3. m < n \/ (m = n /\ f < e)
    <3>1. ~(n < m)
      BY <1>1, <1>2, <2>1, Below
    <3>2. m = n => f < e
      BY <1>1, <1>2, <2>1
    <3> QED BY <1>1, <2>1, <3>1, <3>2
  <2>4. ASSUME NEW j \in Int PROVE j * ps <= a + i /\ a + i < j * ps + ps <=> j = m
    BY <1>2, <2>1, Below
  \* Every piece the byte is in takes it from that page.
  <2>5. ASSUME NEW c \in All, Here(c) PROVE Source(c) = <<q + m, f>>
    <3>1. CASE a # 0 /\ c = LeftPiece
      <4>1. i < ps - a /\ c.page = 0 /\ c.from + i - c.at = a + i
        BY <1>2, <1>4, <1>11, <2>5, <3>1 DEF Min2
      <4>2. m = 0 /\ f = a + i
        <5>1. 0 * ps = 0
          OBVIOUS
        <5>2. 0 * ps <= a + i /\ a + i < 0 * ps + ps
          BY <1>2, <4>1, <5>1
        <5>3. m = 0
          BY <2>4, <5>2
        <5> QED BY <1>2, <2>1, <5>1, <5>3
      <4> QED BY <4>1, <4>2
    <3>2. CASE hasRight /\ c = RightPiece
      <4>1. n * ps \in Int /\ part + (n - l) * ps \in Int /\ a + (part + (n - l) * ps) = n * ps
        BY <1>6
      <4>2. c.page = n /\ c.from = 0 /\ c.at = n * ps - a /\ n * ps <= a + i /\ a + i < n * ps + e
        <5>1. /\ c.page = n /\ c.from = 0 /\ c.length = e
              /\ c.at = part + (n - l) * ps /\ c.at <= i /\ i < c.at + c.length
          BY <1>7, <1>12, <2>5, <3>2
        <5>2. c.at \in Int /\ a + c.at = n * ps
          BY <4>1, <5>1
        <5> QED BY <1>2, <5>1, <5>2
      <4>3. m = n
        BY <1>2, <2>4, <4>1, <4>2
      <4> QED BY <1>2, <2>1, <4>1, <4>2, <4>3
    <3>3. ASSUME NEW j \in l..(r - 1), c = Full(j) PROVE Source(c) = <<q + m, f>>
      <4>0. j \in Int
        BY <1>9
      <4>1. j * ps \in Int /\ part + (j - l) * ps \in Int /\ a + (part + (j - l) * ps) = j * ps
        BY <1>6, <4>0
      <4>2. c.page = j /\ c.from = 0 /\ c.at = j * ps - a /\ j * ps <= a + i /\ a + i < j * ps + ps
        <5>1. /\ c.page = j /\ c.from = 0 /\ c.length = ps
              /\ c.at = part + (j - l) * ps /\ c.at <= i /\ i < c.at + c.length
          BY <1>13, <2>5, <3>3
        <5>2. c.at \in Int /\ a + c.at = j * ps
          BY <4>1, <5>1
        <5> QED BY <1>2, <5>1, <5>2
      <4>3. m = j
        BY <2>4, <4>0, <4>2
      <4> QED BY <1>2, <2>1, <4>1, <4>2, <4>3
    <3> QED BY <1>10, <3>1, <3>2, <3>3
  \* And it is in one.
  <2>6. \E c \in All : Here(c)
    <3>1. CASE a # 0 /\ m = 0
      <4>1. LeftPiece \in All
        BY <3>1 DEF All
      <4>2. a + i < ps
        BY <2>1, <3>1
      <4>3. Here(LeftPiece)
        BY <1>2, <1>4, <1>11, <3>1, <4>2 DEF Min2
      <4> QED BY <4>1, <4>3
    <3>2. CASE ~(a # 0 /\ m = 0) /\ m < r
      <4>1. m \in l..(r - 1)
        BY <1>9, <2>1, <3>2
      <4>2. Full(m) \in All
        BY <4>1 DEF All
      <4>3. m * ps \in Int /\ part + (m - l) * ps \in Int /\ a + (part + (m - l) * ps) = m * ps
        BY <1>6, <2>1
      <4>4. Here(Full(m))
        BY <1>2, <1>13, <2>1, <4>3
      <4> QED BY <4>2, <4>4
    <3>3. CASE ~(a # 0 /\ m = 0) /\ ~(m < r)
      <4>1. hasRight /\ m = n /\ r = n /\ f < e
        BY <1>1, <1>2, <1>7, <1>8, <1>9, <2>1, <2>3, <3>3
      <4>2. RightPiece \in All
        BY <4>1 DEF All
      <4>3. n * ps \in Int /\ part + (n - l) * ps \in Int /\ a + (part + (n - l) * ps) = n * ps
        BY <1>6
      <4>4. Here(RightPiece)
        BY <1>2, <1>12, <2>1, <4>1, <4>3
      <4> QED BY <4>2, <4>4
    <3> QED BY <3>1, <3>2, <3>3
  <2>7. SourcesOf(i, offset, size, ps) = {Source(c) : c \in {c \in All : Here(c)}}
    BY <1>5 DEF SourcesOf, q
  <2> QED BY <2>2, <2>5, <2>6, <2>7
<1> QED BY <1>14, <1>15

\* Every read that is not empty fills its buffer, each byte once and from its
\* place, for every offset, size and page size (the unaligned ends of read).
THEOREM BuffersAlwaysFilled == SessionSpec => []BuffersFilled
<1>1. PiecesTile
  <2>1. /\ PageSizes \subseteq Nat \ {0}
        /\ 0..(2 * PageSize) \subseteq Nat /\ 1..(3 * PageSize) \subseteq Nat \ {0}
    BY RequestAssumption
  <2> QED BY <2>1, PiecesFill DEF PiecesTile
<1>2. BuffersFilled
  BY <1>1 DEF BuffersFilled
<1> QED BY <1>2, PTL

=============================================================================
