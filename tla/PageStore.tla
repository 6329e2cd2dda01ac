------------------------------ MODULE PageStore ------------------------------
(***************************************************************************)
(* A provider's storage: page_manager over bdb_bw_map, a write-back cache  *)
(* (cache_mt with the LRU policy) in front of a Berkeley DB that a thread  *)
(* of its own writes to.  A server runs its handlers in one thread, so a   *)
(* handler is one step; the writer thread takes its own steps in between.  *)
(* The contents of a page are determined by its key, and pages have equal  *)
(* size.  A request with several pages is one step per page; one answered  *)
(* with an error changes nothing and is no step.                           *)
(***************************************************************************)
EXTENDS Integers, Sequences, FiniteSets

CONSTANTS
    Keys,           \* page keys
    CacheSlots,     \* provider.cacheslots
    TotalSpace,     \* provider.space, in pages
    MaxFaults       \* bound: restarts and failed database writes

ASSUME PageStoreAssumption ==
    /\ CacheSlots \in Nat \ {0}
    /\ TotalSpace \in Nat
    /\ MaxFaults \in Nat

VARIABLES
    cache_map,      \* cached page -> is it dirty?
    queue,          \* cache_mt_LRU::queue, least recently used first
    write_queue,    \* evicted pages on their way to the database
    entry,          \* the page write_exec has taken from it, if any
    db,             \* pages in the database
    space_left,     \* what get_free reports
    acked,          \* pages whose write was acknowledged
    faults

vars == <<cache_map, queue, write_queue, entry, db, space_left, acked, faults>>

Elements(s) == {s[i] : i \in DOMAIN s}

-----------------------------------------------------------------------------
\* cache_mt_LRU::invalidate: the key leaves its place in the queue.
Invalidate(q, k) ==
    IF k \in Elements(q)
    THEN LET i == CHOOSE i \in DOMAIN q : q[i] = k
         IN  [j \in 1..(Len(q) - 1) |-> IF j < i THEN q[j] ELSE q[j + 1]]
    ELSE q

\* Mutant: a hit does not take the key from its old place.
Hit_Twice(q, k) == Append(q, k)

\* cache_mt_LRU::hit
Hit(q, k) == Append(Invalidate(q, k), k)

\* Mutant: evict is called for the pages that are not dirty.
Evicted_Clean(k) == IF cache_map[k] THEN << >> ELSE <<k>>

\* What evicting page k hands to bdb_bw_map::evict.
Evicted(k) == IF cache_map[k] THEN <<k>> ELSE << >>

\* cache_mt::write: the page at the front of the LRU queue makes room.
CacheWrite(k, dirty) ==
    LET others == DOMAIN cache_map \ {k}
        full == Cardinality(others) = CacheSlots
        kept == IF full THEN others \ {Head(queue)} ELSE others
    IN  /\ cache_map' = [u \in kept \cup {k} |-> IF u = k THEN dirty ELSE cache_map[u]]
        /\ queue' = Hit(IF full THEN Tail(queue) ELSE queue, k)
        /\ write_queue' = write_queue \o (IF full THEN Evicted(Head(queue)) ELSE << >>)

-----------------------------------------------------------------------------
Init ==
    /\ cache_map = << >>
    /\ queue = << >>
    /\ write_queue = << >>
    /\ entry = << >>
    /\ db = {}
    /\ space_left = TotalSpace
    /\ acked = {}
    /\ faults = 0

\* Mutants: the page is cached as clean; the space is not charged.
write_page_Clean(k) ==
    /\ space_left >= 1
    /\ CacheWrite(k, FALSE)
    /\ space_left' = space_left - 1
    /\ acked' = acked \cup {k}
    /\ UNCHANGED <<entry, db, faults>>

write_page_Uncharged(k) ==
    /\ space_left >= 1
    /\ CacheWrite(k, TRUE)
    /\ acked' = acked \cup {k}
    /\ UNCHANGED <<entry, db, space_left, faults>>

write_page(k) ==
    /\ space_left >= 1
    /\ CacheWrite(k, TRUE)
    /\ space_left' = space_left - 1
    /\ acked' = acked \cup {k}
    /\ UNCHANGED <<entry, db, faults>>

read_hit(k) ==
    /\ k \in DOMAIN cache_map
    /\ queue' = Hit(queue, k)
    /\ UNCHANGED <<cache_map, write_queue, entry, db, space_left, acked, faults>>

\* A page that is not cached is read from the database and cached.
read_miss(k) ==
    /\ k \in db \ DOMAIN cache_map
    /\ CacheWrite(k, FALSE)
    /\ UNCHANGED <<entry, db, space_left, acked, faults>>

\* Mutant: the writer thread waits until more than one page is queued.
write_exec_take_Batch ==
    /\ entry = << >>
    /\ Len(write_queue) > 1
    /\ entry' = <<Head(write_queue)>>
    /\ write_queue' = Tail(write_queue)
    /\ UNCHANGED <<cache_map, queue, db, space_left, acked, faults>>

write_exec_take ==
    /\ entry = << >>
    /\ write_queue # << >>
    /\ entry' = <<Head(write_queue)>>
    /\ write_queue' = Tail(write_queue)
    /\ UNCHANGED <<cache_map, queue, db, space_left, acked, faults>>

write_exec_put ==
    /\ entry # << >>
    /\ db' = db \cup Elements(entry)
    /\ entry' = << >>
    /\ UNCHANGED <<cache_map, queue, write_queue, space_left, acked, faults>>

\* db->put throws: the error is logged and the page forgotten.
write_exec_fails ==
    /\ faults < MaxFaults
    /\ entry # << >>
    /\ entry' = << >>
    /\ faults' = faults + 1
    /\ UNCHANGED <<cache_map, queue, write_queue, db, space_left, acked>>

\* The provider is stopped, while write_exec may or may not be done with the
\* page it has taken, and starts again on the same database.
restart ==
    /\ faults < MaxFaults
    /\ cache_map' = << >>
    /\ queue' = << >>
    /\ write_queue' = << >>
    /\ db' \in {db, db \cup Elements(entry)}
    /\ entry' = << >>
    /\ space_left' = TotalSpace
    /\ faults' = faults + 1
    /\ UNCHANGED acked

Next ==
    \/ \E k \in Keys : write_page(k) \/ read_hit(k) \/ read_miss(k)
    \/ write_exec_take
    \/ write_exec_put
    \/ write_exec_fails
    \/ restart

Spec == Init /\ [][Next]_vars

\* The writer thread loops for ever and nothing holds its lock for long.
LiveSpec == Spec /\ WF_vars(write_exec_take) /\ WF_vars(write_exec_put)

-----------------------------------------------------------------------------
(* Properties *)

\* Every variable has its type in bdb_bw_map.hpp and cache_mt.hpp.
TypeOK ==
    /\ cache_map \in [DOMAIN cache_map -> BOOLEAN] /\ DOMAIN cache_map \subseteq Keys
    /\ queue \in Seq(Keys) /\ write_queue \in Seq(Keys)
    /\ entry \in Seq(Keys) /\ Len(entry) <= 1
    /\ db \subseteq Keys /\ acked \subseteq Keys
    /\ space_left \in 0..TotalSpace
    /\ faults \in 0..MaxFaults

\* The LRU queue lists exactly the cached pages, each once, and there are
\* never more of them than slots: evictEntry always names a cached page and
\* cache_mt::write never has to fail.
CacheConsistent ==
    /\ Elements(queue) = DOMAIN cache_map
    /\ Len(queue) = Cardinality(DOMAIN cache_map)
    /\ Len(queue) <= CacheSlots

\* A page cached as clean is in the database, so that cache_mt may drop it
\* without calling evict, whatever reads, evictions, restarts and failed
\* database writes came before.
CleanPagesStored == \A k \in DOMAIN cache_map : cache_map[k] \/ k \in db

\* Where an acknowledged page must be: in the cache, on its way to the
\* database, or there.
Kept == acked \subseteq DOMAIN cache_map \cup Elements(write_queue) \cup Elements(entry) \cup db

\* Until the provider is restarted or its database refuses a page, a page
\* whose write was acknowledged is always somewhere in the provider, however
\* far the writer thread lags behind evictions (bdb_bw_map::evict queues it
\* before cache_mt::write forgets it).
PagesKept == faults = 0 => Kept

\* A page whose write was acknowledged can be read: read_page finds it in
\* the cache or in the database.
PagesReadable == acked \subseteq DOMAIN cache_map \cup db

\* Until the provider is restarted, the pages stored and the space it still
\* offers (get_free, which its listener reports) never exceed provider.space.
SpaceHonest ==
    faults = 0 => Cardinality(DOMAIN cache_map \cup Elements(write_queue) \cup Elements(entry) \cup db)
                     + space_left <= TotalSpace

\* Again and again all pages whose write was acknowledged are readable at
\* once: none is left for ever in the write queue (write_exec's loop), unless
\* the provider was restarted or its database refused a page.
PagesEventuallyReadable == []<>(faults > 0 \/ PagesReadable)
=============================================================================
