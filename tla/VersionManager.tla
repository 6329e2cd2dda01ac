--------------------------- MODULE VersionManager ---------------------------
(***************************************************************************)
(* The version manager (vmanager/vmanagement.cpp): one record per blob,    *)
(* which hands out write tickets and publishes completed writes in ticket  *)
(* order.  The RPC server runs every handler in one thread, so a handler   *)
(* is one atomic step.  A handler that returns eobj or earg changes        *)
(* nothing and is not a step here.                                         *)
(*                                                                         *)
(* get_ticket grows the tree by doubling max_size until the write fits.    *)
(* max_size is an unsigned 64-bit word: if no doubling ever reaches the    *)
(* end of the write the loop never exits, and the single thread with it;   *)
(* spinning records that.                                                  *)
(***************************************************************************)
EXTENDS Integers, Sequences, Words

CONSTANTS
    PageSizes,    \* page sizes clients create blobs with
    Offsets,      \* offsets of the WRITEs clients ask a ticket for
    Sizes,        \* sizes of the WRITEs and APPENDs
    Appends,      \* which of the two they issue: TRUE is append
    MaxBlobs,     \* bound: blobs ever created
    MaxTickets    \* bound: tickets per blob (uint32 in the code)

ASSUME RequestAssumption ==
    /\ PageSizes \subseteq Nat \ {0}
    /\ Offsets \subseteq Nat
    /\ Sizes \subseteq Nat \ {0}
    /\ Appends \subseteq BOOLEAN

ASSUME BoundAssumption ==
    /\ MaxBlobs \in Nat
    /\ MaxTickets \in Nat

VARIABLES
    obj_hash,     \* blob id -> obj_info
    obj_count,    \* ids handed out so far
    spinning      \* get_ticket is caught in its growth loop

vars == <<obj_hash, obj_count, spinning>>

Blobs == 1..obj_count

-----------------------------------------------------------------------------
(* Records of common/structures.hpp.  A root node always starts at offset  *)
(* 0; size is root_t.node.size, what the tree can hold, and current_size   *)
(* is what the blob holds.  The replica count is carried along unchanged   *)
(* by every operation and left out.                                        *)

root_t == [id : Nat, version : Nat, size : Nat, current_size : Nat, page_size : Nat]

\* An entry of obj_info.intervals: a ticketed range, the root it will
\* publish, and whether its writer has completed.
interval_t == [offset : Nat, size : Nat, root : root_t, done : BOOLEAN]

\* obj_info; intervals is a map from version to entry, its key order
\* query_t::operator<.
IsObjInfo(o) ==
    /\ o = [roots |-> o.roots, intervals |-> o.intervals, current_ticket |-> o.current_ticket,
            max_size |-> o.max_size, progress_size |-> o.progress_size]
    /\ o.roots \in Seq(root_t) /\ Len(o.roots) > 0
    /\ o.intervals \in [DOMAIN o.intervals -> interval_t]
    /\ DOMAIN o.intervals \subseteq 1..MaxTickets
    /\ o.current_ticket \in 1..(MaxTickets + 1)
    /\ o.max_size \in Nat
    /\ o.progress_size \in Nat

NewObj(id, ps) ==
    [roots |-> <<[id |-> id, version |-> 0, size |-> 0, current_size |-> 0, page_size |-> ps]>>,
     intervals |-> << >>,
     current_ticket |-> 1,
     max_size |-> ps,
     progress_size |-> 0]

\* Mutant: the clone's first root is renumbered 0.
CloneObj_Renumbered(root) ==
    [roots |-> <<[root EXCEPT !.version = 0]>>, intervals |-> << >>, current_ticket |-> 1,
     max_size |-> root.size, progress_size |-> root.current_size]

\* The clone's first root is the cloned root itself: it keeps the source
\* blob's id and version, while the clone's tickets restart at 1.
CloneObj(root) ==
    [roots |-> <<root>>,
     intervals |-> << >>,
     current_ticket |-> 1,
     max_size |-> root.size,
     progress_size |-> root.current_size]

LatestRoot(o) == o.roots[Len(o.roots)]

\* get_root: version 0, or one that is not published, means the latest.
GetRoot(o, version) ==
    IF version = 0 \/ version >= Len(o.roots)
    THEN LatestRoot(o)
    ELSE o.roots[version + 1]

-----------------------------------------------------------------------------
\* max_size after k passes of the loop body, max_size <<= 1.
Doubled(max_size, k) == IF k = 0 THEN max_size ELSE (max_size * 2^k) % Word

\* Mutant: the growth loop stops one short of the end of the write.
LoopExits_OffByOne(max_size, end, k) ==
    /\ Doubled(max_size, k) + 1 >= end
    /\ \A j \in 0..(k - 1) : end > Doubled(max_size, j) + 1

\* The loop leaves max_size alone as soon as the end of the write fits.
LoopExits(max_size, end, k) ==
    /\ Doubled(max_size, k) >= end
    /\ \A j \in 0..(k - 1) : end > Doubled(max_size, j)

\* After Width doublings max_size is 0 and stays 0.
LoopsForever(max_size, end) == \A k \in 0..Width : end > Doubled(max_size, k)

\* Mutant: an append starts at the end of the latest published version.
TicketOffset_Stable(o, offset, append) ==
    IF append THEN LatestRoot(o).current_size ELSE offset

TicketOffset(o, offset, append) == IF append THEN o.progress_size ELSE offset

\* obj_info after get_ticket gave out its next ticket for the range, with
\* max_size grown to m.  The new root starts as a copy of the latest
\* published one, whatever is in flight.
Ticketed(o, id, offset, size, m) ==
    LET v == o.current_ticket
        end == offset + size
        stable == LatestRoot(o)
        longer == end > stable.current_size
        entry == [offset |-> offset, size |-> size, done |-> FALSE,
                  root |-> [id |-> id, version |-> v, size |-> m, page_size |-> stable.page_size,
                            current_size |-> IF longer THEN end ELSE stable.current_size]]
    IN  [roots |-> o.roots,
         intervals |-> [u \in DOMAIN o.intervals \cup {v} |->
                            IF u = v THEN entry ELSE o.intervals[u]],
         current_ticket |-> v + 1,
         max_size |-> m,
         progress_size |-> IF longer THEN end ELSE o.progress_size]

\* The flag of v's entry is set by publish.
Completed(o, v, u) == u = v \/ o.intervals[u].done

\* intervals.begin()
FirstInterval(o) == CHOOSE u \in DOMAIN o.intervals : \A w \in DOMAIN o.intervals : u <= w

\* Mutants: the interval the loop stopped at is erased too; the published
\* roots take the place of the latest one.
Drained_ErasesOneMore(o, v, next) ==
    LET first == FirstInterval(o)
    IN  [o EXCEPT !.roots = @ \o [k \in 1..(next - first) |-> o.intervals[first + k - 1].root],
                  !.intervals = [u \in {u \in DOMAIN @ : u > next} |->
                                    [@[u] EXCEPT !.done = Completed(o, v, u)]]]

Drained_ReplacesLatest(o, v, next) ==
    LET first == FirstInterval(o)
        moved == [k \in 1..(next - first) |-> o.intervals[first + k - 1].root]
    IN  [o EXCEPT !.roots = IF next = first THEN @ ELSE SubSeq(@, 1, Len(@) - 1) \o moved,
                  !.intervals = [u \in {u \in DOMAIN @ : u >= next} |->
                                    [@[u] EXCEPT !.done = Completed(o, v, u)]]]

\* obj_info after publish completed version v and moved the intervals below
\* next, the completed ones at the front of the map, to the published roots.
\* The map's keys are consecutive versions (VersionsConsecutive).
Drained(o, v, next) ==
    LET first == FirstInterval(o)
        moved == [k \in 1..(next - first) |-> o.intervals[first + k - 1].root]
        waiting == {u \in DOMAIN o.intervals : u >= next}
    IN  [roots |-> o.roots \o moved,
         intervals |-> [u \in waiting |-> [offset |-> o.intervals[u].offset,
                                           size |-> o.intervals[u].size,
                                           root |-> o.intervals[u].root,
                                           done |-> Completed(o, v, u)]],
         current_ticket |-> o.current_ticket,
         max_size |-> o.max_size,
         progress_size |-> o.progress_size]

\* Mutants: completing v publishes everything up to v; the loop is an if,
\* which publishes one interval at most.
DrainStops_UpToVersion(o, v, next) == next = v + 1

DrainStops_OneOnly(o, v, next) ==
    LET first == FirstInterval(o)
    IN  next = IF Completed(o, v, first) THEN first + 1 ELSE first

\* Where the publishing loop stops: at the first interval not completed.
DrainStops(o, v, next) ==
    /\ \A u \in DOMAIN o.intervals : u < next => Completed(o, v, u)
    /\ next = o.current_ticket \/ (next \in DOMAIN o.intervals /\ ~Completed(o, v, next))

-----------------------------------------------------------------------------
Init ==
    /\ obj_hash = << >>
    /\ obj_count = 0
    /\ spinning = FALSE

AddBlob(o) ==
    /\ obj_count < MaxBlobs
    /\ obj_count' = obj_count + 1
    /\ obj_hash' = [id \in 1..(obj_count + 1) |-> IF id = obj_count + 1 THEN o ELSE obj_hash[id]]

create(ps) ==
    /\ ~spinning
    /\ AddBlob(NewObj(obj_count + 1, ps))
    /\ UNCHANGED spinning

clone(id, version) ==
    /\ ~spinning
    /\ id \in Blobs
    /\ AddBlob(CloneObj(GetRoot(obj_hash[id], version)))
    /\ UNCHANGED spinning

\* A request get_ticket can serve: the blob exists, the bound on tickets is
\* not reached and the end of the range is below 2^64.
TicketRequest(id, offset, size, append) ==
    /\ ~spinning
    /\ id \in Blobs
    /\ obj_hash[id].current_ticket <= MaxTickets
    /\ TicketOffset(obj_hash[id], offset, append) + size < Word

get_ticket(id, offset, size, append) ==
    /\ TicketRequest(id, offset, size, append)
    /\ LET o == obj_hash[id]
           off == TicketOffset(o, offset, append)
       IN  \E k \in 0..Width :
              /\ LoopExits(o.max_size, off + size, k)
              /\ obj_hash' = [obj_hash EXCEPT ![id] =
                                 Ticketed(o, id, off, size, Doubled(o.max_size, k))]
    /\ UNCHANGED <<obj_count, spinning>>

get_ticket_spins(id, offset, size, append) ==
    /\ TicketRequest(id, offset, size, append)
    /\ LET o == obj_hash[id]
       IN  LoopsForever(o.max_size, TicketOffset(o, offset, append) + size)
    /\ spinning' = TRUE
    /\ UNCHANGED <<obj_hash, obj_count>>

publish(id, version) ==
    /\ ~spinning
    /\ id \in Blobs
    /\ version \in DOMAIN obj_hash[id].intervals
    /\ LET o == obj_hash[id]
       IN  \E next \in 1..o.current_ticket :
              /\ DrainStops(o, version, next)
              /\ obj_hash' = [obj_hash EXCEPT ![id] = Drained(o, version, next)]
    /\ UNCHANGED <<obj_count, spinning>>

Next ==
    \/ \E ps \in PageSizes : create(ps)
    \/ \E id \in Blobs :
          \/ \E version \in 0..MaxTickets : clone(id, version)
          \/ \E offset \in Offsets, size \in Sizes, append \in Appends :
                \/ get_ticket(id, offset, size, append)
                \/ get_ticket_spins(id, offset, size, append)
          \/ \E version \in 1..MaxTickets : publish(id, version)

Spec == Init /\ [][Next]_vars

\* The holder of a ticket calls VMGR_PUBLISH once, as the last step of
\* exec_write.
complete(id, version) ==
    /\ id \in Blobs
    /\ version \in DOMAIN obj_hash[id].intervals
    /\ ~obj_hash[id].intervals[version].done
    /\ publish(id, version)

\* Nothing but the failure of the client prevents it.
WritersComplete ==
    \A id \in 1..MaxBlobs, version \in 1..MaxTickets : WF_vars(complete(id, version))

LiveSpec == Spec /\ WritersComplete

-----------------------------------------------------------------------------
(* Properties *)

\* Every variable has the type its declaration in vmanagement.hpp and
\* structures.hpp gives it, and obj_hash knows exactly the ids handed out.
TypeOK ==
    /\ obj_count \in 0..MaxBlobs
    /\ DOMAIN obj_hash = Blobs
    /\ \A id \in Blobs : IsObjInfo(obj_hash[id])
    /\ spinning \in BOOLEAN

\* Published versions and tickets in flight split 1 .. current_ticket - 1:
\* roots[v] is version v of this blob (publish pushes one root per version,
\* none is lost, repeated or out of place, although writers complete in any
\* order), the rest are in intervals under their own version, and a
\* completed interval never waits at the front of the map.
Consecutive(id, o) ==
    /\ Len(o.roots) <= o.current_ticket
    /\ DOMAIN o.intervals = Len(o.roots)..(o.current_ticket - 1)
    /\ \A k \in 2..Len(o.roots) : o.roots[k].id = id /\ o.roots[k].version = k - 1
    /\ \A v \in DOMAIN o.intervals :
          o.intervals[v].root.id = id /\ o.intervals[v].root.version = v
    /\ Len(o.roots) < o.current_ticket => ~o.intervals[Len(o.roots)].done

\* The above for every blob.
VersionsConsecutive == \A id \in Blobs : Consecutive(id, obj_hash[id])

\* A tree is large enough for what its root says the blob holds, for every
\* published version and every version in flight; the root of a version in
\* flight covers the range its writer is writing; and no tree is larger
\* than max_size, the size the next ticket starts from (get_ticket's growth
\* loop only ever enlarges it).
Fits(o) ==
    /\ \A k \in 1..Len(o.roots) :
          o.roots[k].current_size <= o.roots[k].size /\ o.roots[k].size <= o.max_size
    /\ \A v \in DOMAIN o.intervals :
          LET e == o.intervals[v]
          IN  /\ e.offset + e.size <= e.root.current_size
              /\ e.root.current_size <= e.root.size
              /\ e.root.size <= o.max_size

\* The above for every blob.
RootsFit == \A id \in Blobs : Fits(obj_hash[id])

End(o, v) == o.intervals[v].offset + o.intervals[v].size

\* When clients only append, the tickets in flight tile the blob without
\* gap or overlap, from the end of the latest published version up to
\* progress_size, however their writers interleave (get_ticket's
\* query.offset = progress_size).
Tiles(o) ==
    /\ \A v \in DOMAIN o.intervals :
          /\ o.intervals[v].offset = IF v = Len(o.roots) THEN LatestRoot(o).current_size
                                                         ELSE End(o, v - 1)
          /\ o.intervals[v].root.current_size = End(o, v)
    /\ o.progress_size = IF Len(o.roots) = o.current_ticket THEN LatestRoot(o).current_size
                                                           ELSE End(o, o.current_ticket - 1)

\* The above for every blob.
AppendsTile == \A id \in Blobs : Tiles(obj_hash[id])

\* A version, once published, is never withdrawn or changed: a reader that
\* was given a root may use it for ever (publish only pushes onto roots, and
\* no other handler touches it).
RootsImmutable ==
    [][\A id \in Blobs : \A k \in 1..Len(obj_hash[id].roots) :
          /\ id \in Blobs' /\ k <= Len(obj_hash'[id].roots)
          /\ obj_hash'[id].roots[k] = obj_hash[id].roots[k]]_vars

\* A step publishes a version only if every version up to it has been
\* completed by its writer: all of them before this step, except the one
\* this step completes (publish's loop from intervals.begin()).
PublishedInOrder ==
    [][\A id \in Blobs :
          LET o == obj_hash[id]
              published == Len(o.roots)..(Len(obj_hash'[id].roots) - 1)
          IN  \A u, w \in published : ~o.intervals[u].done /\ ~o.intervals[w].done => u = w]_vars

\* Every ticket given out is eventually published, provided its writer and
\* those before it complete (publish drains all consecutive completed
\* intervals, so none is left behind when the one blocking it completes),
\* unless the server's only thread is caught in get_ticket.
EveryTicketPublished ==
    \A id \in 1..MaxBlobs, v \in 1..MaxTickets :
        (id \in Blobs /\ v < obj_hash[id].current_ticket)
            ~> (spinning \/ (id \in Blobs /\ v < Len(obj_hash[id].roots)))
=============================================================================
