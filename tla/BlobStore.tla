------------------------------ MODULE BlobStore ------------------------------
(***************************************************************************)
(* Writers, the version manager and the metadata DHT together: exec_write  *)
(* of client/object_handler.cpp from its ticket on, with the tree nodes    *)
(* writeRecordLocations stores.  A write in progress is known by its blob  *)
(* and ticket.  The pages themselves were stored before the ticket was     *)
(* asked for; a write whose pages cannot be stored changes nothing here.   *)
(***************************************************************************)
EXTENDS VersionManager, MetadataTree

CONSTANTS
    SparseWrites,   \* may a write start beyond the end of what was ticketed?
    LostGets,       \* may a DHT get of a stored node come back empty?
    MaxWrites,      \* bound: tickets of all blobs together
    MaxFailures     \* bound: writes abandoned after their ticket

ASSUME StoreAssumption ==
    /\ PageSizes = {1}            \* the unit of offsets and sizes is the page
    /\ SparseWrites \in BOOLEAN
    /\ LostGets \in BOOLEAN
    /\ MaxWrites \in Nat /\ MaxFailures \in Nat

VARIABLES
    dht,            \* node key -> node
    writes,         \* <<blob, ticket>> -> progress of the write
    failures        \* writes abandoned so far

storeVars == <<obj_hash, obj_count, spinning, dht, writes, failures>>

StoreInit ==
    /\ Init
    /\ dht = << >>
    /\ writes = << >>
    /\ failures = 0

At(id, v, pc) == <<id, v>> \in DOMAIN writes /\ writes[<<id, v>>].pc = pc

StoreCreate(ps) == create(ps) /\ UNCHANGED <<dht, writes, failures>>

StoreClone(id, version) == clone(id, version) /\ UNCHANGED <<dht, writes, failures>>

\* What vmgr_reply tells the holder of ticket v: its range, the stable root,
\* the size of the tree and the ranges in flight before its own.
Reply(o, id, v, stable) ==
    [id |-> id, version |-> v, offset |-> o.intervals[v].offset, size |-> o.intervals[v].size,
     stable |-> stable, root_size |-> o.max_size,
     intervals |-> [u \in DOMAIN o.intervals \ {v} |->
                       [offset |-> o.intervals[u].offset, size |-> o.intervals[u].size]]]

GetTicket(id, offset, size, append) ==
    /\ Cardinality(DOMAIN writes) < MaxWrites
    /\ get_ticket(id, offset, size, append)
    /\ SparseWrites \/ append \/ offset <= obj_hash[id].progress_size
    /\ LET v == obj_hash[id].current_ticket
           w == Reply(obj_hash'[id], id, v, LatestRoot(obj_hash[id]))
       IN  writes' = [t \in DOMAIN writes \cup {<<id, v>>} |->
                         IF t = <<id, v>> THEN [pc |-> "leaves", w |-> w, left |-> {}, right |-> {}]
                                          ELSE writes[t]]
    /\ UNCHANGED <<dht, failures>>

GetTicketSpins(id, offset, size, append) ==
    /\ get_ticket_spins(id, offset, size, append)
    /\ UNCHANGED <<dht, writes, failures>>

Put(nodes) == dht' = [q \in DOMAIN dht \cup DOMAIN nodes |->
                         IF q \in DOMAIN nodes THEN nodes[q] ELSE dht[q]]

Only(nodes, keys) == [q \in keys |-> nodes[q]]

\* The first dht->wait(): the leaves are stored and the siblings fetched,
\* from view, the part of the DHT that answers.
PutLeaves(id, v) ==
    /\ At(id, v, "leaves")
    /\ LET w == writes[<<id, v>>].w
       IN  /\ Put(Leaves(w))
           /\ \E lost \in {{}} \cup (IF LostGets THEN {{q} : q \in DOMAIN dht} ELSE {}) :
                 LET view == Only(dht, DOMAIN dht \ lost)
                 IN  writes' = [writes EXCEPT ![<<id, v>>] =
                                   [pc |-> "inner", w |-> w,
                                    left |-> LeftSiblings(view, w), right |-> RightSiblings(view, w)]]
    /\ UNCHANGED <<vars, failures>>

\* The second dht->wait(): the inner nodes are stored.
PutInnerNodes(id, v) ==
    /\ At(id, v, "inner")
    /\ LET r == writes[<<id, v>>]
       IN  Put(InnerNodes(r.w, r.left, r.right))
    /\ writes' = [writes EXCEPT ![<<id, v>>].pc = "publish"]
    /\ UNCHANGED <<vars, failures>>

\* Mutant: exec_write does not look at the result of writeRecordLocations.
Publish_Unconditional(id, v) ==
    /\ At(id, v, "publish") \/ At(id, v, "failed")
    /\ publish(id, v)
    /\ writes' = [writes EXCEPT ![<<id, v>>].pc = "done"]
    /\ UNCHANGED <<dht, failures>>

Publish(id, v) ==
    /\ At(id, v, "publish")
    /\ publish(id, v)
    /\ writes' = [writes EXCEPT ![<<id, v>>].pc = "done"]
    /\ UNCHANGED <<dht, failures>>

\* A put fails, or VMGR_PUBLISH does, or the client dies: exec_write returns
\* false with some of the nodes of that stage stored, and the ticket stays
\* with the version manager.
Abandon(id, v) ==
    /\ failures < MaxFailures
    /\ \/ /\ At(id, v, "leaves")
          /\ LET nodes == Leaves(writes[<<id, v>>].w)
             IN  \E stored \in SUBSET DOMAIN nodes : Put(Only(nodes, stored))
       \/ /\ At(id, v, "inner")
          /\ LET r == writes[<<id, v>>]
                 nodes == InnerNodes(r.w, r.left, r.right)
             IN  \E stored \in SUBSET DOMAIN nodes : Put(Only(nodes, stored))
       \/ /\ At(id, v, "publish")
          /\ UNCHANGED dht
    /\ writes' = [writes EXCEPT ![<<id, v>>].pc = "failed"]
    /\ failures' = failures + 1
    /\ UNCHANGED vars

StoreNext ==
    \/ \E ps \in PageSizes : StoreCreate(ps)
    \/ \E id \in Blobs :
          \/ \E version \in 0..MaxTickets : StoreClone(id, version)
          \/ \E offset \in Offsets, size \in Sizes, append \in Appends :
                \/ GetTicket(id, offset, size, append)
                \/ GetTicketSpins(id, offset, size, append)
          \/ \E v \in 1..MaxTickets :
                \/ PutLeaves(id, v)
                \/ PutInnerNodes(id, v)
                \/ Publish(id, v)
                \/ Abandon(id, v)

StoreSpec == StoreInit /\ [][StoreNext]_storeVars

-----------------------------------------------------------------------------
(* Properties *)

\* A tree doubles from one page on and its size is a word.
PageNumbers == 0..(Word \div 2 - 1)

Snapshot(root) == [id |-> root.id, version |-> root.version,
                   pages |-> [p \in PageNumbers |-> ReadPage(dht, root, p)]]

\* What readers can read of every blob, and the writes in flight.
Snapshots ==
    [id \in Blobs |-> [k \in DOMAIN obj_hash[id].roots |-> Snapshot(obj_hash[id].roots[k])]]

Pending ==
    [id \in Blobs |->
        LET o == obj_hash[id]
        IN  [i \in 1..(o.current_ticket - Len(o.roots)) |->
                LET e == o.intervals[Len(o.roots) + i - 1]
                IN  [offset |-> e.offset, size |-> e.size, done |-> e.done]]]

Abstract == INSTANCE VersionedBlob WITH
    Pages <- PageNumbers,
    Hole <- Unreadable,
    Data <- PageKey,
    snapshots <- Snapshots,
    pending <- Pending

\* Reading any published version through the tree gives the writes up to
\* that version applied in ticket order, whatever writers did concurrently,
\* in whatever order they stored their nodes and completed, and whichever of
\* them gave up (writeRecordLocations against read_callback).
SnapshotsAreSequential == Abstract!Spec
=============================================================================
