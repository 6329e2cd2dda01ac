---------------------------- MODULE ObjectHandler ----------------------------
(***************************************************************************)
(* Client sessions (client/object_handler.cpp): every handler works on one *)
(* blob at a time, remembers the root it saw last and caches the roots it  *)
(* asked for, while the version manager serves all handlers.  Calls block, *)
(* so a handler is in one operation at a time; an operation of one RPC is  *)
(* one step, exec_write and read are several.                              *)
(*                                                                         *)
(* Every write covers the whole blob, so that page p of a version is the   *)
(* page its own writer stored; what the tree does with partial overwrites  *)
(* is the subject of BlobStore.  The provider manager names the same       *)
(* providers for every page, in a leaf that is written whichever of them   *)
(* confirmed the page.                                                     *)
(***************************************************************************)
EXTENDS VersionManager, FiniteSets

CONSTANTS
    Handlers,
    Writers,        \* handlers whose program only writes, to one blob
    Providers,      \* the replicas PUBLISHER_GET names
    MaxWrites,      \* bound: no write begins once so many tickets are out
    MaxFaults       \* bound: calls and replies lost, providers gone

ASSUME SessionAssumption ==
    /\ Writers \subseteq Handlers
    /\ Providers # {} /\ IsFiniteSet(Providers)
    /\ Offsets = {0} /\ Appends = {FALSE} /\ Cardinality(Sizes) = 1 /\ Cardinality(PageSizes) = 1
    /\ \A s \in Sizes, ps \in PageSizes : s % ps = 0      \* exec_write's ASSERT
    /\ MaxWrites \in Nat /\ MaxFaults \in Nat

VARIABLES
    id,             \* handler -> the blob it works on, 0 before the first
    latest_root,    \* handler -> root_t
    version_cache,  \* handler -> (version -> root_t)
    op,             \* handler -> the operation it is in
    leaves,         \* <<blob, version>> -> (page -> providers that hold it)
    down,           \* providers that have stopped
    faults,
    moved           \* history: handlers that worked on more than one blob

sessionVars == <<id, latest_root, version_cache, op, leaves, down, faults, moved>>
handlerVars == <<id, latest_root, version_cache, moved>>

PageSize == CHOOSE ps \in PageSizes : TRUE
WriteSize == CHOOSE s \in Sizes : TRUE
Pages == 0..(WriteSize \div PageSize - 1)

EmptyRoot == [id |-> 0, version |-> 0, size |-> 0, current_size |-> 0, page_size |-> 0]

Idle == [pc |-> "idle"]

SessionInit ==
    /\ Init
    /\ id = [h \in Handlers |-> 0]
    /\ latest_root = [h \in Handlers |-> EmptyRoot]
    /\ version_cache = [h \in Handlers |-> << >>]
    /\ op = [h \in Handlers |-> Idle]
    /\ leaves = << >>
    /\ down = {}
    /\ faults = 0
    /\ moved = {}

Fault(n) == faults + n <= MaxFaults /\ faults' = faults + n

\* An RPC to the version manager fails: it is lost, or nobody serves it.
VmFails == IF spinning THEN UNCHANGED faults ELSE Fault(1)

\* Tickets given out, over all blobs.
Tickets == Cardinality({t \in Blobs \X (1..MaxTickets) : t[2] < obj_hash[t[1]].current_ticket})

Goto(h, o) == op' = [op EXCEPT ![h] = o]

-----------------------------------------------------------------------------
(* Operations of one call *)

\* VMGR_GETROOT; a blob that does not exist has an empty root.
Ask(b, version) == IF b \in Blobs THEN GetRoot(obj_hash[b], version) ELSE EmptyRoot

\* h works on blob b from now on and has seen root.
MoveTo(h, b, root) ==
    /\ h \in Writers => id[h] \in {0, b}
    /\ id' = [id EXCEPT ![h] = b]
    /\ latest_root' = [latest_root EXCEPT ![h] = root]
    /\ moved' = moved \cup {g \in {h} : id[g] \notin {0, b}}
    /\ UNCHANGED version_cache

Create(h) ==
    /\ op[h] = Idle
    /\ create(PageSize)
    /\ MoveTo(h, obj_count', LatestRoot(obj_hash'[obj_count']))
    /\ UNCHANGED <<op, leaves, down, faults>>

\* id is taken from latest_root all the same.
CreateFails(h) ==
    /\ op[h] = Idle /\ id[h] # 0
    /\ VmFails
    /\ create(PageSize) \/ UNCHANGED vars       \* the reply or the call is lost
    /\ MoveTo(h, latest_root[h].id, latest_root[h])
    /\ UNCHANGED <<op, leaves, down>>

\* b = 0 stands for the handler's own blob.
Named(h, b) == IF b = 0 THEN id[h] ELSE b

GetLatest(h, b) ==
    /\ op[h] = Idle /\ Named(h, b) # 0
    /\ ~spinning
    /\ MoveTo(h, Named(h, b), Ask(Named(h, b), 0))
    /\ UNCHANGED <<vars, op, leaves, down, faults>>

\* id changes before the call, latest_root does not.
GetLatestFails(h, b) ==
    /\ op[h] = Idle /\ Named(h, b) # 0
    /\ VmFails
    /\ MoveTo(h, Named(h, b), latest_root[h])
    /\ UNCHANGED <<vars, op, leaves, down>>

\* The root the handler keeps is the cloned one under the id of the blob it
\* worked on so far.
Clone(h, b, version) ==
    /\ op[h] = Idle
    /\ clone(Named(h, b), version)
    /\ MoveTo(h, obj_count', [Ask(Named(h, b), version) EXCEPT !.id = id[h]])
    /\ UNCHANGED <<op, leaves, down, faults>>

\* The reply is lost; if the call is, nothing changes.
CloneFails(h, b, version) ==
    /\ op[h] = Idle
    /\ VmFails
    /\ clone(Named(h, b), version)
    /\ UNCHANGED <<handlerVars, op, leaves, down>>

\* Mutant: a root is cached under the version that was asked for.
CacheKey_Asked(version, root) == version

CacheKey(version, root) == root.version

\* get_root(version) when the cache does not know it: what get_size, read
\* and get_locations of a given version start with.
LookUp(h, version) ==
    /\ op[h] = Idle /\ id[h] # 0 /\ h \notin Writers
    /\ ~spinning
    /\ version \notin DOMAIN version_cache[h]
    /\ LET root == Ask(id[h], version)
           key == CacheKey(version, root)
       IN  version_cache' = [version_cache EXCEPT ![h] =
                                [v \in DOMAIN @ \cup {key} |-> IF v = key THEN root ELSE @[v]]]
    /\ UNCHANGED <<vars, id, latest_root, moved, op, leaves, down, faults>>

-----------------------------------------------------------------------------
(* exec_write *)

\* Mutant: the write goes on if one page of it has a replica.
AllPagesWritten_Any(acked) == \E p \in Pages : acked[p] # {}

\* "make sure each page has at least one successfully written replica"
AllPagesWritten(acked) == \A p \in Pages : acked[p] # {}

\* Pages that a fault has cost a confirmation.
Lost(acked) == Cardinality({p \in Pages : acked[p] # Providers \ down})

\* The replicas of all pages are written, with the retries of
\* rpc_write_callback: acked are the ones a provider confirmed in the end,
\* held the ones it stored, confirmed or not.
WritePages(h) ==
    /\ op[h] = Idle /\ latest_root[h].page_size # 0
    /\ Tickets < MaxWrites
    /\ \E acked \in [Pages -> SUBSET (Providers \ down)] :
          /\ Fault(Lost(acked))
          /\ \E held \in {f \in [Pages -> SUBSET (Providers \ down)] : \A p \in Pages : acked[p] \subseteq f[p]} :
                IF AllPagesWritten(acked) THEN Goto(h, [pc |-> "ticket", held |-> held]) ELSE UNCHANGED op
    /\ UNCHANGED <<vars, handlerVars, leaves, down>>

Ticket(h) ==
    /\ op[h].pc = "ticket"
    /\ get_ticket(id[h], 0, WriteSize, FALSE)
    /\ Goto(h, [pc |-> "metadata", held |-> op[h].held, version |-> obj_hash[id[h]].current_ticket])
    /\ UNCHANGED <<handlerVars, leaves, down, faults>>

\* eobj, or the call is lost; if only the reply is, the ticket is given out
\* and nobody will complete it.
TicketFails(h) ==
    /\ op[h].pc = "ticket"
    /\ \/ ~spinning /\ id[h] \notin Blobs /\ UNCHANGED <<vars, faults>>
       \/ VmFails /\ UNCHANGED vars
       \/ Fault(1) /\ get_ticket(id[h], 0, WriteSize, FALSE)
       \/ UNCHANGED faults /\ get_ticket_spins(id[h], 0, WriteSize, FALSE)
    /\ Goto(h, Idle)
    /\ UNCHANGED <<handlerVars, leaves, down>>

\* writeRecordLocations
WriteMetadata(h) ==
    /\ op[h].pc = "metadata"
    /\ LET key == <<id[h], op[h].version>>
       IN  leaves' = [k \in DOMAIN leaves \cup {key} |-> IF k = key THEN op[h].held ELSE leaves[k]]
    /\ Goto(h, [pc |-> "publish", version |-> op[h].version])
    /\ UNCHANGED <<vars, handlerVars, down, faults>>

MetadataFails(h) ==
    /\ op[h].pc = "metadata"
    /\ Fault(1)
    /\ Goto(h, Idle)
    /\ UNCHANGED <<vars, handlerVars, leaves, down>>

\* Only the version of latest_root follows the write.
Publish(h) ==
    /\ op[h].pc = "publish"
    /\ publish(id[h], op[h].version)
    /\ latest_root' = [latest_root EXCEPT ![h].version = op[h].version]
    /\ Goto(h, Idle)
    /\ UNCHANGED <<id, version_cache, moved, leaves, down, faults>>

PublishFails(h) ==
    /\ op[h].pc = "publish"
    /\ VmFails
    /\ publish(id[h], op[h].version) \/ UNCHANGED vars
    /\ Goto(h, Idle)
    /\ UNCHANGED <<handlerVars, leaves, down>>

-----------------------------------------------------------------------------
(* read *)

RootFor(h, version) ==
    IF version = 0 THEN latest_root[h]
    ELSE IF version \in DOMAIN version_cache[h] THEN version_cache[h][version]
    ELSE Ask(id[h], version)

\* The checks of read and get_locations before they look at the metadata.
MayRead(root, version, offset, size) ==
    root.version >= version /\ root.page_size # 0 /\ offset + size <= root.size

Min2(a, b) == IF a < b THEN a ELSE b

\* Mutant: the right part is taken to be what is left after the left part.
RightPart_OffByLeft(offset, size, ps) == ((offset + size) % ps) + (offset % ps)

RightPart(offset, size, ps) == (offset + size) % ps

\* The requests read sends for [offset, offset + size): page is counted from
\* the first one, from is where the piece starts in its page, at where it
\* goes in the buffer.
Pieces(offset, size, ps) ==
    LET start == (offset \div ps) * ps
        count == (size + offset - start) \div ps + (IF (offset + size) % ps = 0 THEN 0 ELSE 1)
        left_part == (ps - (offset % ps)) % ps
        hasLeft == offset % ps # 0
        hasRight == ((offset + size) % ps # 0 /\ count > 1) \/ (offset % ps = 0 /\ size < ps)
        l == IF hasLeft THEN 1 ELSE 0
        r == IF hasRight THEN count - 1 ELSE count
        Piece(page, from, length, at, partial) ==
            [page |-> page, from |-> from, length |-> length, at |-> at, partial |-> partial]
    IN  (IF hasLeft THEN {Piece(0, ps - left_part, Min2(left_part, size), 0, TRUE)} ELSE {})
        \cup (IF hasRight
              THEN {Piece(r, 0, RightPart(offset, size, ps), left_part + (r - l) * ps, TRUE)} ELSE {})
        \cup {Piece(i, 0, ps, left_part + (i - l) * ps, FALSE) : i \in l..(r - 1)}

\* One piece of a read: page p of a version whose leaf the client has found.
\* untried are the providers of the leaf random_select has left, lost (for
\* the properties) the ones that were asked for a page they hold to no avail.
Read(h, version, p, partial) ==
    /\ op[h] = Idle /\ h \notin Writers
    /\ LET root == RootFor(h, version)
       IN  /\ MayRead(root, version, p * PageSize, PageSize)
           /\ <<root.id, root.version>> \in DOMAIN leaves
           /\ Goto(h, [pc |-> "read", held |-> leaves[<<root.id, root.version>>][p],
                       partial |-> partial, untried |-> Providers, lost |-> {}])
    /\ version = 0 \/ version \in DOMAIN version_cache[h]
    /\ UNCHANGED <<vars, handlerVars, leaves, down, faults>>

\* Mutant: rpc_provider_callback gives up after the first replica.
Untried_None(o, q) == {}

Untried(o, q) == o.untried \ {q}

\* q can serve what o asks of it: it is up, holds the page and was not sent
\* the wrong arguments, as it is by every try of a partial read but the first.
CanServe(o, q) == q \in o.held \ down /\ (o.partial => o.untried = Providers)

\* try_next and what comes back.  A provider that can serve the page need not:
\* its answer gets lost or late, or its cache has just evicted the page.
TryReplica(h, q) ==
    /\ op[h].pc = "read"
    /\ q \in op[h].untried
    /\ LET o == op[h]
           left == Untried(o, q)
       IN  \/ CanServe(o, q) /\ Goto(h, Idle)
           \/ Goto(h, [pc |-> IF left = {} THEN "aborted" ELSE "read", held |-> o.held,
                       partial |-> o.partial, untried |-> left,
                       lost |-> IF CanServe(o, q) THEN o.lost \cup {q} ELSE o.lost])
    /\ UNCHANGED <<vars, handlerVars, leaves, down, faults>>

ReadFails(h) ==
    /\ op[h].pc = "aborted"
    /\ Goto(h, Idle)
    /\ UNCHANGED <<vars, handlerVars, leaves, down, faults>>

ProviderStops(q) ==
    /\ q \notin down
    /\ Fault(1)
    /\ down' = down \cup {q}
    /\ UNCHANGED <<vars, handlerVars, op, leaves>>

-----------------------------------------------------------------------------
HandlerNext(h) ==
    \/ Create(h) \/ CreateFails(h)
    \/ \E b \in 0..MaxBlobs :
          \/ GetLatest(h, b) \/ GetLatestFails(h, b)
          \/ \E version \in 0..MaxTickets : Clone(h, b, version) \/ CloneFails(h, b, version)
    \/ \E version \in 1..(MaxTickets + 1) : LookUp(h, version)
    \/ WritePages(h)
    \/ Ticket(h) \/ TicketFails(h)
    \/ WriteMetadata(h) \/ MetadataFails(h)
    \/ Publish(h) \/ PublishFails(h)
    \/ \E version \in 0..MaxTickets, p \in Pages, partial \in BOOLEAN : Read(h, version, p, partial)
    \/ \E q \in Providers : TryReplica(h, q)
    \/ ReadFails(h)

SessionNext ==
    \/ \E h \in Handlers : HandlerNext(h)
    \/ \E q \in Providers : ProviderStops(q)

SessionSpec == SessionInit /\ [][SessionNext]_<<vars, sessionVars>>

-----------------------------------------------------------------------------
(* Properties *)

Root == [id : Nat, version : Nat, size : Nat, current_size : Nat, page_size : Nat]

\* Every field of object_handler has its declared type, and an operation
\* under way carries what its later steps need.
SessionTypeOK ==
    /\ id \in [Handlers -> 0..MaxBlobs]
    /\ \A h \in Handlers :
          /\ latest_root[h] \in Root
          /\ \A v \in DOMAIN version_cache[h] : version_cache[h][v] \in Root
          /\ op[h].pc \in {"idle", "ticket", "metadata", "publish", "read", "aborted"}
          /\ op[h].pc \in {"metadata", "publish"} => op[h].version \in 1..MaxTickets
          /\ op[h].pc \in {"read", "aborted"} => op[h].untried \subseteq Providers
    /\ \A k \in DOMAIN leaves : leaves[k] \in [Pages -> SUBSET Providers]
    /\ down \subseteq Providers
    /\ faults \in 0..MaxFaults

\* h has worked on one blob only, and that blob was created, not cloned.
Settled(h) ==
    /\ h \notin moved
    /\ id[h] \in Blobs /\ obj_hash[id[h]].roots[1].id = id[h]

\* What a handler that stays on one created blob has cached for a version is
\* that version, however many versions others published since and whatever
\* versions it asked for before they existed (get_root caches under the
\* version of the answer, not of the question).  For a handler that changes
\* blobs, or works on a clone, it is not: versions of two blobs share keys.
VersionCacheRight ==
    \A h \in Handlers : Settled(h) =>
        LET roots == obj_hash[id[h]].roots
        IN  \A v \in DOMAIN version_cache[h] \ {0} :
               v < Len(roots) /\ version_cache[h][v] = roots[v + 1]

\* Sessions have their types, and whoever can see a version can find its
\* pages: its leaves are in the DHT and every page is held by a provider they
\* name, whichever replicas, tickets, metadata and confirmations were lost on
\* the way (the order of exec_write's phases and the early returns between
\* them).
PublishedPagesStored ==
    /\ SessionTypeOK
    /\ \A b \in Blobs : \A k \in 2..Len(obj_hash[b].roots) :
          /\ <<b, k - 1>> \in DOMAIN leaves
          /\ \A p \in Pages : leaves[<<b, k - 1>>][p] # {}

\* A read of a whole page is aborted only when every provider that holds it
\* is down or was asked by this very read and failed to answer, although the
\* leaf also names providers that never stored the page and any try may fail
\* (rpc_provider_callback and random_select).
ReadFindsReplica ==
    \A h \in Handlers :
        (op[h].pc = "aborted" /\ ~op[h].partial) => op[h].held \subseteq down \cup op[h].lost

\* Where byte i of the buffer comes from: page and position in it.
SourcesOf(i, offset, size, ps) ==
    {<<(offset \div ps) + c.page, c.from + i - c.at>> :
        c \in {c \in Pieces(offset, size, ps) : c.at <= i /\ i < c.at + c.length}}

PiecesTile ==
    \A ps \in PageSizes, offset \in 0..(2 * PageSize), size \in 1..(3 * PageSize) :
        /\ \A i \in 0..(size - 1) :
              SourcesOf(i, offset, size, ps) = {<<(offset + i) \div ps, (offset + i) % ps>>}
        /\ \A c \in Pieces(offset, size, ps) : c.at + c.length <= size

\* The pieces of a read fill every byte of the buffer once and from the right
\* place, and none ends beyond it, for every range of up to three pages that
\* is not empty, wherever it starts (the unaligned ends of read).
BuffersFilled == \A h \in Handlers : op[h].pc = "read" => PiecesTile

\* The version a handler sees of its blob goes back, from its own write to an
\* older one, only while a write with an earlier ticket is incomplete
\* (exec_write takes its version for the latest, get_latest the published
\* one).
StepsBackOnlyBehindWriter ==
    [][\A h \in Handlers :
          (Settled(h) /\ Settled(h)' /\ latest_root'[h].version < latest_root[h].version) =>
              \E u \in DOMAIN obj_hash[id[h]].intervals :
                  u < latest_root[h].version /\ ~obj_hash[id[h]].intervals[u].done
      ]_<<vars, sessionVars>>
=============================================================================
