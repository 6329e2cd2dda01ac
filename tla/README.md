# BlobSeer in TLA+

BlobSeer stores large binary objects (blobs) in versions.  A blob is striped
into pages kept by *providers*; the mapping from a version to its pages is a
segment tree kept in a *metadata DHT*; the *version manager* numbers writes and
publishes them; the *provider manager* tells writers where to put pages.  All
of them talk through one RPC layer, and `blob-fuse` shows versions as files.
This directory models the parts and the protocols between them, checks them
with TLC and proves their invariants, their action properties and the
refinement of the blob store with TLAPS.

Contents: 1 inventory, 2 modules and how they correspond to the code, 3 runs,
4 proofs, 5 what TLC found, 6 known limits, 7 what is only model-checked and
what is not modelled, 8 plan.

## 1. Inventory

| part | state | operations | talks to |
|---|---|---|---|
| version manager (`vmanager/`) | per blob: published roots, intervals in flight, next ticket, `max_size`, `progress_size` | `create`, `clone`, `get_ticket`, `publish`, `get_root`, `get_objcount` | clients, by RPC |
| metadata tree (`client/range_query.cpp`) | nodes in the DHT | `writeRecordLocations`, `readRecordLocations` | DHT |
| client session (`client/object_handler.cpp`) | `id`, `latest_root`, `version_cache` | `read`, `write`, `append`, `create`, `clone`, `get_latest` | all servers |
| provider manager (`pmanager/`) | table of providers with score, free space and timestamp, three indexes | `update`, `get`, watchdog thread | clients, providers |
| provider storage (`provider/`) | cache, write queue, database, space left | `write_page`, `read_page`, `read_partial_page`, writer thread | clients; the built-in DHT server `sdht` is the same storage |
| provider listener (`provider/pmgr_listener.cpp`) | free space, read statistics, a timer | reports every 5 s, and when full | provider manager |
| cache (`common/cache_mt.hpp`) | map, LRU queue, capacity | `write`, `read`, `free`, `resize`, `clear` | used by most parts |
| DHT client (`common/simple_dht.hpp`, `cached_dht.hpp`) | batches per gateway, client cache | `put`, `get`, `wait` | `sdht` servers |
| RPC client (`rpc/rpc_client.hpp`) | request queue, sockets, resolver cache, timers, `waiting_count` | `dispatch`, `run`, completion handlers, watchdog thread | RPC servers |
| RPC server (`rpc/rpc_server.hpp`) | connections, task queue, timers | connection handlers, processor thread, watchdog thread | RPC clients |
| blob-fuse (`bindings/blob-fuse`) | pool of sessions; per file a local mirror with two page maps | `getattr`, `lookup`, `open`, `read`, `write`, `release`, `commit`, `clone_and_commit` | client session |
| other bindings, `lib/`, scripts, tests | none of their own | wrappers | client |

What makes the parts correct, and is hard to test:

* **Version manager.** Writers take tickets in one order and complete in any
  other.  Published versions must be exactly the completed prefix, must never
  change, and must eventually include every ticket whose writer completes.
  Appenders must not be placed over each other.  A clone shares the first root
  of another blob and has its own numbering.  Sizes are 64-bit words that are
  doubled.
* **Metadata tree.** A writer stores its tree without waiting for the writers
  before it, and names nodes they have not stored yet.  Every published
  version must read as its predecessor with one write applied.  Puts and gets
  can fail, writers can die half-way.
* **Client session.** Any call or its reply can be lost.  A published version
  must have its pages and leaves stored, whatever the writer was told; a read
  must try all replicas and fill its buffer from the right places; the cached
  roots must be those of the blob the session is on.
* **Provider manager.** Its index is ordered by a hand-written comparison of
  values that change; the watchdog thread erases entries while `get` runs (the
  lock both take is a `null_lock`).  Replicas of a page must be apart, the
  least loaded provider must be chosen, dead providers must go.
* **Provider storage.** Eviction, the queue to the writer thread and the
  database are three places a page can be; an acknowledged page must be in one
  of them, and a page dropped from the cache unwritten must be in the last.
* **Provider listener.** Reports come from two threads, overtake each other and
  get lost: they must neither stop nor multiply, and the manager's figure must
  become right.
* **DHT client.** Entries share requests and their statuses; copies of an entry
  may hash to one gateway.  What was accepted must be stored, an answer must
  belong to its key, and `wait()` must call every callback.
* **RPC.** Requests move between sockets while connections are being made, time
  out on both sides and are dispatched again from callbacks.  Each must be in
  one place, be executed at most once, be told its own answer, and get its
  callback.
* **blob-fuse.** Files share sessions.  A mirror holds prefixes of pages, some
  fetched, some written: what it takes for valid must be the user's last write
  or the blob's data, also after crashes, and no write may miss a commit.

## 2. Modules

**`VersionManager`** models `vmanagement.cpp` with the records of
`structures.hpp`.  `obj_hash` is the code's map from id to `obj_info`; each
handler is one action (`create`, `clone`, `get_ticket`, `publish`), atomic
because the RPC server runs handlers in its one processor thread (and they
hold `mgr_lock`).  `get_root` is the operator `GetRoot`; `get_objcount` reads
`obj_count`.  Handlers that refuse a request change nothing and are not steps.
`get_ticket`'s loop `max_size <<= 1` is modelled on words of `Width` bits:
either it exits after some number of doublings (`LoopExits`) or never
(`LoopsForever`, the action `get_ticket_spins`, after which the server serves
nobody).  A range whose end does not fit in a word is not requested.
`publish`'s loop is `DrainStops` (where it ends) and `Drained` (what it leaves).

**`Words`** has the words of `Width` bits and the powers of two among them, which
the version manager and the tree share.

**`MetadataTree`** has the pure algorithms of `range_query.cpp`, in units of one
page: which brothers on the way to the root belong to writes in flight
(`ComputeSiblingVersions`), which come from the latest published tree
(`StableSiblings`), the nodes a write stores (`Leaves`, `InnerNodes`) and what
a reader finds (`ReadPage`).  The random number in a page key is named after
the ticket, so keys are unique.

**`BlobStore`** extends both: `exec_write` from its ticket on.  `GetTicket`,
`PutLeaves` (the first `dht->wait()`), `PutInnerNodes` (the second) and
`Publish` are the steps of a writer; `Abandon` is a put that fails, a publish
that fails or a client that dies, with any subset of that stage's nodes stored.
Gets and puts of a stage are one step: the gets only follow nodes of a
published tree, which no other writer stores or changes.  With
`LostGets` a get may come back empty although the node is stored, as a time-out
or an unreachable gateway makes it; with `SparseWrites` writers may leave gaps.

**`VersionedBlob`** is the abstract specification: a blob is a sequence of
snapshots, each the previous one with one write applied, in ticket order,
published once all earlier ones are complete; a clone starts from a snapshot.
A snapshot is named after the blob and version it was published as; a clone
keeps the name of the snapshot it starts from.
`BlobStore!SnapshotsAreSequential` says that `BlobStore` implements it, where a
snapshot is what a reader finds by walking the tree from a published root.
Sizes are not compared: a version ticketed while a longer one is in flight may
record a smaller `current_size` than its predecessor.

**`ObjectHandler`** extends `VersionManager` with client sessions.  An operation
of one call is one step (`Create`, `GetLatest`, `Clone`, `LookUp` for
`get_root` with its cache) with a sibling for the call or its reply getting
lost (`CreateFails`, ...), where the code has already changed some of its
fields.  `exec_write` is `WritePages` (all transfers with their retries: any
set of replicas is confirmed, any larger set holds the page), `Ticket`,
`WriteMetadata`, `Publish`, each with its failure; `read` is `Read` and
`TryReplica` for one page, and `Pieces` for how a range is cut into requests.
Any try may fail, also at a provider that is up and holds the page: its answer
gets lost or late, or its cache has just evicted the page; `lost` remembers
these for the property.
Writes cover the whole blob, so a page's leaf is its own version's.

**`ProviderManager`** models `adv_manager`.  `info_index` is the order of the
index by `score_entry`, kept the way a search tree keeps it with the code's
`operator<` (`Less`): an entry stays if it is not out of order with its
neighbours, else it is linked at a place a descent can reach.  `operator<` is
not a strict weak order when a provider is full, so there may be several.
`overtaken` remembers that a full provider has had a lower score than one with
space, from when on the order means nothing (section 6).
`get` takes one step per allocation and the watchdog one per erasure, since
nothing keeps them apart.  `life` is `timestamp - now`.

**`PageStore`** models `page_manager` over `bdb_bw_map` over `cache_mt` with the
LRU policy: `write_page`, `read_hit` and `read_miss` are the handlers (one
step per page), `write_exec_take` and `write_exec_put` the writer thread.
`restart` stops the provider, writer thread and all, and starts it on the same
database; `write_exec_fails` is a `DbException`.  **`Provider`** extends it with
the listener: `WritePage` is `write_page` with its hook (`update_event`),
`TimerExpires` and `TimeoutCallback` are the timer and its handler, which are
apart because the handler may already be queued when the timer is set again;
`UpdateReceived` and `UpdateFails` end a report (`provider_callback`), together
with the line of `adv_manager::update` that keeps the figure; a report that was
given up may be received later (`LateReceived`).

**`Dht`** models `simple_dht` under `cached_dht`, with `page_manager` as the
gateway.  `Put` and `Get` queue entries per gateway, `Round` is one pass of
`wait()`'s loop, in which what is queued for a gateway becomes one request.
The gateway's handler and the client's callbacks are one step (`WriteAnswered`,
`ReadAnswered`): `write_page` stops at the first entry that does not fit,
`read_page` answers by position, `handle_put_callback` counts copies,
`handle_get_callback` tries the next copy on any error but `eobj`.  A gateway
may miss any key it stores, as a provider does between eviction and the writer
thread's put.  Of each get, `failed` and `absent` remember for the property the
copies whose exchange failed and that a gateway did not find it.  A failed
write may have been executed, or be executed later (`ServeLate`).  Copies are
counted by their places in queues and requests (`Places`); `Retried` is what
the callbacks of one answer ask a gateway for next.

**`RpcMeta`**, **`RpcClient`**, **`RpcServer`**, **`Rpc`**.  The client's
io_service runs in one thread, so a completion handler is one step with the
user callback, the requests the callback dispatches and `handle_next_request`
in it (`HandleCallback`); the handlers between two transfers of one direction
are one step.  `request_map` and `pending_map` are the two halves of
`request_queue_t`, a socket is known by the request it was created for.
`Retry` names the request a callback dispatches; no two dispatch the same one,
as each call of `dispatch` makes its own.  At the
server, `ReadRequest` is the I/O thread, `Process` the processor thread and
`Expire` the watchdog; `Dies` is an exception nobody catches there.  `Rpc`
joins both over byte streams: what is written on a connection is read in
order, each side may lose the other at any time.  TCP is external.

**`Fuse`** extends `ObjectHandler` with the daemon: `Begin` is the first half of
`blob_stat` and `open` (`get_latest`), `FinishStat` and `FinishOpen` the second
(`get_size`); `Acquires` and `Releases` are `object_pool_t`.  `Fetch` is a read
or write that reaches the blob.  **`LocalMirror`** is the mirror of one file:
`mapping`, `chunk_map` and `written_map` as in the code, each byte known by
where it came from.  `read`'s loop is one step per page (`ReadPage`, with
`FetchStops` for how far a request goes), `commit` stops at any run of pages whose
request fails, `CloneAndCommit` renames the file, `Crash` kills the daemon.
`Close` saves the index, or fails to open it and leaves the old one, or leaves
it cut off (`CutIndex`), after which the constructor throws and `open` is
refused.  `mine` are the bytes the user wrote, `kept` those of them the saved
index knows of and that were not written again since; a mirror that ends
without saving leaves `kept`.  `commit` and `clone_and_commit` are called by
`blob_ll_ioctl` only, whose registration is commented out (`main.cpp:85`): what
is said of them is said of the class, not of the daemon as it is built.

The modules `MCObjectHandler`, `MCDht`, `MCRpc` and `MCRpcClient` give the
functions and symmetries of instances.  Operators whose comment says *Mutant*
are faulty variants of the definition after them, used to make sure that the
properties notice.

## 3. Runs

| run | instance | checks |
|---|---|---|
| `vm_appends` | 2 blobs, 3 tickets each, appends only | `AppendsTile`: ranges in flight leave no gap and do not overlap; `EveryTicketPublished` |
| `store` | 2 blobs or a blob and its clone, 3 writes and appends, 1 of which may fail, 4-bit words | `VersionsConsecutive`, `RootsFit`, `RootsImmutable`, `PublishedInOrder`, `SnapshotsAreSequential` (refinement of `VersionedBlob`) |
| `session` | 2 sessions, one a writer, 2 blobs, 2 writes of 2 pages, 2 providers, 1 fault | `PublishedPagesStored`, `VersionCacheRight`, `ReadFindsReplica`, `BuffersFilled`, `StepsBackOnlyBehindWriter` |
| `pm_balance` | 3 providers with free space 0, 1 or 2, 1 or 2 replicas | `TypeOK`, `IndexOrdered`, `ReplicasApart`, `LowestScoreWins`, `FailsOnlyWhenFull`, `SilentProvidersBlacklisted` |
| `pages` | 3 pages, 2 slots, space for 3, 1 fault, 1 report lost | `CacheConsistent`, `CleanPagesStored`, `PagesKept`, `SpaceHonest`, `PagesEventuallyReadable`, `ReportingAlive`, `ReportsCatchUp` |
| `dht` | 2 clients, one of which writes, 2 entries of 2 copies, 2 gateways with space for 2, 2 faults | `CopiesCounted`, `AckedPutStored`, `ValuesBelong`, `EmptyOnlyIfAbsent`, `WaitAnswersAll` |
| `rpc` | 3 requests, one sent by a callback, one for an RPC that is not registered, 1 server, limit 1 | `TypeOK`, `OnePlace`, `HandlesBounded`, `AnswersMatch`, `EveryRequestAnswered`, `ConnectionsReleased` |
| `mirror` | 3 pages of 2 bytes, 2 writes of 1 or 3 bytes, reads of any range, file opened twice | `ValidPrefixRight`, `ReadsServeValid`, `UserBytesCommitted`, `CommitKeepsTheRest` |
| `store_sparse` | 2 writers that leave gaps | `SnapshotsAreSequential`: violated |
| `store_lost_get` | 2 writers, gets may fail | `SnapshotsAreSequential`: violated |
| `rpc_starved` | 3 requests, one sent by a callback, 2 hosts, limit 1 | `AllCallbacksExecute`: violated |
| `fuse_wrong_blob` | 2 writers, a pool of 2 sessions, 2 blobs | `FileShowsItsVersion`: violated |

The type invariants of `ObjectHandler`, `Dht` and `LocalMirror` are the first
conjuncts of `PublishedPagesStored`, `CopiesCounted` and `ValidPrefixRight`;
those of `VersionManager` and `PageStore` are not listed in a run and are proved
(section 4).

**Bounds.** `MaxBlobs` and `MaxTickets` bound the counters of the version
manager; three tickets in flight are the least for one writer to overtake
another across a third.  Two blobs are a source and its clone, or two blobs a
session or the daemon confuses.  Trees of up to eight pages have a leaf, inner
nodes and a root on both sides of every written range, and grow by more than
one level in one ticket.  `Width` is small so that the top bit is reached; it
does not otherwise matter (the proofs are for every width).  One failing writer
with two others before or behind it covers each order.  Three providers let one
be allocated, one skipped as a replica and one chosen, or one full, one skipped
and one with space; a free space of 0 is what a full provider reports, and 1 and
2 are two that `operator<` tells apart.  `MaxScore` ends the run
of the provider manager; only differences of scores matter.  Three pages and
two slots make writes and reads evict each other's pages; with space for three
the last of them fills the provider.  In `dht` the copies of one entry go to
two gateways and those of the other to one, which both share and which has
space for two of the three: batches are shared, stopped half-way and retried;
two faults lose both copies of one get.  In `rpc` the limit of 1 makes every
request wait for, or take over, the connection of another; the requests to one
host are those that can interfere.  Pages of two bytes can be valid in part,
writes of one and three bytes begin and end at the edge or in the middle of a
page and leave gaps, and three pages are enough for a fetch that starts in the
first and must stop at the last; the second opening meets the index or the
crash of the first, and may itself end in a crash with that index.  Deadlock is
not checked because the bounds stop every instance.

**Fairness.** `VersionManager!WritersComplete`: the holder of a ticket calls
`VMGR_PUBLISH` once; it is the last step of `exec_write` and only the client's
failure prevents it, in which case nothing after its ticket is ever published
(the code has no time-out for tickets).  `ProviderManager!LiveSpec`: time passes
and the watchdog thread runs.  `Provider!ProviderSpec`: the writer thread and
the io_service keep running, the timer goes off, and `rpc_client` answers or
gives up each report.  `Rpc!LiveSpec`: the client's io_service runs handlers
that are ready, its watchdog wakes up every five seconds, and the server's
io_service notices a closed connection; no server is assumed to answer or to be
there.  `Dht!LiveSpec`: the application calls `wait()`, and `rpc_client` answers
or gives up each request, which is what `rpc` shows of a client whose callbacks
do not dispatch; those of the DHT client only queue for the next round.
`EveryTicketPublished` excepts a server caught in `get_ticket`,
`EveryRequestAnswered` a client that died and callbacks that dispatch (known
limits).

## 4. Proofs

TLAPS checks the proofs of eight modules, one per specification; each theorem is
for every value of the constants that its assumptions allow.  Every invariant
and every action property that a passing run checks is also a theorem, and so is
the refinement.  A proof
of an invariant has the same layout everywhere: the inductive invariant at the
top of the module, lemmas on the operators, one lemma per action (or per kind of
step), and a last section with the theorems.  The runs' liveness specifications
add fairness to the `Spec` of the theorems and so satisfy them too.

**`VersionManagerProofs`**, for every set of requests, number of blobs and
tickets and word width (assumptions: requests have positive size and page
sizes are positive, and powers of two up to the width are positive naturals that
double):

* `VersionsAreConsecutive`: `TypeOK` and `VersionsConsecutive`, which together
  are inductive.  The step shows that each action changes the record of one
  blob only, and that the record is the result of `NewObj`, `CloneObj`,
  `Ticketed` or `Drained` (`StepShape`); one lemma for each says that it
  preserves the invariant of a record.  That intervals are consecutive
  versions is what makes `Drained`, which appends the roots of the intervals
  before `next`, put `roots[v]` in its place.
* `RootsAlwaysFit`: by the same step shape.  The growth loop's exit condition
  gives `end <= max_size`, and that `max_size` never shrinks needs the first
  pass or an earlier pass below the end (`GrowthEnough`).
* `AppendersNeverCollide`: if clients only append, `AppendsTile`.  It is not
  inductive as it stands: the latest published size must be known not to
  exceed the end of any interval in flight, or `get_ticket` would keep an old
  `progress_size` (`InOrder`).
* `PublishedRootsImmutable` and `PublicationInOrder`: action properties, from
  the first invariant and the step shape.

**`BlobStoreProofs`**, for any number of blobs, tickets, writers and failures, any
word width and trees of any size:

* `StoreImplementsManager`: writers that store trees, fail or die are clients of
  the version manager and every behaviour of the store is one of
  `VersionManager`; so the five theorems above hold of the store.
* `TreesAreRight` (`StoreInv`) and `SnapshotsSequential` (`StoreSpec =>
  SnapshotsAreSequential`, the refinement of `VersionedBlob`), for writers that
  leave no gaps (`SparseWrites = FALSE`) and gets that are not lost (`LostGets =
  FALSE`); with either the statement is false, as two runs show (section 5).

The argument of the last two, in the order of the module:

1. *Numbers.* Places of a tree are aligned blocks of a power of two.  Induction
   over them is by hand, on the least element of a set (`LeastNumber`,
   `Induction`), since the library's induction theorems are out of the provers'
   reach.  `Path`, a function of the level, satisfies its equation (`PathSteps`)
   by induction over the levels above.
2. *The tree a version should have.* A blob's history `h` is its first root and
   the writes of its tickets, published or not (`HistoryOK`).  `NodeAt(d, h, v,
   o, s)` is the node version `v` should have at offset `o` and size `s`: that
   of the last version up to `v` that writes there, else that of the first root,
   which for a clone is another blob's.  When the tree of a later version is
   larger, a version between the two writes the first page beyond the earlier
   root (`Grown`); this is what writers that leave gaps break.
3. *Walking.* If the nodes stored up to `v` have these nodes for children
   (`LeavesOK`, `InnerOK`) and all are stored (`CompleteTo`), the walk of a reader
   meets exactly `NodeAt` (`PathRight`), finds the page of the last version that
   wrote it (`ReadRight`), and so reads the previous version with one write applied
   (`WriteApplied`).  Nodes added later change none of it (`PathGrows`, `ReadGrows`).
4. *Siblings.* What a writer collects are these nodes too (`Collected`): from
   the ranges in flight it was told (`InFlight`), else from the latest published
   tree, which is complete (`StableOffers`).  `LeftSiblingRight` and
   `RightSiblingRight` treat the two edges of a write, whose walks differ.
5. *The invariant.* `StoreInv` has the invariant of the version manager, that a
   node in the DHT is stored by the writer it is named after, in its stage
   (`KeysOwned`), that the version manager's intervals and roots are those of the
   history (`Linked`), and for each ticket how far its tree has come
   (`WriterOK`).  A writer's nodes are new (`NewLeaves`, `NewInnerNodes`), so others'
   stay; one lemma per action.
6. *The steps.* `create`, `clone` and `get_ticket` map to `Create`, `Clone` and
   `Begin`; storing nodes and dying map to stutters (`StoringStutters`); `publish`
   maps to `Complete` (`CompleteMapped`), which may publish several versions, each
   by step 3.

**`ObjectHandlerProofs`**, for any number of sessions, providers, blobs, versions
and faults, under the assumption of the module that all writes have one size
and cover the blob.  The inductive invariant `SessionInv` has the invariant of
the version manager, of which the sessions' calls are steps (`VmGrows` says what
such a step may do to what a session knows), the types, where a blob's first
root comes from (`FirstRoots`), that leaves precede completion (`LeavesFirst`),
and for each session `HandlerOK`: its cache, its latest version, its operation.

* `CachedVersionsRight`: a session that stays on the blob it created; because
  published roots do not change, an answer that is kept stays right.
* `PublishedVersionsStored`: `publish` follows the leaf in its session and
  `LeavesFirst` carries it past the publication of later versions.
* `ReadsFindReplicas`: the replicas already tried do not hold the page, are down
  or failed to answer (`TriedOK`); providers that are down stay so.
* `BackOnlyBehindWriter`: an action property.  The version a session saw last is
  completed (`LatestOK`), so if it is not published, an earlier ticket is
  incomplete.
* `PiecesFill`: pure arithmetic.  For every offset, positive size and page size,
  the pieces into which `read` cuts a range fill each byte of the buffer once,
  from its place in the blob.  `BuffersAlwaysFilled` is its consequence for the
  invariant the run checks.  The first and last page, which may be the same and
  may be cut, are the cases; `DivModUnique` says which page a byte is on.

**`ProviderManagerProofs`**, for any providers, numbers of pages and replicas,
time-out and scores, with `ManagerInv` (the table's types, each of its providers
once in the index, the request, `ReplicasApart`):

* `IndexListsTable` (`TypeOK`) and `ReplicasAlwaysApart`, for every interleaving
  of `get`'s steps with updates and the watchdog's erasures.
* `IndexAlwaysOrdered`, `LowestScoreAlwaysWins` and `FailsOnlyWithoutProviders`,
  whatever space providers report, until a full provider is overtaken by one
  with space: on a table without such a pair `operator<` is a strict weak order
  (`PeersLess`, `PeersOrder`) that puts the full providers last, and linking an
  entry at a place a descent can reach keeps the index in order (`OrderInv`).
  Afterwards the statements are false (section 6).  `FailsOnlyWithoutProviders`
  takes the first entry of the index that has no replica yet, by well-founded
  induction on the positions before it.

**`ProviderProofs`**, for every set of pages, cache size, space, number of faults
and of lost reports:

* `CacheAlwaysConsistent`, with `LruQueueConsistent`: `TypeOK`,
  `CacheConsistent` and `CleanPagesStored`, across restarts and failed writes.
  The inductive invariant adds that no page is twice in the LRU queue, which
  both a hit and an eviction rely on.  That `evictEntry` finds a victim whenever
  the cache is full is a consequence.
* `AcknowledgedPagesKept`: `PagesKept`, which speaks of the time until the
  first restart or failed database write; an evicted page is either dirty, and
  queued, or clean, and in the database by the invariant above.
* `SpaceAlwaysHonest`: `SpaceHonest`.  The pages held are finite in number
  (`SpaceInv`), and only `write_page` adds one, for which it charges; to take a
  page from the queue and to put it in the database moves it.
* `ProviderKeepsReporting`: `ReportingAlive`.  It is inductive together with the
  types of the listener (`ReportingInv`): the end of a report takes one away and
  sets the timer, which replaces a wait that was set before, the timer's end
  queues one call, the call sends one report; a second report is added only by
  a write that reaches zero, which happens once, from a store with space, where
  the invariant knows of one only.
* `ProviderImplementsStore`: with the listener hidden, a provider is a page
  store; `ProviderKeepsStoreSafe` transfers the four invariants.

**`DhtProofs`**, for any clients, keys, gateways, number of copies, hash and
faults.  `DhtInv` says, besides the types, that what is queued for a gateway or
sent to it hashes to it, that before a copy of a get is asked for the exchanges
of all copies before it have failed (`QueuesRight`, `RequestsRight`), that
copies counted as stored are (`PutsRight`), and what the results are
(`ResultsRight`):

* `AckedPutsStored`, `ValuesAlwaysBelong`, `EmptyOnlyWithoutCopies`: its
  consequences.  A write that counts as failed and is executed later only adds;
  a get that fails at its last copy has failed at all of them.
* `CopiesAlwaysCounted`: `CountInv` adds that the copies answered and those
  outstanding are always as many as `replication` (`CopiesAccounted`), which
  needs that outside `wait()` nothing is in flight (`OutOfWait`).  A round moves
  the entries of a queue into one request; a bijection between their places
  counts them.

**`RpcProofs`**, for any number of requests and hosts and any `WAIT_LIMIT`.
`RpcInv` has the types (`TypeOK`, `StreamTypeOK`), the client's part (`ClientInv`:
a request is started once, an exchange has a socket of its own, and
`waiting_count` has room for each socket and for each connection nobody wants any
more) and the exchange (`ExchangeInv`: a socket is idle until its exchange writes
to it, a connection carries one message at a time, a request is on its way over
one connection only, and the answer on the connection of an exchange is to its
request):

* `RpcTypes`, `RequestsInOnePlace`, `SocketsAlwaysBounded`, `AnswersAlwaysMatch`.
  The hard step is `HandleCallback`, which ends one exchange, dispatches what the
  callback asks for, and gives the socket to the next request in one step.

**`LocalMirrorProofs`**, for files of any number of pages of any size.
`MirrorInv` says what is valid in the open mirror (`OpenRight`), that a saved
index is one of an earlier stage of the mirror and knows of the bytes it was
saved with (`SavedRight`, `IndexKeeps`), and how far a read has come
(`ServedSoFar`):

* `ValidPartRight`, `ReadsAlwaysServeValid`, `UserBytesNeverForgotten`,
  `CommitsKeepTheRest`.  A crash leaves the file with an index that is older
  than the mirror; the bytes it calls valid are, because what is valid in an
  open mirror never shrinks, and the user's bytes it was saved with are still
  marked in it or in the blob, because a commit only writes the user's bytes
  over them.

## 5. What TLC found

Each is a run that ends in a counterexample; PROJECT.json quotes the comment
or test it contradicts.

* `store_sparse`: a writer far beyond the end takes a brother of a smaller tree
  in flight for a node of that tree; nobody stores it, and the earlier data is
  lost from the new version on.
* `store_lost_get`: a get that fails while siblings are collected is taken for
  the end of the walk, and a version with a hole is published.
* `rpc_starved`: a request that takes over a socket while its own connection is
  being made is counted in `waiting_count` twice and given back once; at the
  limit nothing further is started, and `run()` returns with a request it never
  sent.
* `fuse_wrong_blob`: `object_pool_t::acquire` never marks a session, so all
  files share the first one; its `version_cache`, looked up by version alone,
  answers for the file of another blob.

## 6. Known limits

Behaviour of the code that the models have and the properties except, so that
what they say is true:

* The clone of a blob that was never written has `max_size` 0, and the first
  ticket for it doubles 0 for ever, in the only thread of the version manager
  (`get_ticket_spins`; `EveryTicketPublished` and the sessions' calls except it).
* A short write ticketed behind a longer one in flight moves `progress_size`
  back, and the next append is placed inside the longer write
  (`vmanagement.cpp:106`).  `AppendsTile` is for clients that only append.
* Once a full provider has a lower score than one with space, `operator<` is no
  order any more (`adv_manager.hpp:42`): the full one can sort first, end the scan
  of `get` and make it fail although there is space, contrary to
  `adv_manager.hpp:35`.  `IndexOrdered`, `LowestScoreWins` and `FailsOnlyWhenFull`
  except what follows (`overtaken`); without the exception TLC finds the failing
  `get` in nine steps.  Full providers whose scores are no lower than those of
  the providers with space are covered.
* An evicted page cannot be read until the writer thread has put it
  (`bdb_bw_map.cpp:94`); the configuration template has one cache slot, so every
  write evicts.  This is also how a get of `store_lost_get` can fail.
* `bdb_bw_map`'s destructor does not write the cache or the write queue, its
  constructor offers all of the configured space on a database that already has
  pages, and a page the database refuses is forgotten: `PagesKept`,
  `SpaceHonest` and `PagesEventuallyReadable` speak of the time until the first
  such fault.
* A put is accepted with one copy stored, but a get takes the `eobj` of the
  first gateway that answers for the answer, also when that gateway has the
  entry and its cache has just evicted it: an accepted entry may not be found
  although no exchange failed.  `EmptyOnlyIfAbsent` says no more than that the
  gateway missed this very key, or all exchanges failed.  The client that put an
  entry sees it even if it was refused.
* The second try of a partial read carries one argument, `read_params.back()`,
  which is the size of the piece instead of the page key, offset and size, and
  is refused (`object_handler.cpp:90`); `ReadFindsReplica` is for whole pages.
* A session that moves between blobs, or works on a clone, may be told a cached
  root of another blob (`VersionCacheRight` is for the others), after `clone`
  its latest root names the blob it was on before, and after a write the size in
  `latest_root` is still that of an older version.
* A name that does not resolve makes `handle_callback` use a socket the request
  does not have yet: the client dies (`ResolveFails`).  A server dies if its
  watchdog has closed the connection of a queued request whose handler asks for
  the peer's address, or if its processor thread is woken up without a task
  (`Dies`).  Requests dispatched by callbacks may be starved (`rpc_starved`).
* A page of a mirror that is written back while only its beginning is valid
  loses its end in the blob (`ragged`; `CommitKeepsTheRest` excepts these pages).
* A crash, a close after a failed rename and a close that cannot open the index
  lose from the next commit what the user wrote since the index was saved last,
  and a file whose index is cut off cannot be opened again.  `UserBytesCommitted`
  is about the other bytes (`mine` after such an end is `kept`).
* Opening a file of a version that is not published yet succeeds, and reading
  it ends the daemon (`terminated`).

## 7. Only model-checked, and not modelled

The liveness properties (`EveryTicketPublished`, `SilentProvidersBlacklisted`,
`PagesEventuallyReadable`, `ReportsCatchUp`, `WaitAnswersAll`,
`EveryRequestAnswered`, `ConnectionsReleased`) stay with TLC: TLAPS has no
support for fairness here.  Everything else a passing run checks is proved.

Not modelled:

* `null_bw_map` (a map that grows before each write and never evicts) and
  `read_partial_page` (a `read_page` that cuts out a range); `cache_mt`'s
  `resize`, `free` and `clear`, of which only the first is called, to grow.
* Two mirrors of one file at a time, and commits over a later version than the
  one the file shows; `setattr`, `readdir`'s listing, `flush`.  After a failed
  rename the index is saved under the clone's name, where a later mirror of the
  clone would load it over a fresh file: the mirrors of the clone are not
  followed.
* `remove` of the DHT client, which nobody calls; `get_locations`, which starts
  as `read` does and fetches nothing; reads of size 0.
* Data races inside one operation: the provider manager's table under its
  `null_lock`, and the listener's `rpc_client`, used from two threads.  What a
  callback does through a dangling reference when `read` returns early, and a
  spurious wake-up of the writer thread, are undefined behaviour of the same
  kind.
* Collisions of the 32-bit random numbers in page keys, a matter of probability.
* The Bamboo DHT client (not selected by the build), the language bindings and
  `lib/`, which keep no state, serialisation, buffers and socket I/O, scripts.

## 8. Plan

The modules and the proofs of their invariants, action properties and of the
refinement are complete in the order in which they were planned.  What would say
more:

1. `current_size`: the snapshots of `VersionedBlob` have no size, because a
   version may record less than its predecessor (section 2).  An abstract size
   that the code does implement would be worth stating.
2. What `get` still guarantees once a full provider has been overtaken and the
   index may be out of order (section 6).
