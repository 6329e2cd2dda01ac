--------------------------------- MODULE Dht ---------------------------------
(***************************************************************************)
(* The metadata DHT: clients with a cached_dht over a simple_dht, and the  *)
(* gateways, sdht servers that keep the entries with page_manager.  A put  *)
(* is copied to `replication` gateways and a get tries them in turn; what  *)
(* a client has pending for a gateway travels as one request in a round of *)
(* wait().                                                                 *)
(*                                                                         *)
(* A key is put once and by one client (the keys of metadata nodes hold a  *)
(* version), so a value is known by its key.  How page_manager keeps the   *)
(* entries is the subject of PageStore; here a gateway may miss, at any    *)
(* time, an entry it has stored.                                           *)
(***************************************************************************)
EXTENDS Integers, Sequences, FiniteSets

CONSTANTS
    Clients, Keys, Gateways,
    Writers,        \* the clients that write
    Empty,          \* buffer_wrapper(), the value of a missing entry
    replication,    \* copies of an entry
    choose_gateway(_, _),   \* key, copy -> gateway: a hash of the key
    Space,          \* how many entries a gateway may start with room for
    MaxFaults       \* bound: exchanges that fail

ASSUME DhtAssumption ==
    /\ replication \in Nat \ {0}
    /\ Space \subseteq Nat /\ MaxFaults \in Nat
    /\ \A k \in Keys, i \in 0..(replication - 1) : choose_gateway(k, i) \in Gateways
    /\ Empty \notin Keys /\ {"none", "pending"} \cap (Keys \cup {Empty}) = {}
    /\ Writers \subseteq Clients

VARIABLES
    phase,          \* client -> out of wait(), or in tp.run() before or after
                    \* the first callback
    cache,          \* client -> keys in its cache
    pending_puts,   \* client, gateway -> keys to put
    pending_gets,   \* client, gateway -> keys to get, and which copy is tried
    flight,         \* requests in flight
    late,           \* requests given up that the gateway may still execute
    puts,           \* key -> its put: copies answered and stored, result
    gets,           \* client, key -> its get: result and, as history, the
                    \* copies whose exchange failed and whether a gateway
                    \* that answered could not read the key
    stored,         \* gateway -> keys it holds
    space_left,     \* gateway -> entries it still takes
    faults

client == <<phase, cache, pending_puts, pending_gets, flight, puts, gets>>
server == <<late, stored, space_left>>
vars == <<client, server, faults>>

Copies == 0..(replication - 1)
NotPut == [answered |-> 0, ok |-> 0, result |-> "none"]
NotAsked == [result |-> "none", failed |-> {}, absent |-> FALSE]
Nothing == [g \in Gateways |-> << >>]

Init ==
    /\ phase = [c \in Clients |-> "idle"]
    /\ cache = [c \in Clients |-> {}]
    /\ pending_puts = [c \in Clients |-> Nothing]
    /\ pending_gets = [c \in Clients |-> Nothing]
    /\ flight = {}
    /\ late = {}
    /\ puts = [k \in Keys |-> NotPut]
    /\ gets = [c \in Clients |-> [k \in Keys |-> NotAsked]]
    /\ stored = [g \in Gateways |-> {}]
    /\ space_left \in [Gateways -> Space]
    /\ faults = 0

-----------------------------------------------------------------------------
(* The client's calls *)

\* Does the application have control: out of wait(), or in a callback?
MayCall(c) == phase[c] \in {"idle", "called"}

\* Mutant: a gateway that two copies hash to gets one of them.
CopiesAt_Distinct(k, g) == IF \E i \in Copies : choose_gateway(k, i) = g THEN <<k>> ELSE << >>

\* What put pushes on a gateway's queue: the key once per copy.
CopiesAt(k, g) == [i \in 1..Cardinality({i \in Copies : choose_gateway(k, i) = g}) |-> k]

\* cached_dht::put: the cache takes the entry before any gateway has.
Put(c, k) ==
    /\ c \in Writers
    /\ phase[c] = "idle"
    /\ puts[k] = NotPut
    /\ cache' = [cache EXCEPT ![c] = @ \cup {k}]
    /\ puts' = [puts EXCEPT ![k].result = "pending"]
    /\ pending_puts' = [pending_puts EXCEPT ![c] = [g \in Gateways |-> @[g] \o CopiesAt(k, g)]]
    /\ UNCHANGED <<phase, pending_gets, flight, gets, server, faults>>

\* simple_dht::get of copy i.
Asked(pending, k, i) ==
    [pending EXCEPT ![choose_gateway(k, i)] = Append(@, [key |-> k, copy |-> i])]

\* cached_dht::get: the cache answers at once, and never takes what the
\* gateways answer.
GetCached(c, k) ==
    /\ MayCall(c)
    /\ k \in cache[c]
    /\ gets[c][k].result = "none"
    /\ gets' = [gets EXCEPT ![c][k].result = k]
    /\ UNCHANGED <<phase, cache, pending_puts, pending_gets, flight, puts,
                   server, faults>>

Get(c, k) ==
    /\ MayCall(c)
    /\ k \notin cache[c]
    /\ gets[c][k].result = "none"
    /\ gets' = [gets EXCEPT ![c][k].result = "pending"]
    /\ pending_gets' = [pending_gets EXCEPT ![c] = Asked(@, k, 0)]
    /\ UNCHANGED <<phase, cache, pending_puts, flight, puts, server, faults>>

-----------------------------------------------------------------------------
(* wait(): rounds of one request per gateway and kind *)

\* Mutant: the loop ends when no puts are pending.
Pending_Puts(c) == \E g \in Gateways : pending_puts[c][g] # << >>

Pending(c) == \E g \in Gateways : pending_puts[c][g] # << >> \/ pending_gets[c][g] # << >>

Request(c, g, kind, entries) ==
    [client |-> c, gateway |-> g, kind |-> kind, entries |-> entries]

Requests(c) ==
    {Request(c, g, "READ", pending_gets[c][g]) :
        g \in {g \in Gateways : pending_gets[c][g] # << >>}} \cup
    {Request(c, g, "WRITE", pending_puts[c][g]) :
        g \in {g \in Gateways : pending_puts[c][g] # << >>}}

\* tp.run() returns when it has executed every callback.
RunReturned(c) == phase[c] # "idle" /\ \A r \in flight : r.client # c

\* wait() is called, or tp.run() returns: one pass of the loop.
Round(c) ==
    /\ phase[c] = "idle" \/ RunReturned(c)
    /\ Pending(c)
    /\ flight' = flight \cup Requests(c)
    /\ pending_puts' = [pending_puts EXCEPT ![c] = Nothing]
    /\ pending_gets' = [pending_gets EXCEPT ![c] = Nothing]
    /\ phase' = [phase EXCEPT ![c] = "run"]
    /\ UNCHANGED <<cache, puts, gets, server, faults>>

\* A pass finds nothing pending: wait() returns.
WaitReturns(c) ==
    /\ RunReturned(c)
    /\ ~Pending(c)
    /\ phase' = [phase EXCEPT ![c] = "idle"]
    /\ UNCHANGED <<cache, pending_puts, pending_gets, flight, puts, gets, server, faults>>

-----------------------------------------------------------------------------
(* A gateway: page_manager *)

\* Mutant: write_page reports a page it could not write and goes on.
WriteStatus_Any(room, n) == IF room > 0 THEN "ok" ELSE "eres"

\* The status write_page returns for n entries when there is room for `room`.
WriteStatus(room, n) == IF n <= room THEN "ok" ELSE "eres"

\* write_page: entries are stored up to the first that does not fit.
WritePage(r) ==
    LET fit == Len(r.entries) <= space_left[r.gateway]
        n == IF fit THEN Len(r.entries) ELSE space_left[r.gateway]
    IN  /\ stored' = [stored EXCEPT ![r.gateway] = @ \cup {r.entries[i] : i \in 1..n}]
        /\ space_left' = [space_left EXCEPT ![r.gateway] = @ - n]

\* Mutant: the data of one entry is answered for the next one that is
\* missing.
ReadPage_Stale(entries, found) ==
    [i \in 1..Len(entries) |->
        LET last == {j \in 1..i : entries[j].key \in found}
        IN  IF last = {} THEN Empty ELSE entries[CHOOSE j \in last : \A l \in last : l <= j].key]

\* read_page: an empty value for each entry that page_cache->read does not
\* find.
ReadPage(entries, found) ==
    [i \in 1..Len(entries) |-> IF entries[i].key \in found THEN entries[i].key ELSE Empty]

-----------------------------------------------------------------------------
(* The callbacks *)

\* Mutant: any answer counts as a stored copy.
CountsAsStored_All(status) == TRUE

CountsAsStored(status) == status = "ok"

\* handle_put_callback, for the n copies of a put in an answered request.
Counted(put, n, status) ==
    LET answered == put.answered + n
        ok == put.ok + (IF CountsAsStored(status) THEN n ELSE 0)
    IN  [put EXCEPT !.answered = answered, !.ok = ok,
            !.result = IF answered # replication THEN @ ELSE IF ok > 0 THEN "ok" ELSE "eobj"]

\* The copies of a put in a queue or a request.
Places(entries, k) == {i \in DOMAIN entries : entries[i] = k}

\* handle_put_callbacks: every put of the request shares its status.
HandlePuts(r, status) ==
    /\ r.kind = "WRITE"
    /\ flight' = flight \ {r}
    /\ phase' = [phase EXCEPT ![r.client] = "called"]
    /\ puts' = [k \in Keys |->
            IF Places(r.entries, k) # {}
            THEN Counted(puts[k], Cardinality(Places(r.entries, k)), status)
            ELSE puts[k]]
    /\ UNCHANGED <<cache, pending_puts, pending_gets, gets>>

\* Mutant: the last copy is not tried.
Retries_Last(e, status) == status \notin {"ok", "eobj"} /\ e.copy + 2 < replication

\* handle_get_callback: any other error than a missing entry tries the next copy.
Retries(e, status) == status \notin {"ok", "eobj"} /\ e.copy + 1 # replication

\* What handle_get_callbacks gives to the i-th callback.
ValueAt(r, result, i) == IF Len(result) # Len(r.entries) THEN Empty ELSE result[i]

\* What the callbacks of a request ask gateway g for, in their order.
Retried(r, status, g) ==
    LET again == {i \in DOMAIN r.entries :
                    /\ Retries(r.entries[i], status)
                    /\ choose_gateway(r.entries[i].key, r.entries[i].copy + 1) = g}
        nth(n) == r.entries[CHOOSE i \in again : Cardinality({j \in again : j <= i}) = n]
    IN  [n \in 1..Cardinality(again) |-> [key |-> nth(n).key, copy |-> nth(n).copy + 1]]

\* The keys of a request.
KeysOf(r) == {r.entries[i].key : i \in DOMAIN r.entries}

\* The copies of key k a request asks for.
CopiesTried(r, k) == {r.entries[i].copy : i \in {i \in DOMAIN r.entries : r.entries[i].key = k}}

\* handle_get_callbacks and, for the history, the copies that failed and the
\* keys the gateway did not find.
HandleGets(r, status, result, found) ==
    LET done == {i \in DOMAIN r.entries : ~Retries(r.entries[i], status)}
    IN  /\ flight' = flight \ {r}
        /\ phase' = [phase EXCEPT ![r.client] = "called"]
        /\ pending_gets' = [pending_gets EXCEPT ![r.client] =
                [g \in Gateways |-> @[g] \o Retried(r, status, g)]]
        /\ gets' = [gets EXCEPT ![r.client] = [k \in Keys |->
                [result |-> IF \E i \in done : r.entries[i].key = k
                            THEN ValueAt(r, result, CHOOSE i \in done : r.entries[i].key = k)
                            ELSE @[k].result,
                 failed |-> IF status = "failed" THEN @[k].failed \cup CopiesTried(r, k) ELSE @[k].failed,
                 absent |-> @[k].absent \/ k \in KeysOf(r) \ found]]]
        /\ UNCHANGED <<cache, pending_puts, puts>>

-----------------------------------------------------------------------------
(* Exchanges.  The gateway's handler and the client's callbacks are one    *)
(* step: nobody else sees what a client knows in between.                  *)

WriteAnswered(r) ==
    /\ WritePage(r)
    /\ HandlePuts(r, WriteStatus(space_left[r.gateway], Len(r.entries)))
    /\ UNCHANGED <<late, faults>>

\* page_cache->read may miss an entry that is stored: one that was evicted
\* and that the writer thread has not written yet.
ReadAnswered(r) ==
    /\ r.kind = "READ"
    /\ \E found \in SUBSET (stored[r.gateway] \cap KeysOf(r)) :
          LET data == ReadPage(r.entries, found)
              missing == Len(data) < Len(r.entries) \/ \E i \in DOMAIN data : data[i] = Empty
          IN  HandleGets(r, IF missing THEN "eobj" ELSE "ok", data, found)
    /\ UNCHANGED <<server, faults>>

\* The exchange of a write fails or times out before, or after, the gateway
\* has executed it; a request that was sent may be executed later.
WriteFails(r) ==
    /\ faults < MaxFaults
    /\ faults' = faults + 1
    /\ HandlePuts(r, "failed")
    /\ \/ WritePage(r) /\ UNCHANGED late
       \/ late' = late \cup {r} /\ UNCHANGED <<stored, space_left>>

ReadFails(r) ==
    /\ r.kind = "READ"
    /\ faults < MaxFaults
    /\ faults' = faults + 1
    /\ HandleGets(r, "failed", << >>, KeysOf(r))
    /\ UNCHANGED server

ServeLate(r) ==
    /\ WritePage(r)
    /\ late' = late \ {r}
    /\ UNCHANGED <<client, faults>>

-----------------------------------------------------------------------------
Progress(c) == Round(c) \/ WaitReturns(c)

Answer(r) == WriteAnswered(r) \/ ReadAnswered(r)

Next ==
    \/ \E c \in Clients, k \in Keys : Put(c, k) \/ GetCached(c, k) \/ Get(c, k)
    \/ \E c \in Clients : Progress(c)
    \/ \E r \in flight : Answer(r) \/ WriteFails(r) \/ ReadFails(r)
    \/ \E r \in late : ServeLate(r)

Spec == Init /\ [][Next]_vars

\* The application calls wait() after its puts and gets, and rpc_client
\* answers or gives up every request of a round (Rpc).
LiveSpec ==
    /\ Spec
    /\ \A c \in Clients : WF_vars(Progress(c))
    /\ WF_vars(\E r \in flight : Answer(r))

-----------------------------------------------------------------------------
(* Properties *)

\* Every variable has its type in simple_dht.hpp and cached_dht.hpp, and a
\* gateway never takes more entries than it has space for
\* (page_manager::write_page checks before each one).
DhtTypeOK ==
    /\ phase \in [Clients -> {"idle", "run", "called"}]
    /\ cache \in [Clients -> SUBSET Keys]
    /\ \A c \in Clients, g \in Gateways :
            /\ pending_puts[c][g] \in Seq(Keys)
            /\ pending_gets[c][g] \in Seq([key : Keys, copy : Copies])
    /\ \A k \in Keys :
            /\ puts[k].answered \in 0..replication /\ puts[k].ok \in 0..puts[k].answered
            /\ puts[k].result \in {"none", "pending", "ok", "eobj"}
    /\ \A c \in Clients, k \in Keys : gets[c][k].result \in Keys \cup {"none", "pending", Empty}
    /\ stored \in [Gateways -> SUBSET Keys]
    /\ space_left \in [Gateways -> Nat]

\* The copies of key k that are queued, and those in flight.
Queued(k) ==
    UNION {{<<c, g, i>> : i \in Places(pending_puts[c][g], k)} : c \in Clients, g \in Gateways}

Sent(k) ==
    UNION {{<<r, i>> : i \in Places(r.entries, k)} : r \in {r \in flight : r.kind = "WRITE"}}

Outstanding(k) == Cardinality(Queued(k)) + Cardinality(Sent(k))

\* The state has its types, and no copy of a put is counted twice or
\* forgotten, even when copies hash to one gateway and share a request: until its callback is called, each is
\* queued, in flight or in the status word of handle_put_callback.
CopiesCounted ==
    /\ DhtTypeOK
    /\ \A k \in Keys : puts[k].result # "none" => puts[k].answered + Outstanding(k) = replication

\* A put whose callback got rpcstatus::ok is held by one of its gateways,
\* although handle_put_callbacks gives all puts of a request one status and
\* write_page may stop in the middle of a request.
AckedPutStored ==
    \A k \in Keys :
        puts[k].result = "ok" => \E i \in Copies : k \in stored[choose_gateway(k, i)]

\* A get is answered with its own key's value, whatever keys are missing from
\* the request that carries it (the positions of read_page's results and of
\* handle_get_callbacks match), and only if the key was put.
ValuesBelong ==
    \A c \in Clients, k \in Keys :
        gets[c][k].result \in Keys => gets[c][k].result = k /\ puts[k] # NotPut

\* A get is answered with the empty value only if a gateway that answered it
\* could not read this very key, whatever the other keys of the request, or
\* if the exchange of every one of its copies failed (read_page,
\* handle_get_callbacks, handle_get_callback).
EmptyOnlyIfAbsent ==
    \A c \in Clients, k \in Keys :
        gets[c][k].result = Empty => gets[c][k].absent \/ gets[c][k].failed = Copies

Answered ==
    /\ \A c \in Clients : phase[c] = "idle"
    /\ \A k \in Keys : puts[k].result # "pending"
    /\ \A c \in Clients, k \in Keys : gets[c][k].result # "pending"

\* wait() always comes to an end, although callbacks queue more requests
\* while it runs, and by then every put and get has had its callback: the
\* round of a retried get is not the last, and no callback is dropped when
\* the queues are swapped.
WaitAnswersAll == []<>Answered
=============================================================================
