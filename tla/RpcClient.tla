------------------------------ MODULE RpcClient ------------------------------
(***************************************************************************)
(* rpc_client with its request_queue_t, cached_resolver and timer_queue_t. *)
(* One thread runs the io_service, so a completion handler is one step,    *)
(* user callback and handle_next_request included; the watchdog of         *)
(* timer_queue_t is the only other thread.  A socket is known by the       *)
(* request it was created for.                                             *)
(***************************************************************************)
EXTENDS RpcMeta

CONSTANTS
    Retry,          \* request -> the request its callback sends if it failed, or None
    WAIT_LIMIT,
    NamesResolve    \* does every host name resolve?

ASSUME ClientAssumption ==
    /\ Retry \in [Requests -> Requests \cup {None}]
    \* every dispatch makes a request of its own
    /\ \A p, q \in Requests : Retry[p] = Retry[q] /\ Retry[p] # None => p = q
    /\ WAIT_LIMIT \in Nat \ {0}
    /\ NamesResolve \in BOOLEAN

VARIABLES
    request_map,    \* requests queued and not started
    pending_map,    \* requests started that have no connection yet
    resolving,      \* requests with an async_resolve under way
    connecting,     \* sockets with an async_connect under way
    stage,          \* request -> the asynchronous operation of its exchange
    sock,           \* rpc_data->socket of a request being exchanged
    open,           \* open sockets
    timers,         \* sockets in timer_table
    waiting_count,
    host_cache,     \* hosts in the resolver's cache
    status,         \* request -> what its callback was told, or where it is
    running,        \* is the caller in run()?
    crashed

queueVars == <<request_map, pending_map, waiting_count>>
netVars == <<resolving, connecting, stage, sock, open, timers, host_cache>>
clientVars == <<queueVars, netVars, status, running, crashed>>

\* Writing header and parameters, reading header and results.
Stages == {"write", "read"}

Active == {r \in Requests : stage[r] # "none"}

Roots == {r \in Requests : \A p \in Requests : Retry[p] # r}

OfHost(S, r) == {u \in S : HostOf[u] = HostOf[r]}

ClientInit ==
    /\ request_map = {} /\ pending_map = {} /\ resolving = {} /\ connecting = {}
    /\ stage = [r \in Requests |-> "none"]
    /\ sock = [r \in Requests |-> None]
    /\ open = {} /\ timers = {} /\ host_cache = {}
    /\ waiting_count = 0
    /\ status = [r \in Requests |-> "new"]
    /\ running = FALSE
    /\ crashed = FALSE

-----------------------------------------------------------------------------
\* Mutant: the limit is never tested.
Filled_Unlimited(Q, count) == {Q}

\* The while loop of handle_next_request: the requests dequeue_any takes from
\* Q, in no particular order, as long as fewer than WAIT_LIMIT are waiting.
Filled(Q, count) ==
    {S \in SUBSET Q : \/ S = Q /\ (S = {} \/ count + Cardinality(S) <= WAIT_LIMIT)
                      \/ S # Q /\ Cardinality(S) = (IF count < WAIT_LIMIT THEN WAIT_LIMIT - count ELSE 0)}

\* host_cache.dispatch of the requests in S.  For a host in the cache
\* handle_resolve runs at once: a new socket, its timer, async_connect.
\* conns, socks, watched: what the step leaves connecting, open and timed.
Start(S, conns, socks, watched) ==
    LET known == {r \in S : HostOf[r] \in host_cache}
    IN  /\ resolving' = resolving \cup (S \ known)
        /\ connecting' = conns \cup known
        /\ open' = socks \cup known
        /\ timers' = watched \cup known

\* dispatch, before run()
Dispatch(r) ==
    /\ ~running /\ ~crashed
    /\ r \in Roots /\ status[r] = "new"
    /\ status' = [status EXCEPT ![r] = "sent"]
    /\ \E S \in Filled(request_map \cup {r}, waiting_count) :
          /\ request_map' = (request_map \cup {r}) \ S
          /\ pending_map' = pending_map \cup S
          /\ waiting_count' = waiting_count + Cardinality(S)
          /\ Start(S, connecting, open, timers)
    /\ UNCHANGED <<stage, sock, host_cache, running, crashed>>

Run ==
    /\ ~running /\ ~crashed
    /\ request_map \cup pending_map # {}
    /\ running' = TRUE
    /\ UNCHANGED <<queueVars, netVars, status, crashed>>

\* What the user callback of r dispatches.
Retries(r, st) == IF st # "ok" /\ Retry[r] # None THEN {Retry[r]} ELSE {}

\* Mutants: handle_callback leaves the socket open after an error; the timer
\* is not started again for a reused socket; a request served over a reused
\* socket stays pending.
StillOpen_AfterError(s, st) == s \in open

Retimed_NotStarted(s, reuse) == timers \ {s}

StillPending_Kept(waiting, reuse) == waiting

StillOpen(s, st) == s \in open /\ st # "error"

\* cancel_timer, and add_timer if another request takes over the socket.
Retimed(s, reuse) == (timers \ {s}) \cup {s : n \in reuse}

StillPending(waiting, reuse) == waiting \ reuse

\* The requests that may take over an open socket of r's host.
NextOnSocket(r, queued, pending) ==
    IF OfHost(queued, r) # {} THEN OfHost(queued, r) ELSE OfHost(pending, r)

\* handle_callback of r, whose socket is s: the user callback and what it
\* dispatches (first), then handle_next_request: a request that takes over
\* the socket (reuse), and those that get a new one (more).
HandleCallback(r, st, s, conns, pending) ==
    LET retry == Retries(r, st)
        count == waiting_count - 1
    IN  \E first \in IF retry = {} THEN {{}} ELSE Filled(request_map \cup retry, count) :
        LET queued == (request_map \cup retry) \ first
            waiting == pending \cup first
            heirs == IF StillOpen(s, st) THEN NextOnSocket(r, queued, waiting) ELSE {}
        IN  \E reuse \in IF heirs = {} THEN {{}} ELSE {{n} : n \in heirs} :
            \E more \in Filled(queued \ reuse, count + Cardinality(first) + Cardinality(reuse)) :
               /\ request_map' = (queued \ reuse) \ more
               /\ pending_map' = StillPending(waiting, reuse) \cup more
               /\ waiting_count' = count + Cardinality(first) + Cardinality(reuse) + Cardinality(more)
               /\ status' = [u \in Requests |->
                                CASE u = r -> st [] u \in retry -> "sent" [] OTHER -> status[u]]
               /\ stage' = [u \in Requests |->
                               CASE u \in reuse -> "write" [] u = r -> "none" [] OTHER -> stage[u]]
               /\ sock' = [u \in Requests |->
                              CASE u \in reuse -> s [] u = r -> None [] OTHER -> sock[u]]
               /\ Start(first \cup more, conns, (open \ {s}) \cup {s : n \in reuse}, Retimed(s, reuse))
               /\ UNCHANGED <<host_cache, running, crashed>>

-----------------------------------------------------------------------------
IoRuns == running /\ ~crashed

HandleResolve(r) ==
    /\ IoRuns /\ r \in resolving
    /\ resolving' = resolving \ {r}
    /\ host_cache' = host_cache \cup {HostOf[r]}
    /\ connecting' = connecting \cup {r}
    /\ open' = open \cup {r}
    /\ timers' = timers \cup {r}
    /\ UNCHANGED <<queueVars, stage, sock, status, running, crashed>>

\* The name does not resolve: handle_callback closes rpc_data->socket, which
\* is null, and the process dies.  If another socket has taken the request
\* over meanwhile nothing is left to do.
ResolveFails(r) ==
    /\ IoRuns /\ r \in resolving /\ ~NamesResolve
    /\ resolving' = resolving \ {r}
    /\ crashed' = (r \in pending_map)
    /\ open' = IF crashed' THEN {} ELSE open
    /\ timers' = IF crashed' THEN {} ELSE timers
    /\ UNCHANGED <<queueVars, connecting, stage, sock, host_cache, status, running>>

\* The connection came too late: its request is on another socket.
HandleConnectUnwanted(r) ==
    /\ IoRuns /\ r \in connecting \ pending_map
    /\ connecting' = connecting \ {r}
    /\ open' = open \ {r}
    /\ timers' = timers \ {r}
    /\ UNCHANGED <<queueVars, resolving, stage, sock, host_cache, status, running, crashed>>

HandleConnect(r) ==
    /\ IoRuns /\ r \in connecting \cap pending_map
    /\ connecting' = connecting \ {r}
    /\ pending_map' = pending_map \ {r}
    /\ sock' = [sock EXCEPT ![r] = r]
    /\ stage' = [stage EXCEPT ![r] = "write"]
    /\ UNCHANGED <<request_map, waiting_count, resolving, open, timers, host_cache, status, running, crashed>>

ConnectFails(r) ==
    /\ IoRuns /\ r \in connecting \cap pending_map
    /\ HandleCallback(r, "error", r, connecting \ {r}, pending_map \ {r})

\* handle_header, handle_params: the last parameter has been written and the
\* answer is waited for.
HandleParams(r) ==
    /\ IoRuns /\ stage[r] = "write"
    /\ stage' = [stage EXCEPT ![r] = "read"]
    /\ UNCHANGED <<queueVars, resolving, connecting, sock, open, timers, host_cache, status, running, crashed>>

\* The whole answer has been read.
HandleAnswer(r, st) ==
    /\ IoRuns /\ stage[r] = "read"
    /\ HandleCallback(r, st, sock[r], connecting, pending_map)

\* The answers a handler may give to r, for a client on its own.
MayAnswer(r, st) == st = "ok" \/ r \in Refusable

\* An operation of the exchange fails, or the answer has the wrong size.
ExchangeFails(r) ==
    /\ IoRuns /\ r \in Active
    /\ HandleCallback(r, "error", sock[r], connecting, pending_map)

\* watchdog_exec finds the timer of s expired.
Watchdog(s) ==
    /\ ~crashed /\ s \in timers
    /\ timers' = timers \ {s}
    /\ open' = open \ {s}
    /\ UNCHANGED <<queueVars, resolving, connecting, stage, sock, host_cache, status, running, crashed>>

\* io_service.run() returns: no asynchronous operation is left.
RunReturns ==
    /\ IoRuns
    /\ resolving = {} /\ connecting = {} /\ Active = {}
    /\ running' = FALSE
    /\ waiting_count' = 0
    /\ request_map' = {} /\ pending_map' = {}
    /\ timers' = {}
    /\ status' = [r \in Requests |-> IF r \in request_map \cup pending_map THEN "dropped" ELSE status[r]]
    /\ UNCHANGED <<resolving, connecting, stage, sock, open, host_cache, crashed>>

ClientNext ==
    \/ Run \/ RunReturns
    \/ \E r \in Requests :
          \/ Dispatch(r)
          \/ HandleResolve(r) \/ ResolveFails(r)
          \/ HandleConnect(r) \/ HandleConnectUnwanted(r) \/ ConnectFails(r)
          \/ HandleParams(r)
          \/ \E st \in Statuses : MayAnswer(r, st) /\ HandleAnswer(r, st)
          \/ ExchangeFails(r)
          \/ Watchdog(r)

ClientSpec == ClientInit /\ [][ClientNext]_clientVars

-----------------------------------------------------------------------------
(* Properties *)

\* Every variable has its type in rpc_client.hpp.
ClientTypeOK ==
    /\ request_map \subseteq Requests /\ pending_map \subseteq Requests
    /\ resolving \subseteq Requests /\ connecting \subseteq Requests
    /\ stage \in [Requests -> Stages \cup {"none"}]
    /\ sock \in [Requests -> Requests \cup {None}]
    /\ open \subseteq Requests /\ timers \subseteq Requests
    /\ waiting_count \in 0..(WAIT_LIMIT + 1)
    /\ host_cache \subseteq Hosts
    /\ status \in [Requests -> Outcomes \cup {"new", "sent", "dropped"}]
    /\ running \in BOOLEAN /\ crashed \in BOOLEAN

\* A request whose callback is due is in
\* exactly one place: queued, waiting for a connection, or being exchanged.
\* None is lost or sent twice, whichever socket it ends up on.
OnePlace ==
       /\ request_map \cup pending_map \cup Active = {r \in Requests : status[r] = "sent"}
       /\ request_map \cap pending_map = {} /\ request_map \cap Active = {} /\ pending_map \cap Active = {}

\* The client never holds more than WAIT_LIMIT + 1 sockets (the comment at
\* WAIT_LIMIT: the system caps open handles), although connections whose
\* request was taken over by another socket stay open for a while.
HandlesBounded == Cardinality(open) <= WAIT_LIMIT + 1

\* run(): "It will ensure all callbacks will eventually execute": it never
\* returns with a request that nobody has answered.
AllCallbacksExecute == \A r \in Requests : status[r] # "dropped"
=============================================================================
