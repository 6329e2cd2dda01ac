--------------------------------- MODULE Rpc ---------------------------------
(***************************************************************************)
(* Clients and servers together: RpcClient's sockets are the connections   *)
(* of the servers of the hosts, and a byte stream in each direction joins  *)
(* the two ends.  The streams (TCP) are external: what was written is read *)
(* in order, both ends may stop hearing of each other at any time.         *)
(***************************************************************************)
EXTENDS RpcClient, RpcServer

VARIABLES
    up,             \* socket -> what the client wrote and the server has not read
    down            \* and the other way

rpcVars == <<clientVars, serverVars, up, down>>

Init ==
    /\ ClientInit /\ ServerInit
    /\ up = [s \in Requests |-> << >>]
    /\ down = [s \in Requests |-> << >>]

\* What is left to read in each direction, when u and d have been written
\* and not read: nobody reads from a socket that is done with.
Streams(u, d) ==
    /\ up' = [s \in Requests |-> IF phase'[s] = "gone" THEN << >> ELSE u[s]]
    /\ down' = [s \in Requests |-> IF s \in open' \/ \E r \in Requests : sock'[r] = s
                                   THEN d[s] ELSE << >>]

\* Steps of one side that transfer nothing.
AtClient(step) == step /\ UNCHANGED serverVars /\ Streams(up, down)

AtServer(step) == step /\ UNCHANGED clientVars /\ Streams(up, down)

\* The connection is made if the server's process lives; it may be accepted
\* later.
MakeConnection(r) ==
    /\ HostOf[r] \in alive
    /\ AtClient(HandleConnect(r))

\* The exchange at the client.
SendRequest(r) ==
    /\ HandleParams(r)
    /\ UNCHANGED serverVars
    /\ Streams([up EXCEPT ![sock[r]] = Append(@, r)], down)

ReceiveAnswer(r) ==
    /\ r \in Active /\ down[sock[r]] # << >>
    /\ HandleAnswer(r, Head(down[sock[r]]))
    /\ UNCHANGED serverVars
    /\ Streams(up, [down EXCEPT ![sock[r]] = Tail(@)])

\* And at the server.
TakeConnection(s) == s \in open /\ AtServer(Accept(s))

TakeRequest(s) ==
    /\ s \in connected /\ up[s] # << >>
    /\ ReadRequest(s, Head(up[s]))
    /\ UNCHANGED clientVars
    /\ Streams([up EXCEPT ![s] = Tail(@)], down)

GiveAnswer(s) ==
    /\ s \in connected
    /\ WriteAnswer(s)
    /\ UNCHANGED clientVars
    /\ Streams(up, [down EXCEPT ![s] = Append(@, answer[s])])

Broken(s) == s \notin open \/ s \notin connected

ServerTransferFails(s) == Broken(s) /\ AtServer(TransferFails(s))

Next ==
    \/ AtClient(Run) \/ AtClient(RunReturns)
    \/ \E r \in Requests :
          \/ AtClient(Dispatch(r))
          \/ AtClient(HandleResolve(r)) \/ AtClient(ResolveFails(r))
          \/ AtClient(HandleConnectUnwanted(r)) \/ AtClient(ConnectFails(r))
          \/ AtClient(ExchangeFails(r)) \/ AtClient(Watchdog(r))
          \/ MakeConnection(r)
          \/ SendRequest(r) \/ ReceiveAnswer(r)
    \/ \E s \in Requests :
          \/ TakeConnection(s) \/ TakeRequest(s) \/ GiveAnswer(s)
          \/ ServerTransferFails(s) \/ AtServer(Expire(s))
    \/ \E h \in Hosts :
          \/ \E st \in Statuses : AtServer(Process(h, st))
          \/ AtServer(Dies(h))

Spec == Init /\ [][Next]_rpcVars

\* The client's io thread: run(), names that resolve, and the handlers of
\* operations on sockets that were closed.
ClientIo ==
    \/ AtClient(Run)
    \/ \E r \in Requests :
          \/ AtClient(HandleResolve(r)) \/ AtClient(HandleConnectUnwanted(r))
          \/ r \notin open /\ AtClient(ConnectFails(r))
          \/ sock[r] \notin open /\ AtClient(ExchangeFails(r))

ClientWatchdog == \E s \in Requests : AtClient(Watchdog(s))

ServerIo == \E s \in Requests : ServerTransferFails(s)

\* The io threads run the handlers that are ready, and the client's watchdog
\* wakes up every five seconds.  No server is assumed to answer, or to be
\* there at all.
LiveSpec == Spec /\ WF_rpcVars(ClientIo) /\ WF_rpcVars(ClientWatchdog) /\ WF_rpcVars(ServerIo)

-----------------------------------------------------------------------------
(* Properties *)

\* Every variable has its type in rpc_client.hpp and rpc_server.hpp.
TypeOK ==
    /\ ClientTypeOK
    /\ phase \in [Requests -> Phases]
    /\ rpc \in [Requests -> Requests \cup {None}]
    /\ answer \in [Requests -> Statuses \cup {None}]
    /\ connected \subseteq Requests /\ watched \subseteq Requests
    /\ task_queue \in [Hosts -> Seq(Requests)]
    /\ alive \subseteq Hosts
    /\ handled \in [Requests -> Seq(Statuses)]

\* No handler runs twice for one request, and what a callback is told is what
\* the handler returned for this very request: an answer never reaches the
\* next request that uses the connection, however the exchange before it
\* ended and whichever socket the request was moved to.
AnswersMatch ==
    \A r \in Requests :
       /\ Len(handled[r]) <= 1
       /\ status[r] \in Statuses => handled[r] = <<status[r]>>

\* Has some callback dispatched a request of its own?
Redispatched == \E r \in Requests : Retry[r] # None /\ status[Retry[r]] # "new"

\* Every request of the caller gets its callback, whatever the servers do
\* and even if they say nothing for ever, unless a name does not resolve
\* (the client dies) or callbacks dispatch requests (see rpc_starved).
EveryRequestAnswered ==
    \A r \in Roots : status[r] = "sent" ~> (crashed \/ Redispatched \/ status[r] \in Outcomes)

\* A connection the client has closed does not keep the server reading or
\* writing for ever (every handler drops rpc_data on an error).
ConnectionsReleased ==
    \A s \in Requests :
       s \notin open /\ phase[s] \in {"read", "write"}
          ~> phase[s] \in {"gone", "queued"}
=============================================================================
