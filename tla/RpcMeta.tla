------------------------------- MODULE RpcMeta -------------------------------
(***************************************************************************)
(* What rpc_client and rpc_server share (rpc_meta.hpp): requests, the      *)
(* hosts they are addressed to, and the status of an answer.               *)
(***************************************************************************)
EXTENDS Integers, FiniteSets

CONSTANTS
    Requests,       \* the requests of the caller and of its callbacks
    None,
    Hosts,          \* servers
    HostOf,         \* request -> host it is addressed to
    Refusable       \* requests whose handler may return another status than ok

ASSUME MetaAssumption ==
    /\ IsFiniteSet(Requests) /\ None \notin Requests
    /\ HostOf \in [Requests -> Hosts]
    /\ Refusable \subseteq Requests

\* rpcstatus: ok, or one of earg, eres, eobj.
Statuses == {"ok", "refused"}

\* What a client callback may be told: a status, or that the exchange failed.
Outcomes == Statuses \cup {"error"}
=============================================================================
