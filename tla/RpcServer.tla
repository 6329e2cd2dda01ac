------------------------------ MODULE RpcServer ------------------------------
(***************************************************************************)
(* rpc_server: the io thread accepts connections and reads requests, one   *)
(* processor thread per server runs their handlers in the order of the     *)
(* task queue, and the watchdog of its timer_queue_t closes connections.   *)
(* A connection is known by the client's socket.                           *)
(***************************************************************************)
EXTENDS RpcMeta, Sequences

CONSTANTS
    Registered,     \* requests for an RPC the server has registered
    ExtRequests     \* those whose handler is told the address of the sender

ASSUME ServerAssumption ==
    /\ Registered \subseteq Requests
    /\ ExtRequests \subseteq Requests

VARIABLES
    phase,          \* connection -> what the server does with it
    rpc,            \* connection -> the request its rpc_data holds
    answer,         \* connection -> header.status of the answer
    connected,      \* connections whose socket is open at the server
    watched,        \* connections in timer_table
    task_queue,     \* server -> connections whose request waits for the processor
    alive,          \* servers whose process lives
    handled         \* request -> the statuses its handler returned, in order

serverVars == <<phase, rpc, answer, connected, watched, task_queue, alive, handled>>

Phases == {"none", "read", "queued", "write", "gone"}

ServerInit ==
    /\ phase = [s \in Requests |-> "none"]
    /\ rpc = [s \in Requests |-> None]
    /\ answer = [s \in Requests |-> None]
    /\ connected = {} /\ watched = {}
    /\ task_queue = [h \in Hosts |-> << >>]
    /\ alive = Hosts
    /\ handled = [r \in Requests |-> << >>]

At(s, p) == HostOf[s] \in alive /\ phase[s] = p

\* handle_accept and handle_connection
Accept(s) ==
    /\ At(s, "none")
    /\ phase' = [phase EXCEPT ![s] = "read"]
    /\ connected' = connected \cup {s}
    /\ watched' = watched \cup {s}
    /\ UNCHANGED <<rpc, answer, task_queue, alive, handled>>

\* No handler holds rpc_data any more: the socket is destroyed with it.
Drop(s) ==
    /\ phase' = [phase EXCEPT ![s] = "gone"]
    /\ connected' = connected \ {s}
    /\ watched' = watched \ {s}
    /\ rpc' = [rpc EXCEPT ![s] = None]
    /\ answer' = [answer EXCEPT ![s] = None]

\* handle_header, handle_params: request r has arrived.
ReadRequest(s, r) ==
    /\ At(s, "read")
    /\ IF r \in Registered
       THEN /\ rpc' = [rpc EXCEPT ![s] = r]
            /\ phase' = [phase EXCEPT ![s] = "queued"]
            /\ task_queue' = [task_queue EXCEPT ![HostOf[s]] = Append(@, s)]
            /\ UNCHANGED <<answer, connected, watched>>
       ELSE Drop(s) /\ UNCHANGED task_queue
    /\ UNCHANGED <<alive, handled>>

\* Mutant: the error code of a read is not looked at.
TransferFails_Ignored(s) ==
    /\ At(s, "write")
    /\ Drop(s)
    /\ UNCHANGED <<task_queue, alive, handled>>

\* A read or a write of the exchange fails.
TransferFails(s) ==
    /\ At(s, "read") \/ At(s, "write")
    /\ Drop(s)
    /\ UNCHANGED <<task_queue, alive, handled>>

\* Mutant: processor_exec leaves the task it has taken in the queue.
Process_KeepsTask(h, st) ==
    /\ h \in alive /\ task_queue[h] # << >>
    /\ LET s == Head(task_queue[h])
       IN  /\ rpc[s] \in ExtRequests => s \in connected
           /\ st = "ok" \/ rpc[s] \in Refusable
           /\ handled' = [handled EXCEPT ![rpc[s]] = Append(@, st)]
           /\ answer' = [answer EXCEPT ![s] = st]
           /\ phase' = [phase EXCEPT ![s] = "write"]
    /\ UNCHANGED <<task_queue, rpc, connected, watched, alive>>

\* processor_exec: the handler of the first task runs, whether its connection
\* is still open or not, and the answer is sent.
Process(h, st) ==
    /\ h \in alive /\ task_queue[h] # << >>
    /\ LET s == Head(task_queue[h])
       IN  /\ rpc[s] \in ExtRequests => s \in connected
           /\ st = "ok" \/ rpc[s] \in Refusable
           /\ handled' = [handled EXCEPT ![rpc[s]] = Append(@, st)]
           /\ answer' = [answer EXCEPT ![s] = st]
           /\ phase' = [phase EXCEPT ![s] = "write"]
    /\ task_queue' = [task_queue EXCEPT ![h] = Tail(@)]
    /\ UNCHANGED <<rpc, connected, watched, alive>>

\* remote_endpoint() of a socket that is closed throws, and nothing catches
\* it in the processor thread; or the thread's single wait ends without a
\* task and it takes the front of an empty queue.  The process dies.
Dies(h) ==
    /\ h \in alive
    /\ task_queue[h] # << >> =>
          LET s == Head(task_queue[h]) IN rpc[s] \in ExtRequests /\ s \notin connected
    /\ alive' = alive \ {h}
    /\ connected' = {s \in connected : HostOf[s] # h}
    /\ watched' = {s \in watched : HostOf[s] # h}
    /\ task_queue' = [task_queue EXCEPT ![h] = << >>]
    /\ phase' = [s \in Requests |-> IF HostOf[s] = h THEN "gone" ELSE phase[s]]
    /\ rpc' = [s \in Requests |-> IF HostOf[s] = h THEN None ELSE rpc[s]]
    /\ answer' = [s \in Requests |-> IF HostOf[s] = h THEN None ELSE answer[s]]
    /\ UNCHANGED handled

\* handle_answer after the last result: the timer is cancelled and
\* handle_connection starts it again.
WriteAnswer(s) ==
    /\ At(s, "write")
    /\ phase' = [phase EXCEPT ![s] = "read"]
    /\ watched' = watched \cup {s}
    /\ rpc' = [rpc EXCEPT ![s] = None]
    /\ answer' = [answer EXCEPT ![s] = None]
    /\ UNCHANGED <<connected, task_queue, alive, handled>>

\* watchdog_exec finds the timer of s expired, whatever s is doing.
Expire(s) ==
    /\ HostOf[s] \in alive /\ s \in watched
    /\ watched' = watched \ {s}
    /\ connected' = connected \ {s}
    /\ UNCHANGED <<phase, rpc, answer, task_queue, alive, handled>>
=============================================================================
