------------------------------ MODULE RpcProofs ------------------------------
(***************************************************************************)
(* What Rpc's runs check on three requests, proved for any number of       *)
(* requests and hosts and any WAIT_LIMIT: the types, OnePlace,             *)
(* HandlesBounded and AnswersMatch.                                        *)
(***************************************************************************)
EXTENDS Rpc, FiniteSetTheorems, TLAPS

-----------------------------------------------------------------------------
(* The inductive invariant *)

\* A callback's request has not been dispatched before its callback runs.
RetriesAreNew ==
    \A p \in Requests : Retry[p] # None /\ status[p] \notin Outcomes => status[Retry[p]] = "new"

\* The requests that nobody has started to resolve or connect.
Unstarted == request_map \cup {r \in Requests : status[r] = "new"}

\* A request is started once, and an exchange has a socket of its own.
SocketsApart ==
    /\ Unstarted \cap (resolving \cup connecting) = {}
    /\ resolving \cap connecting = {}
    /\ \A r \in Requests : sock[r] \in Requests <=> r \in Active
    /\ \A q, r \in Active : sock[q] = sock[r] => q = r
    /\ \A r \in Active : sock[r] \notin Unstarted \cup resolving \cup connecting

\* Nothing is under way on connection s.
Idle(s) == up[s] = << >> /\ down[s] = << >> /\ phase[s] \in {"none", "read", "gone"}

\* A socket is idle until its exchange writes to it.
FreshSocketsIdle ==
    /\ \A s \in Unstarted \cup resolving \cup connecting : Idle(s)
    /\ \A r \in Requests : stage[r] = "write" => Idle(sock[r])

\* The open sockets are being connected or in an exchange, and there is room
\* for each, and for the connections nobody wants any more, in waiting_count.
Orphans == (resolving \cup connecting) \ pending_map

SocketsCounted ==
    /\ open \subseteq connecting \cup {sock[r] : r \in Active}
    /\ Cardinality(pending_map \cup Active) + Cardinality(Orphans) <= waiting_count

\* A connection carries one request or one answer at a time.
OneMessage ==
    \A s \in Requests :
       /\ up[s] = << >> \/ \E r \in Requests : up[s] = <<r>>
       /\ down[s] = << >> \/ \E st \in Statuses : down[s] = <<st>>
       /\ up[s] # << >> => down[s] = << >> /\ phase[s] \notin {"queued", "write"}
       /\ down[s] # << >> => phase[s] \notin {"queued", "write"}
       /\ phase[s] = "queued" => rpc[s] \in Requests
       /\ phase[s] = "write" => answer[s] \in Statuses

\* A task of a server is a connection of its own whose request is queued.
TasksQueued ==
    \A h \in Hosts :
       /\ \A i \in 1..Len(task_queue[h]) :
             phase[task_queue[h][i]] = "queued" /\ HostOf[task_queue[h][i]] = h
       /\ \A i, j \in 1..Len(task_queue[h]) : task_queue[h][i] = task_queue[h][j] => i = j

\* Request r is on its way to its handler over connection s.
Carries(s, r) == up[s] = <<r>> \/ (phase[s] = "queued" /\ rpc[s] = r)

\* No connection has seen request r.
Unsent(r) == r \in Unstarted \cup pending_map \/ stage[r] = "write"

\* A request on its way is on one connection only, has not been handled, and
\* nobody else uses the connection.
CarriedOnce ==
    \A r \in Requests :
       /\ Unsent(r) => handled[r] = << >>
       /\ \A s \in Requests : Carries(s, r) =>
             /\ ~Unsent(r) /\ handled[r] = << >>
             /\ \A q \in Active : sock[q] = s => q = r
             /\ stage[r] = "read" => sock[r] = s
             /\ \A t \in Requests : Carries(t, r) => s = t

\* The answer on the connection of an exchange is the answer to its request.
AnswersBelong ==
    \A r \in Requests : stage[r] = "read" =>
       /\ phase[sock[r]] = "write" => handled[r] = <<answer[sock[r]]>>
       /\ down[sock[r]] # << >> => handled[r] = down[sock[r]]

ClientInv == ClientTypeOK /\ OnePlace /\ RetriesAreNew /\ SocketsApart /\ SocketsCounted

StreamTypeOK == up \in [Requests -> Seq(Requests)] /\ down \in [Requests -> Seq(Statuses)]

ExchangeInv ==
    /\ FreshSocketsIdle /\ OneMessage /\ TasksQueued /\ CarriedOnce /\ AnswersBelong /\ AnswersMatch

RpcInv == TypeOK /\ StreamTypeOK /\ ClientInv /\ ExchangeInv

-----------------------------------------------------------------------------
(* The client *)

\* The steps of the client, whatever status an answer has.
ClientStep ==
    \/ Run \/ RunReturns
    \/ \E r \in Requests :
          \/ Dispatch(r)
          \/ HandleResolve(r) \/ ResolveFails(r)
          \/ HandleConnect(r) \/ HandleConnectUnwanted(r) \/ ConnectFails(r)
          \/ HandleParams(r)
          \/ \E st \in Statuses : HandleAnswer(r, st)
          \/ ExchangeFails(r)
          \/ Watchdog(r)

\* Sets of requests are finite.
LEMMA RequestsFinite ==
    ASSUME NEW S \in SUBSET Requests
    PROVE  IsFiniteSet(S) /\ Cardinality(S) \in Nat
BY MetaAssumption, FS_Subset, FS_CardinalityType

\* A union has at most as many elements as its parts.
LEMMA UnionBound ==
    ASSUME NEW S \in SUBSET Requests, NEW T \in SUBSET Requests
    PROVE  Cardinality(S \cup T) <= Cardinality(S) + Cardinality(T)
<1>1. IsFiniteSet(S) /\ IsFiniteSet(T) /\ Cardinality(S) \in Nat /\ Cardinality(T) \in Nat
  BY RequestsFinite
<1>2. Cardinality(S \cap T) \in Nat
  <2>1. S \cap T \in SUBSET Requests  OBVIOUS
  <2> QED  BY <2>1, RequestsFinite
<1>3. Cardinality(S \cup T) = Cardinality(S) + Cardinality(T) - Cardinality(S \cap T)
  BY <1>1, FS_Union
<1> QED  BY <1>1, <1>2, <1>3

\* A subset has at most as many elements.
LEMMA SubsetBound ==
    ASSUME NEW T \in SUBSET Requests, NEW S \in SUBSET T
    PROVE  Cardinality(S) <= Cardinality(T)
BY RequestsFinite, FS_Subset

\* handle_next_request takes queued requests, and none beyond WAIT_LIMIT.
LEMMA FilledProps ==
    ASSUME NEW Q \in SUBSET Requests, NEW c \in Nat, NEW S \in Filled(Q, c)
    PROVE  /\ S \subseteq Q
           /\ S = {} \/ c + Cardinality(S) <= WAIT_LIMIT
<1>1. S \in SUBSET Requests /\ S \subseteq Q
  BY DEF Filled
<1>2. IsFiniteSet(S) /\ Cardinality(S) \in Nat
  BY <1>1, RequestsFinite
<1>3. CASE S = Q
  BY <1>3, <1>1 DEF Filled
<1>4. CASE S # Q /\ c < WAIT_LIMIT
  BY <1>4, <1>1, <1>2, ClientAssumption DEF Filled
<1>5. CASE S # Q /\ ~(c < WAIT_LIMIT)
  <2>1. Cardinality(S) = 0
    BY <1>5 DEF Filled
  <2> QED  BY <2>1, <1>1, <1>2, FS_EmptySet
<1> QED  BY <1>3, <1>4, <1>5

\* What handle_callback does, with the requests that get a new socket
\* (started) and the one that takes the old one over (reuse) in one set each.
CallbackEffect(r, st, s, conns, pending, started, reuse) ==
    LET queued == request_map \cup Retries(r, st)
    IN  /\ started \subseteq queued
        /\ reuse = {} \/ \E n \in queued \cup pending : /\ StillOpen(s, st) /\ reuse = {n}
        /\ request_map' = queued \ (started \cup reuse)
        /\ pending_map' = (pending \cup started) \ reuse
        /\ waiting_count' = waiting_count - 1 + Cardinality(started) + Cardinality(reuse)
        /\ waiting_count' <= WAIT_LIMIT + 1
        /\ status' = [u \in Requests |->
                         CASE u = r -> st [] u \in Retries(r, st) -> "sent" [] OTHER -> status[u]]
        /\ stage' = [u \in Requests |->
                        CASE u \in reuse -> "write" [] u = r -> "none" [] OTHER -> stage[u]]
        /\ sock' = [u \in Requests |->
                       CASE u \in reuse -> s [] u = r -> None [] OTHER -> sock[u]]
        /\ Start(started, conns, (open \ {s}) \cup {s : n \in reuse}, Retimed(s, reuse))
        /\ UNCHANGED <<host_cache, running, crashed>>

\* The two rounds of handle_next_request (one for the callback's own request,
\* one for the socket) amount to CallbackEffect.
LEMMA CallbackFlat ==
    ASSUME ClientTypeOK, NEW r \in Requests, NEW st, NEW s \in Requests,
           NEW conns, NEW pending \in SUBSET Requests,
           waiting_count >= 1, HandleCallback(r, st, s, conns, pending)
    PROVE  \E started, reuse \in SUBSET Requests : CallbackEffect(r, st, s, conns, pending, started, reuse)
<1> DEFINE retry == Retries(r, st)
           count == waiting_count - 1
<1>1. retry \in SUBSET Requests /\ request_map \in SUBSET Requests
  BY ClientAssumption DEF Retries, ClientTypeOK
<1>2. count \in Nat /\ count <= WAIT_LIMIT /\ waiting_count \in Nat
  BY ClientAssumption DEF ClientTypeOK
<1> HIDE DEF retry
<1> DEFINE queued(first) == (request_map \cup retry) \ first
           waiting(first) == pending \cup first
           heirs(first) == IF StillOpen(s, st) THEN NextOnSocket(r, queued(first), waiting(first)) ELSE {}
           Rounds(first, reuse, more) ==
               /\ request_map' = (queued(first) \ reuse) \ more
               /\ pending_map' = StillPending(waiting(first), reuse) \cup more
               /\ waiting_count' = count + Cardinality(first) + Cardinality(reuse) + Cardinality(more)
               /\ status' = [u \in Requests |->
                                CASE u = r -> st [] u \in retry -> "sent" [] OTHER -> status[u]]
               /\ stage' = [u \in Requests |->
                               CASE u \in reuse -> "write" [] u = r -> "none" [] OTHER -> stage[u]]
               /\ sock' = [u \in Requests |->
                              CASE u \in reuse -> s [] u = r -> None [] OTHER -> sock[u]]
               /\ Start(first \cup more, conns, (open \ {s}) \cup {s : n \in reuse}, Retimed(s, reuse))
               /\ UNCHANGED <<host_cache, running, crashed>>
<1>3. PICK first \in (IF retry = {} THEN {{}} ELSE Filled(request_map \cup retry, count)) :
         \E reuse \in IF heirs(first) = {} THEN {{}} ELSE {{n} : n \in heirs(first)} :
         \E more \in Filled(queued(first) \ reuse, count + Cardinality(first) + Cardinality(reuse)) :
            Rounds(first, reuse, more)
  BY Zenon DEF HandleCallback, retry
<1>4. PICK reuse \in (IF heirs(first) = {} THEN {{}} ELSE {{n} : n \in heirs(first)}) :
         \E more \in Filled(queued(first) \ reuse, count + Cardinality(first) + Cardinality(reuse)) :
            Rounds(first, reuse, more)
  BY <1>3, Zenon
<1>5. PICK more \in Filled(queued(first) \ reuse, count + Cardinality(first) + Cardinality(reuse)) :
            Rounds(first, reuse, more)
  BY <1>4, Zenon
<1>6. /\ first \subseteq request_map \cup retry
      /\ first = {} \/ count + Cardinality(first) <= WAIT_LIMIT
  <2>1. CASE retry = {}
    BY <2>1
  <2>2. CASE retry # {}
    <3>1. request_map \cup retry \in SUBSET Requests
      BY <1>1
    <3>2. first \in Filled(request_map \cup retry, count)
      BY <2>2
    <3> QED  BY <3>1, <3>2, <1>2, FilledProps
  <2> QED  BY <2>1, <2>2
<1>7. first \in SUBSET Requests /\ IsFiniteSet(first) /\ Cardinality(first) \in Nat
  BY <1>6, <1>1, RequestsFinite
<1>8. count + Cardinality(first) <= WAIT_LIMIT
  BY <1>6, <1>2, FS_EmptySet, ClientAssumption
<1>9. heirs(first) \subseteq queued(first) \cup waiting(first) /\ (heirs(first) # {} => StillOpen(s, st))
  BY DEF NextOnSocket, OfHost
<1>10. reuse = {} \/ \E n \in request_map \cup retry \cup pending : StillOpen(s, st) /\ reuse = {n}
  <2> HIDE DEF heirs
  <2>1. CASE heirs(first) = {}
    BY <2>1
  <2>2. CASE heirs(first) # {}
    <3>1. PICK n \in heirs(first) : reuse = {n}
      BY <2>2
    <3>2. n \in queued(first) \cup waiting(first) /\ StillOpen(s, st)
      BY <3>1, <1>9
    <3> QED  BY <3>1, <3>2, <1>6
  <2> QED  BY <2>1, <2>2
<1> HIDE DEF heirs
<1>11. reuse \in SUBSET Requests /\ Cardinality(reuse) \in Nat /\ Cardinality(reuse) <= 1
  <2>1. CASE reuse = {}
    BY <2>1, FS_EmptySet
  <2>2. CASE reuse # {}
    <3>1. PICK n \in Requests : reuse = {n}
      BY <2>2, <1>10, <1>1
    <3>2. Cardinality({n}) = 1
      BY FS_Singleton
    <3> QED  BY <3>1, <3>2
  <2> QED  BY <2>1, <2>2
<1>12. /\ more \subseteq queued(first) \ reuse
       /\ more = {} \/ count + Cardinality(first) + Cardinality(reuse) + Cardinality(more) <= WAIT_LIMIT
  <2>1. queued(first) \ reuse \in SUBSET Requests
    BY <1>1
  <2>2. count + Cardinality(first) + Cardinality(reuse) \in Nat
    BY <1>2, <1>7, <1>11
  <2> HIDE DEF queued, count
  <2> QED  BY <2>1, <2>2, FilledProps
<1>13. more \in SUBSET Requests /\ IsFiniteSet(more) /\ Cardinality(more) \in Nat
  BY <1>12, <1>1, RequestsFinite
<1>14. waiting_count' <= WAIT_LIMIT + 1
  BY <1>5, <1>2, <1>7, <1>8, <1>11, <1>12, <1>13, FS_EmptySet, ClientAssumption
<1> DEFINE started == first \cup more
<1>15. Cardinality(started) = Cardinality(first) + Cardinality(more)
  <2>1. first \cap more = {}
    BY <1>12
  <2> QED  BY <2>1, <1>7, <1>13, FS_Union, FS_EmptySet
<1>16. started \in SUBSET Requests /\ started \subseteq request_map \cup retry
  BY <1>7, <1>13, <1>6, <1>12
<1>17. request_map' = (request_map \cup retry) \ (started \cup reuse)
  BY <1>5
<1>18. pending_map' = (pending \cup started) \ reuse
  BY <1>5, <1>12 DEF StillPending
<1>19. waiting_count' = waiting_count - 1 + Cardinality(started) + Cardinality(reuse)
  BY <1>5, <1>15, <1>2, <1>7, <1>11, <1>13
<1>20. CallbackEffect(r, st, s, conns, pending, started, reuse)
  BY <1>5, <1>10, <1>14, <1>16, <1>17, <1>18, <1>19, Zenon DEF CallbackEffect, retry
<1> QED  BY <1>20, <1>16, <1>11

\* A callback of r on socket s sends nothing: the request that takes the
\* socket over was not sent before, and takes it over after an answer only.
SendsNothing(r, st, s) ==
    /\ (Unstarted \cup resolving \cup connecting)' \subseteq Unstarted \cup resolving \cup connecting
    /\ \A u \in Requests :
          /\ Unsent(u)' => Unsent(u)
          /\ stage'[u] = "read" => stage[u] = "read" /\ sock'[u] = sock[u]
          /\ stage'[u] = "write" => \/ stage[u] = "write" /\ sock'[u] = sock[u]
                                    \/ st # "error" /\ sock'[u] = s
          /\ status'[u] \in Statuses => status'[u] = status[u] \/ (u = r /\ status'[u] = st)

\* handle_callback at the end of an exchange, or after a connection failed,
\* keeps the client's invariant and sends nothing.
LEMMA CallbackClient ==
    ASSUME ClientInv, NEW r \in Requests, NEW st \in Outcomes, NEW s \in Requests,
           NEW conns \in SUBSET Requests, NEW pending \in SUBSET Requests,
           \/ r \in Active /\ s = sock[r] /\ conns = connecting /\ pending = pending_map
           \/ /\ r \in connecting \cap pending_map /\ s = r /\ st = "error"
              /\ conns = connecting \ {r} /\ pending = pending_map \ {r},
           HandleCallback(r, st, s, conns, pending)
    PROVE  ClientInv' /\ SendsNothing(r, st, s)
<1> DEFINE retry == Retries(r, st)
           queued == request_map \cup retry
<1>1. waiting_count \in Nat /\ waiting_count >= 1
  <2>1. r \in pending_map \cup Active /\ pending_map \cup Active \in SUBSET Requests
    BY DEF ClientInv, ClientTypeOK, Active
  <2>2. {r} \in SUBSET (pending_map \cup Active) /\ Cardinality({r}) = 1
    BY <2>1, FS_Singleton
  <2>3. Cardinality(pending_map \cup Active) >= 1
    BY <2>1, <2>2, SubsetBound, RequestsFinite
  <2>4. Orphans \in SUBSET Requests
    BY DEF ClientInv, ClientTypeOK, Orphans
  <2>5. Cardinality(Orphans) \in Nat /\ Cardinality(pending_map \cup Active) \in Nat
    BY <2>4, <2>1, RequestsFinite
  <2> QED  BY <2>3, <2>5, ClientAssumption DEF ClientInv, SocketsCounted, ClientTypeOK
<1>2. PICK started, reuse \in SUBSET Requests : CallbackEffect(r, st, s, conns, pending, started, reuse)
  BY <1>1, CallbackFlat DEF ClientInv
<1>3. /\ started \subseteq queued
      /\ request_map' = queued \ (started \cup reuse)
      /\ pending_map' = (pending \cup started) \ reuse
      /\ waiting_count' = waiting_count - 1 + Cardinality(started) + Cardinality(reuse)
      /\ waiting_count' <= WAIT_LIMIT + 1
      /\ UNCHANGED <<host_cache, running, crashed>>
      /\ reuse = {} \/ \E n \in queued \cup pending : st # "error" /\ reuse = {n}
  BY <1>2 DEF CallbackEffect, StillOpen
<1>4. PICK known \in SUBSET started :
         /\ resolving' = resolving \cup (started \ known)
         /\ connecting' = conns \cup known
         /\ open' = ((open \ {s}) \cup {s : n \in reuse}) \cup known
         /\ timers' = Retimed(s, reuse) \cup known
  BY <1>2 DEF CallbackEffect, Start
<1>5. /\ request_map \in SUBSET Requests /\ pending_map \in SUBSET Requests
      /\ resolving \in SUBSET Requests /\ connecting \in SUBSET Requests
      /\ open \in SUBSET Requests /\ Active \in SUBSET Requests
  BY DEF ClientInv, ClientTypeOK, Active
<1>6. status[r] = "sent" /\ r \notin request_map /\ r \notin pending
  BY DEF ClientInv, OnePlace
<1>7. \A u \in retry : u \in Requests /\ Retry[r] = u /\ status[u] = "new" /\ u # r
  BY <1>6, ClientAssumption, MetaAssumption DEF Retries, ClientInv, RetriesAreNew, Outcomes, Statuses
<1>8. \A u \in retry : u \notin request_map \cup pending_map \cup Active \cup resolving \cup connecting
  BY <1>7 DEF ClientInv, OnePlace, SocketsApart, Unstarted
<1>9. r \notin reuse /\ r \notin started /\ reuse \cap Active = {}
  BY <1>3, <1>6, <1>7, <1>8 DEF ClientInv, OnePlace
<1>10. \A u \in Requests :
         /\ status'[u] = IF u = r THEN st ELSE IF u \in retry THEN "sent" ELSE status[u]
         /\ stage'[u] = IF u \in reuse THEN "write" ELSE IF u = r THEN "none" ELSE stage[u]
         /\ sock'[u] = IF u \in reuse THEN s ELSE IF u = r THEN None ELSE sock[u]
  <2> SUFFICES ASSUME NEW u \in Requests
               PROVE  /\ status'[u] = IF u = r THEN st ELSE IF u \in retry THEN "sent" ELSE status[u]
                      /\ stage'[u] = IF u \in reuse THEN "write" ELSE IF u = r THEN "none" ELSE stage[u]
                      /\ sock'[u] = IF u \in reuse THEN s ELSE IF u = r THEN None ELSE sock[u]
    OBVIOUS
  <2> HIDE DEF retry
  <2>1. status'[u] = CASE u = r -> st [] u \in retry -> "sent" [] OTHER -> status[u]
    BY <1>2 DEF CallbackEffect, retry
  <2>2. stage'[u] = CASE u \in reuse -> "write" [] u = r -> "none" [] OTHER -> stage[u]
    BY <1>2 DEF CallbackEffect
  <2>3. sock'[u] = CASE u \in reuse -> s [] u = r -> None [] OTHER -> sock[u]
    BY <1>2 DEF CallbackEffect
  <2> QED  BY <2>1, <2>2, <2>3, <1>7, <1>9
<1>11. Active' = (Active \ {r}) \cup reuse
  BY <1>10, <1>9 DEF Active
<1>12. r \in Active => pending = pending_map /\ conns = connecting /\ s = sock[r]
  BY DEF ClientInv, OnePlace
<1>13. r \notin Active => s = r /\ reuse = {} /\ r \in pending_map /\ r \in connecting
                          /\ conns = connecting \ {r} /\ pending = pending_map \ {r}
  BY <1>3
<1> HIDE DEF retry
<1>14. ClientTypeOK'
  <2>1. status' \in [Requests -> Outcomes \cup {"new", "sent", "dropped"}]
    BY <1>2 DEF CallbackEffect, ClientInv, ClientTypeOK
  <2>2. stage' \in [Requests -> Stages \cup {"none"}] /\ sock' \in [Requests -> Requests \cup {None}]
    BY <1>2 DEF CallbackEffect, ClientInv, ClientTypeOK, Stages
  <2>3. waiting_count' \in 0..(WAIT_LIMIT + 1)
    BY <1>1, <1>3, RequestsFinite, ClientAssumption
  <2>4. /\ request_map' \subseteq Requests /\ pending_map' \subseteq Requests
        /\ resolving' \subseteq Requests /\ connecting' \subseteq Requests
        /\ open' \subseteq Requests /\ timers' \subseteq Requests
    BY <1>3, <1>4, <1>5, <1>7 DEF Retimed, ClientInv, ClientTypeOK
  <2> QED  BY <2>1, <2>2, <2>3, <2>4, <1>3 DEF ClientInv, ClientTypeOK
<1>15. OnePlace'
  <2>1. {u \in Requests : status'[u] = "sent"} = ({u \in Requests : status[u] = "sent"} \ {r}) \cup retry
    BY <1>10, <1>7 DEF Outcomes, Statuses
  <2>2. request_map' \cup pending_map' \cup Active'
           = ((request_map \cup pending_map \cup Active) \ {r}) \cup retry
    BY <1>3, <1>6, <1>7, <1>11, <1>12, <1>13, <1>9
  <2>3. /\ request_map' \cap pending_map' = {} /\ request_map' \cap Active' = {}
        /\ pending_map' \cap Active' = {}
    BY <1>3, <1>8, <1>11, <1>12, <1>13 DEF ClientInv, OnePlace
  <2> QED  BY <2>1, <2>2, <2>3 DEF ClientInv, OnePlace
<1>16. RetriesAreNew'
  <2> SUFFICES ASSUME NEW p \in Requests, Retry[p] # None, status'[p] \notin Outcomes
               PROVE  status'[Retry[p]] = "new"
    BY DEF RetriesAreNew
  <2>1. p # r /\ status[p] \notin Outcomes
    BY <1>10, <1>7 DEF Outcomes, Statuses
  <2>2. Retry[p] \in Requests /\ status[Retry[p]] = "new"
    BY <2>1, ClientAssumption DEF ClientInv, RetriesAreNew
  <2>3. Retry[p] # r /\ Retry[p] \notin retry
    BY <2>1, <2>2, <1>6, <1>7, ClientAssumption
  <2> QED  BY <2>2, <2>3, <1>10
<1>17. SocketsApart'
  <2>1. Unstarted' \subseteq (Unstarted \cup retry) \ started
    <3>1. \A u \in started : u \in request_map \cup retry /\ (u \in request_map => status[u] = "sent")
      BY <1>3 DEF ClientInv, OnePlace
    <3> QED  BY <3>1, <1>3, <1>10, <1>7 DEF Unstarted, Outcomes, Statuses
  <2>2. started \subseteq Unstarted \cup retry
    BY <1>3 DEF Unstarted
  <2>3. Unstarted' \cap (resolving' \cup connecting') = {}
    BY <2>1, <1>4, <1>8, <1>12, <1>13 DEF ClientInv, SocketsApart
  <2>4. resolving' \cap connecting' = {}
    BY <2>2, <1>4, <1>8, <1>12, <1>13 DEF ClientInv, SocketsApart
  <2>5. \A u \in Requests : sock'[u] \in Requests <=> u \in Active'
    BY <1>10, <1>9, <1>11, MetaAssumption DEF ClientInv, SocketsApart
  <2>6. \A q, u \in Active' : sock'[q] = sock'[u] => q = u
    BY <1>3, <1>10, <1>5, <1>9, <1>11, <1>12, <1>13 DEF ClientInv, SocketsApart
  <2>7. \A u \in Active' : sock'[u] \notin Unstarted' \cup resolving' \cup connecting'
    <3>1. Unstarted' \cup resolving' \cup connecting' \subseteq Unstarted \cup resolving \cup connecting
      BY <2>1, <2>2, <1>4, <1>12, <1>13, <1>7 DEF Unstarted
    <3>2. \A u \in Active' : \E q \in Active : sock'[u] = sock[q]
      BY <1>10, <1>11, <1>12, <1>13, <1>5
    <3> QED  BY <3>1, <3>2 DEF ClientInv, SocketsApart
  <2> QED  BY <2>3, <2>4, <2>5, <2>6, <2>7 DEF SocketsApart
<1>18. open' \subseteq connecting' \cup {sock'[u] : u \in Active'}
  <2> SUFFICES ASSUME NEW o \in open', o \notin connecting' PROVE \E u \in Active' : sock'[u] = o
    OBVIOUS
  <2>1. CASE o = s /\ reuse # {}
    BY <2>1, <1>10, <1>11
  <2>2. CASE ~(o = s /\ reuse # {})
    <3>1. o \in open /\ o # s /\ o \notin connecting
      BY <2>2, <1>4, <1>12, <1>13
    <3>2. PICK q \in Active : sock[q] = o
      BY <3>1 DEF ClientInv, SocketsCounted
    <3>3. q # r /\ q \notin reuse
      BY <3>1, <3>2, <1>9, <1>12
    <3> QED  BY <3>2, <3>3, <1>10, <1>5, <1>11
  <2> QED  BY <2>1, <2>2
<1>19. Cardinality((pending_map \cup Active)') + Cardinality(Orphans') <= waiting_count'
  <2> DEFINE busy == (pending_map \cup Active) \ {r}
  <2>1. /\ busy \in SUBSET Requests /\ Orphans \in SUBSET Requests
        /\ busy \cup started \in SUBSET Requests /\ Orphans \cup reuse \in SUBSET Requests
        /\ (busy \cup started) \cup reuse \in SUBSET Requests
    BY <1>5 DEF Orphans
  <2>2. /\ Cardinality(started) \in Nat /\ Cardinality(reuse) \in Nat /\ Cardinality(busy) \in Nat
        /\ Cardinality(Orphans) \in Nat /\ Cardinality(busy \cup started) \in Nat
        /\ Cardinality((busy \cup started) \cup reuse) \in Nat /\ Cardinality(Orphans \cup reuse) \in Nat
    BY <2>1, RequestsFinite
  <2>3. Cardinality(busy) + 1 + Cardinality(Orphans) <= waiting_count
    <3>1. r \in pending_map \cup Active /\ IsFiniteSet(pending_map \cup Active)
          /\ Cardinality(pending_map \cup Active) \in Nat
      <4>1. pending_map \cup Active \in SUBSET Requests
        BY <1>5
      <4> QED  BY <4>1, <1>13, RequestsFinite
    <3>2. Cardinality(busy) = Cardinality(pending_map \cup Active) - 1
      <4> HIDE DEF Active
      <4>1. \A B : IsFiniteSet(B) /\ r \in B => Cardinality(B \ {r}) = Cardinality(B) - 1
        BY FS_RemoveElement
      <4> QED  BY <4>1, <3>1, Zenon
    <3> QED  BY <3>1, <3>2, <2>2, <1>1 DEF ClientInv, SocketsCounted
  <2>4. Cardinality(busy \cup started) <= Cardinality(busy) + Cardinality(started)
    BY <2>1, UnionBound
  <2>5. Cardinality((busy \cup started) \cup reuse) <= Cardinality(busy \cup started) + Cardinality(reuse)
    BY <2>1, UnionBound
  <2>6. Cardinality(Orphans \cup reuse) <= Cardinality(Orphans) + Cardinality(reuse)
    BY <2>1, UnionBound
  <2>7. (pending_map \cup Active)' \subseteq (busy \cup started) \cup reuse
    BY <1>3, <1>6, <1>11, <1>12, <1>13
  <2>8. Orphans' \subseteq Orphans \cup reuse
    BY <1>3, <1>4, <1>12, <1>13 DEF Orphans, ClientInv, SocketsApart
  <2>9. /\ (pending_map \cup Active)' \in SUBSET ((busy \cup started) \cup reuse)
        /\ Orphans' \in SUBSET (Orphans \cup reuse)
        /\ (pending_map \cup Active)' \in SUBSET Requests /\ Orphans' \in SUBSET Requests
    BY <2>7, <2>8, <2>1
  <2>10. Cardinality((pending_map \cup Active)') \in Nat /\ Cardinality(Orphans') \in Nat
    BY <2>9, RequestsFinite
  <2>11. CASE reuse \subseteq pending \cup started
    <3>1. (pending_map \cup Active)' \in SUBSET (busy \cup started)
      BY <2>11, <1>3, <1>6, <1>11, <1>12, <1>13
    <3>2. Cardinality((pending_map \cup Active)') <= Cardinality(busy \cup started)
      BY <3>1, <2>1, SubsetBound
    <3>3. Cardinality(Orphans') <= Cardinality(Orphans \cup reuse)
      BY <2>9, <2>1, SubsetBound
    <3> QED  BY <3>2, <3>3, <2>2, <2>3, <2>4, <2>6, <2>10, <1>3, <1>1
  <2>12. CASE ~(reuse \subseteq pending \cup started)
    <3>1. PICK n \in queued : reuse = {n} /\ n \notin pending \cup started
      BY <2>12, <1>3
    <3>2. n \notin resolving \cup connecting
      BY <3>1, <1>8 DEF ClientInv, SocketsApart, Unstarted
    <3>3. Orphans' \in SUBSET Orphans
      BY <3>1, <3>2, <1>3, <1>4, <1>12, <1>13, <2>8 DEF Orphans
    <3>4. Cardinality(Orphans') <= Cardinality(Orphans)
      BY <3>3, <2>1, SubsetBound
    <3>5. Cardinality((pending_map \cup Active)') <= Cardinality((busy \cup started) \cup reuse)
      BY <2>9, <2>1, SubsetBound
    <3> QED  BY <3>4, <3>5, <2>2, <2>3, <2>4, <2>5, <2>10, <1>3, <1>1
  <2> QED  BY <2>11, <2>12
<1>20. SendsNothing(r, st, s)
  <2>1. (Unstarted \cup resolving \cup connecting)' \subseteq Unstarted \cup resolving \cup connecting
    BY <1>3, <1>4, <1>7, <1>10, <1>12, <1>13 DEF Unstarted, Outcomes, Statuses
  <2>2. \A u \in Requests : Unsent(u)' => Unsent(u)
    BY <1>3, <1>7, <1>9, <1>10, <1>12, <1>13 DEF Unsent, Unstarted, Outcomes, Statuses
  <2>3. \A u \in Requests :
          /\ stage'[u] = "read" => stage[u] = "read" /\ sock'[u] = sock[u]
          /\ stage'[u] = "write" => \/ stage[u] = "write" /\ sock'[u] = sock[u]
                                    \/ st # "error" /\ sock'[u] = s
          /\ status'[u] \in Statuses => status'[u] = status[u] \/ (u = r /\ status'[u] = st)
    BY <1>3, <1>10 DEF Statuses
  <2> QED  BY <2>1, <2>2, <2>3 DEF SendsNothing
<1> QED  BY <1>14, <1>15, <1>16, <1>17, <1>18, <1>19, <1>20 DEF ClientInv, SocketsCounted

\* dispatch keeps it.
LEMMA DispatchClient ==
    ASSUME ClientInv, NEW r \in Requests, Dispatch(r)
    PROVE  ClientInv'
<1>1. /\ request_map \in SUBSET Requests /\ pending_map \in SUBSET Requests
      /\ resolving \in SUBSET Requests /\ connecting \in SUBSET Requests
      /\ open \in SUBSET Requests /\ Active \in SUBSET Requests /\ waiting_count \in Nat
  BY DEF ClientInv, ClientTypeOK, Active
<1>2. status[r] = "new" /\ r \in Roots /\ status' = [status EXCEPT ![r] = "sent"]
      /\ UNCHANGED <<stage, sock, host_cache, running, crashed>>
  BY DEF Dispatch
<1>3. PICK S \in Filled(request_map \cup {r}, waiting_count) :
          /\ request_map' = (request_map \cup {r}) \ S
          /\ pending_map' = pending_map \cup S
          /\ waiting_count' = waiting_count + Cardinality(S)
          /\ Start(S, connecting, open, timers)
  BY DEF Dispatch
<1>4. /\ S \subseteq request_map \cup {r}
      /\ S = {} \/ waiting_count + Cardinality(S) <= WAIT_LIMIT
  BY <1>1, FilledProps
<1>5. S \in SUBSET Requests /\ Cardinality(S) \in Nat
  BY <1>1, <1>4, RequestsFinite
<1>6. PICK known \in SUBSET S :
         /\ resolving' = resolving \cup (S \ known)
         /\ connecting' = connecting \cup known
         /\ open' = open \cup known
         /\ timers' = timers \cup known
  BY <1>3 DEF Start
<1>7. Active' = Active
  BY <1>2 DEF Active
<1>8. r \notin request_map \cup pending_map \cup Active \cup resolving \cup connecting
  BY <1>2 DEF ClientInv, OnePlace, SocketsApart, Unstarted
<1>9. \A u \in Requests : status'[u] = IF u = r THEN "sent" ELSE status[u]
  BY <1>2 DEF ClientInv, ClientTypeOK
<1>10. ClientTypeOK'
  <2>1. waiting_count' \in 0..(WAIT_LIMIT + 1)
    BY <1>1, <1>3, <1>4, <1>5, FS_EmptySet, ClientAssumption DEF ClientInv, ClientTypeOK
  <2>2. status' \in [Requests -> Outcomes \cup {"new", "sent", "dropped"}]
    BY <1>2 DEF ClientInv, ClientTypeOK
  <2>3. /\ request_map' \subseteq Requests /\ pending_map' \subseteq Requests
        /\ resolving' \subseteq Requests /\ connecting' \subseteq Requests
        /\ open' \subseteq Requests /\ timers' \subseteq Requests
    BY <1>3, <1>5, <1>6, <1>1 DEF ClientInv, ClientTypeOK
  <2> QED  BY <2>1, <2>2, <2>3, <1>2 DEF ClientInv, ClientTypeOK
<1>11. OnePlace'
  <2>1. {u \in Requests : status'[u] = "sent"} = {u \in Requests : status[u] = "sent"} \cup {r}
    BY <1>9
  <2> QED  BY <2>1, <1>3, <1>4, <1>7, <1>8 DEF ClientInv, OnePlace
<1>12. RetriesAreNew'
  BY <1>2, <1>9, ClientAssumption DEF ClientInv, RetriesAreNew, Roots, Outcomes, Statuses
<1>13. SocketsApart'
  <2>1. Unstarted' \subseteq Unstarted \ S /\ S \subseteq Unstarted
    BY <1>2, <1>3, <1>4, <1>9 DEF Unstarted, ClientInv, OnePlace
  <2> QED  BY <2>1, <1>2, <1>6, <1>7 DEF ClientInv, SocketsApart
<1>14. open' \subseteq connecting' \cup {sock'[u] : u \in Active'}
  BY <1>2, <1>6, <1>7 DEF ClientInv, SocketsCounted
<1>15. Cardinality((pending_map \cup Active)') + Cardinality(Orphans') <= waiting_count'
  <2> DEFINE busy == pending_map \cup Active
  <2>1. busy \in SUBSET Requests /\ busy \cup S \in SUBSET Requests /\ Orphans \in SUBSET Requests
    BY <1>1, <1>5 DEF Orphans
  <2>2. (pending_map \cup Active)' = busy \cup S
    BY <1>3, <1>7
  <2>3. Orphans' \in SUBSET Orphans
    BY <1>3, <1>6 DEF Orphans
  <2>4. /\ Cardinality(busy) \in Nat /\ Cardinality(busy \cup S) \in Nat
        /\ Cardinality(Orphans) \in Nat /\ Cardinality(Orphans') \in Nat
    BY <2>1, <2>3, RequestsFinite
  <2>5. Cardinality(busy \cup S) <= Cardinality(busy) + Cardinality(S)
    BY <2>1, <1>5, UnionBound
  <2>6. Cardinality(Orphans') <= Cardinality(Orphans)
    BY <2>1, <2>3, SubsetBound
  <2>7. Cardinality(busy) + Cardinality(Orphans) <= waiting_count
    BY DEF ClientInv, SocketsCounted
  <2> HIDE DEF busy
  <2>8. Cardinality((pending_map \cup Active)') = Cardinality(busy \cup S)
        /\ waiting_count' = waiting_count + Cardinality(S)
    BY <2>2, <1>3, Zenon
  <2> QED  BY <2>4, <2>5, <2>6, <2>7, <2>8, <1>1, <1>5
<1> QED  BY <1>10, <1>11, <1>12, <1>13, <1>14, <1>15 DEF ClientInv, SocketsCounted

\* A step that takes no request from the queue and starts none leaves room
\* for what is left.
LEMMA CountShrinks ==
    ASSUME ClientInv, ClientTypeOK', waiting_count' = waiting_count,
           (pending_map \cup Active)' \subseteq pending_map \cup Active,
           Orphans' \subseteq Orphans
    PROVE  Cardinality((pending_map \cup Active)') + Cardinality(Orphans') <= waiting_count'
<1>1. /\ pending_map \cup Active \in SUBSET Requests /\ Orphans \in SUBSET Requests
      /\ waiting_count \in Nat
  BY DEF ClientInv, ClientTypeOK, Active, Orphans
<1>2. /\ (pending_map \cup Active)' \in SUBSET (pending_map \cup Active) /\ Orphans' \in SUBSET Orphans
  OBVIOUS
<1>3. /\ Cardinality((pending_map \cup Active)') <= Cardinality(pending_map \cup Active)
      /\ Cardinality(Orphans') <= Cardinality(Orphans)
  BY <1>1, <1>2, SubsetBound
<1>4. /\ Cardinality((pending_map \cup Active)') \in Nat /\ Cardinality(pending_map \cup Active) \in Nat
      /\ Cardinality(Orphans') \in Nat /\ Cardinality(Orphans) \in Nat
  BY <1>1, <1>2, RequestsFinite
<1>5. Cardinality(pending_map \cup Active) + Cardinality(Orphans) <= waiting_count
  BY DEF ClientInv, SocketsCounted
<1> QED  BY <1>1, <1>3, <1>4, <1>5

\* Every step of the client keeps its invariant.
LEMMA ClientStepInv ==
    ASSUME ClientInv, ClientStep \/ UNCHANGED clientVars
    PROVE  ClientInv'
<1> USE DEF ClientInv
<1>1. CASE UNCHANGED clientVars
  BY <1>1 DEF clientVars, queueVars, netVars, ClientTypeOK, OnePlace, RetriesAreNew, SocketsApart,
              SocketsCounted, Orphans, Active, Unstarted
<1>2. CASE Run
  BY <1>2 DEF Run, queueVars, netVars, ClientTypeOK, OnePlace, RetriesAreNew, SocketsApart,
              SocketsCounted, Orphans, Active, Unstarted
<1>3. CASE RunReturns
  <2>1. /\ resolving' = {} /\ connecting' = {} /\ request_map' = {} /\ pending_map' = {}
        /\ timers' = {} /\ waiting_count' = 0 /\ resolving = {} /\ connecting = {} /\ Active = {}
        /\ UNCHANGED <<stage, sock, open, host_cache, crashed>> /\ running' = FALSE
        /\ status' = [r \in Requests |-> IF r \in request_map \cup pending_map THEN "dropped" ELSE status[r]]
    BY <1>3 DEF RunReturns
  <2>2. Active' = {}
    BY <2>1 DEF Active
  <2>3. \A r \in Requests : status'[r] = (IF status[r] = "sent" THEN "dropped" ELSE status[r])
    BY <2>1 DEF OnePlace
  <2>4. ClientTypeOK'
    <3>1. running' \in BOOLEAN /\ crashed' \in BOOLEAN
      BY <2>1, Zenon DEF ClientTypeOK
    <3>2. waiting_count' \in 0..(WAIT_LIMIT + 1)
      BY <2>1, ClientAssumption
    <3>3. status' \in [Requests -> Outcomes \cup {"new", "sent", "dropped"}]
      BY <2>1 DEF ClientTypeOK
    <3> QED  BY <2>1, <3>1, <3>2, <3>3 DEF ClientTypeOK
  <2>5. OnePlace'
    BY <2>1, <2>2, <2>3 DEF OnePlace
  <2>6. RetriesAreNew'
    BY <2>3, ClientAssumption DEF RetriesAreNew, Outcomes, Statuses
  <2>7. SocketsApart'
    BY <2>1, <2>2 DEF SocketsApart, Active
  <2>8. SocketsCounted'
    <3>1. (pending_map \cup Active)' = {} /\ Orphans' = {}
      BY <2>1, <2>2 DEF Orphans
    <3>2. Cardinality({}) = 0
      BY FS_EmptySet
    <3>3. open' \subseteq connecting' \cup {sock'[u] : u \in Active'}
      BY <2>1, <2>2 DEF SocketsCounted
    <3> QED  BY <3>1, <3>2, <3>3, <2>1 DEF SocketsCounted
  <2> QED  BY <2>4, <2>5, <2>6, <2>7, <2>8
<1>4. ASSUME NEW r \in Requests, Dispatch(r) PROVE ClientInv'
  BY <1>4, DispatchClient
<1>5. ASSUME NEW r \in Requests,
             HandleResolve(r) \/ ResolveFails(r) \/ HandleConnectUnwanted(r) \/ Watchdog(r)
      PROVE  ClientInv'
  <2>0. running \in BOOLEAN /\ crashed' \in BOOLEAN
    <3>1. running \in BOOLEAN /\ crashed \in BOOLEAN
      BY Zenon DEF ClientTypeOK
    <3>2. CASE ResolveFails(r)
      <4>1. crashed' = (r \in pending_map)
        BY <3>2 DEF ResolveFails
      <4>2. (r \in pending_map) \in BOOLEAN
        OBVIOUS
      <4>3. crashed' \in BOOLEAN
        BY <4>1, <4>2, Zenon
      <4> QED  BY <4>3, <3>1, Zenon
    <3>3. CASE HandleResolve(r) \/ HandleConnectUnwanted(r) \/ Watchdog(r)
      <4>1. crashed' = crashed
        BY <3>3 DEF HandleResolve, HandleConnectUnwanted, Watchdog
      <4> QED  BY <4>1, <3>1
    <3> QED  BY <1>5, <3>2, <3>3
  <2>1. /\ UNCHANGED <<request_map, pending_map, waiting_count, stage, sock, status, running>>
        /\ host_cache' \subseteq Hosts
        /\ resolving' \subseteq resolving /\ connecting' \subseteq connecting \cup (resolving \ resolving')
        /\ connecting \subseteq connecting' \cup {r}
        /\ open' \subseteq open \cup (connecting' \ connecting) /\ timers' \subseteq timers \cup connecting'
        /\ r \in open' => r \in connecting' \/ r \notin connecting
    BY <1>5, MetaAssumption DEF HandleResolve, ResolveFails, HandleConnectUnwanted, Watchdog, queueVars,
                ClientTypeOK, SocketsApart, IoRuns
  <2>2. Active' = Active /\ Unstarted' = Unstarted
    BY <2>1 DEF Active, Unstarted
  <2>3. ClientTypeOK'
    BY <2>0, <2>1 DEF ClientTypeOK
  <2>4. OnePlace' /\ RetriesAreNew'
    BY <2>1, <2>2 DEF OnePlace, RetriesAreNew
  <2>5. SocketsApart'
    BY <2>1, <2>2 DEF SocketsApart
  <2>6. Orphans' \subseteq Orphans
    BY <2>1 DEF Orphans
  <2>7. SocketsCounted'
    <3>1. open' \subseteq connecting' \cup {sock'[u] : u \in Active'}
      BY <2>1, <2>2 DEF SocketsCounted
    <3> QED  BY <3>1, <2>1, <2>2, <2>3, <2>6, CountShrinks DEF SocketsCounted
  <2> QED  BY <2>3, <2>4, <2>5, <2>7
<1>6. ASSUME NEW r \in Requests, HandleConnect(r) PROVE ClientInv'
  <2>1. /\ r \in connecting /\ r \in pending_map
        /\ connecting' = connecting \ {r} /\ pending_map' = pending_map \ {r}
        /\ sock' = [sock EXCEPT ![r] = r] /\ stage' = [stage EXCEPT ![r] = "write"]
        /\ UNCHANGED <<request_map, waiting_count, resolving, open, timers, host_cache, status, running, crashed>>
    BY <1>6 DEF HandleConnect
  <2>2. Active' = Active \cup {r} /\ r \notin Active
    BY <2>1 DEF Active, ClientTypeOK, OnePlace
  <2>3. Unstarted' = Unstarted
    BY <2>1 DEF Unstarted
  <2>4. \A u \in Requests : sock'[u] = IF u = r THEN r ELSE sock[u]
    BY <2>1 DEF ClientTypeOK
  <2>5. ClientTypeOK'
    BY <2>1 DEF ClientTypeOK, Stages
  <2>6. OnePlace' /\ RetriesAreNew'
    BY <2>1, <2>2 DEF OnePlace, RetriesAreNew
  <2>7. \A q \in Active : sock[q] # r
    BY <2>1 DEF SocketsApart
  <2>8. SocketsApart'
    BY <2>1, <2>2, <2>3, <2>4, <2>7 DEF SocketsApart
  <2>9. SocketsCounted'
    <3>1. open' \subseteq connecting' \cup {sock'[u] : u \in Active'}
      BY <2>1, <2>2, <2>4 DEF SocketsCounted, Active
    <3>2. Orphans' \subseteq Orphans
      BY <2>1 DEF Orphans, SocketsApart
    <3>3. (pending_map \cup Active)' \subseteq pending_map \cup Active
      BY <2>1, <2>2
    <3> QED  BY <3>1, <3>2, <3>3, <2>1, <2>5, CountShrinks DEF SocketsCounted
  <2> QED  BY <2>5, <2>6, <2>8, <2>9
<1>7. ASSUME NEW r \in Requests, HandleParams(r) PROVE ClientInv'
  <2>1. /\ stage[r] = "write" /\ stage' = [stage EXCEPT ![r] = "read"]
        /\ UNCHANGED <<queueVars, resolving, connecting, sock, open, timers, host_cache, status, running, crashed>>
    BY <1>7 DEF HandleParams
  <2>2. Active' = Active
    BY <2>1 DEF Active, ClientTypeOK
  <2>3. stage' \in [Requests -> Stages \cup {"none"}]
    BY <2>1 DEF ClientTypeOK, Stages
  <2> HIDE DEF Active
  <2> QED  BY <2>1, <2>2, <2>3 DEF queueVars, ClientTypeOK, OnePlace, RetriesAreNew, SocketsApart,
                                   SocketsCounted, Orphans, Unstarted
<1>8. ASSUME NEW r \in Requests, NEW st \in Outcomes,
             (ExchangeFails(r) /\ st = "error") \/ HandleAnswer(r, st)
      PROVE  ClientInv'
  <2>1. r \in Active /\ HandleCallback(r, st, sock[r], connecting, pending_map)
    BY <1>8 DEF ExchangeFails, HandleAnswer, Active
  <2>2. sock[r] \in Requests /\ connecting \in SUBSET Requests /\ pending_map \in SUBSET Requests
    BY <2>1 DEF SocketsApart, ClientTypeOK
  <2> QED  BY <2>1, <2>2, CallbackClient
<1>9. ASSUME NEW r \in Requests, ConnectFails(r) PROVE ClientInv'
  <2>1. r \in connecting \cap pending_map
        /\ HandleCallback(r, "error", r, connecting \ {r}, pending_map \ {r})
    BY <1>9 DEF ConnectFails
  <2>2. connecting \ {r} \in SUBSET Requests /\ pending_map \ {r} \in SUBSET Requests
    BY DEF ClientTypeOK
  <2>3. "error" \in Outcomes
    BY DEF Outcomes
  <2> QED  BY <2>1, <2>2, <2>3, CallbackClient
<1> QED
  <2>1. "error" \in Outcomes /\ Statuses \subseteq Outcomes
    BY DEF Outcomes
  <2> HIDE DEF ClientInv
  <2> QED  BY <1>1, <1>2, <1>3, <1>4, <1>5, <1>6, <1>7, <1>8, <1>9, <2>1 DEF ClientStep

\* The sockets are never more than waiting_count.
LEMMA HandlesCounted ==
    ASSUME ClientInv
    PROVE  HandlesBounded
<1> DEFINE used == {sock[r] : r \in Active}
           wanted == connecting \cap pending_map
           late == connecting \ pending_map
<1>1. /\ Active \in SUBSET Requests /\ pending_map \in SUBSET Requests /\ connecting \in SUBSET Requests
      /\ Orphans \in SUBSET Requests /\ wanted \in SUBSET Requests /\ late \in SUBSET Requests
      /\ wanted \in SUBSET pending_map /\ late \in SUBSET Orphans
      /\ waiting_count \in Nat /\ waiting_count <= WAIT_LIMIT + 1
  BY ClientAssumption DEF ClientInv, ClientTypeOK, Active, Orphans
<1>2. used \in SUBSET Requests
  BY <1>1 DEF ClientInv, SocketsApart
<1>3. Cardinality(used) <= Cardinality(Active)
  <2> DEFINE f == [r \in Active |-> sock[r]]
  <2>1. f \in [Active -> used] /\ \A t \in used : \E r \in Active : f[r] = t
    OBVIOUS
  <2>2. f \in Surjection(Active, used)
    BY <2>1 DEF Surjection
  <2>3. IsFiniteSet(Active)
    BY <1>1, RequestsFinite
  <2> HIDE DEF f, used
  <2> QED  BY <2>2, <2>3, FS_Surjection
<1> HIDE DEF used
<1>4. /\ Cardinality(wanted) <= Cardinality(pending_map) /\ Cardinality(late) <= Cardinality(Orphans)
  BY <1>1, SubsetBound
<1>5. /\ wanted \cup late \in SUBSET Requests /\ (wanted \cup late) \cup used \in SUBSET Requests
      /\ open \in SUBSET ((wanted \cup late) \cup used)
  BY <1>1, <1>2 DEF ClientInv, SocketsCounted, used
<1>6. Cardinality(wanted \cup late) <= Cardinality(wanted) + Cardinality(late)
  BY <1>1, UnionBound
<1>7. Cardinality((wanted \cup late) \cup used) <= Cardinality(wanted \cup late) + Cardinality(used)
  BY <1>5, <1>2, UnionBound
<1>8. Cardinality(open) <= Cardinality((wanted \cup late) \cup used)
  BY <1>5, SubsetBound
<1>9. Cardinality(pending_map \cup Active) = Cardinality(pending_map) + Cardinality(Active)
  <2>1. pending_map \cap Active = {} /\ IsFiniteSet(pending_map) /\ IsFiniteSet(Active)
        /\ Cardinality(pending_map) \in Nat /\ Cardinality(Active) \in Nat
    BY <1>1, RequestsFinite DEF ClientInv, OnePlace
  <2>2. Cardinality(pending_map \cup Active)
           = Cardinality(pending_map) + Cardinality(Active) - Cardinality(pending_map \cap Active)
    BY <2>1, FS_Union
  <2> QED  BY <2>1, <2>2, FS_EmptySet
<1>10. /\ Cardinality(open) \in Nat /\ Cardinality(wanted) \in Nat /\ Cardinality(late) \in Nat
       /\ Cardinality(used) \in Nat /\ Cardinality(wanted \cup late) \in Nat
       /\ Cardinality((wanted \cup late) \cup used) \in Nat /\ Cardinality(Active) \in Nat
       /\ Cardinality(pending_map) \in Nat /\ Cardinality(Orphans) \in Nat
  <2>1. open \in SUBSET Requests
    BY <1>5
  <2> QED  BY <2>1, <1>1, <1>2, <1>5, RequestsFinite
<1>11. Cardinality(pending_map \cup Active) + Cardinality(Orphans) <= waiting_count
  BY DEF ClientInv, SocketsCounted
<1> HIDE DEF wanted, late
<1>12. Cardinality(open) <= waiting_count
  BY <1>3, <1>4, <1>6, <1>7, <1>8, <1>9, <1>10, <1>11, <1>1
<1> QED  BY <1>12, <1>10, <1>1, ClientAssumption DEF HandlesBounded

-----------------------------------------------------------------------------
(* Exchanges *)

\* What is left in a stream after a step that wrote nothing to it.
Shrinks(new, old) == \A s \in Requests : new[s] = old[s] \/ new[s] = << >>

\* A step that transfers nothing leaves nothing new in the streams.
LEMMA StreamsShrink ==
    ASSUME Streams(up, down), StreamTypeOK
    PROVE  StreamTypeOK' /\ Shrinks(up', up) /\ Shrinks(down', down)
BY DEF Streams, StreamTypeOK, Shrinks

\* A step of the client that sends nothing, and tells a callback only what
\* the handler returned, keeps the invariant of the exchanges.
LEMMA ClientSilent ==
    ASSUME RpcInv, ClientInv', StreamTypeOK', UNCHANGED serverVars,
           Shrinks(up', up), Shrinks(down', down),
           (Unstarted \cup resolving \cup connecting)' \subseteq Unstarted \cup resolving \cup connecting,
           \A u \in Requests :
              /\ Unsent(u)' => Unsent(u)
              /\ stage'[u] = "read" => stage[u] = "read" /\ sock'[u] = sock[u]
              /\ stage'[u] = "write" => \/ stage[u] = "write" /\ sock'[u] = sock[u]
                                        \/ Idle(sock[u])'
              /\ status'[u] \in Statuses => status'[u] = status[u] \/ handled[u] = <<status'[u]>>
    PROVE  RpcInv'
<1> USE DEF RpcInv
<1>1. UNCHANGED <<phase, rpc, answer, connected, watched, task_queue, alive, handled>>
  BY DEF serverVars
<1>2. TypeOK'
  BY <1>1 DEF TypeOK, ClientInv
<1>3. \A s \in Requests : Idle(s) => Idle(s)'
  BY <1>1 DEF Idle, Shrinks
<1>4. FreshSocketsIdle'
  <2>1. Unstarted \cup resolving \cup connecting \subseteq Requests
    BY DEF ClientInv, ClientTypeOK, Unstarted
  <2>2. \A u \in Requests : stage[u] = "write" => sock[u] \in Requests
    BY DEF ClientInv, SocketsApart, Active
  <2> QED  BY <1>3, <2>1, <2>2 DEF FreshSocketsIdle, ExchangeInv
<1>5. OneMessage'
  BY <1>1 DEF OneMessage, ExchangeInv, Shrinks
<1>6. TasksQueued'
  BY <1>1 DEF TasksQueued, ExchangeInv
<1>7. \A s, r \in Requests : Carries(s, r)' => Carries(s, r)
  BY <1>1 DEF Carries, Shrinks
<1>8. CarriedOnce'
  <2>1. ASSUME NEW r \in Requests, Unsent(r)'
        PROVE  handled'[r] = << >>
    BY <2>1, <1>1 DEF CarriedOnce, ExchangeInv
  <2>2. ASSUME NEW r \in Requests, NEW s \in Requests, Carries(s, r)'
        PROVE  /\ ~Unsent(r)' /\ handled'[r] = << >>
               /\ \A q \in Active' : sock'[q] = s => q = r
               /\ stage'[r] = "read" => sock'[r] = s
               /\ \A t \in Requests : Carries(t, r)' => s = t
    <3>1. Carries(s, r)
      BY <2>2, <1>7
    <3>2. /\ ~Unsent(r) /\ handled[r] = << >>
          /\ \A q \in Active : sock[q] = s => q = r
          /\ stage[r] = "read" => sock[r] = s
          /\ \A t \in Requests : Carries(t, r) => s = t
      BY <3>1 DEF CarriedOnce, ExchangeInv
    <3>3. ~Idle(s)'
      BY <2>2 DEF Carries, Idle
    <3>4. ASSUME NEW q \in Active', sock'[q] = s
          PROVE  q = r
      <4>1. q \in Requests /\ stage'[q] \in {"read", "write"}
        BY DEF Active, ClientInv, ClientTypeOK, Stages
      <4>2. CASE stage'[q] = "read"
        BY <4>1, <4>2, <3>2, <3>4 DEF Active
      <4>3. CASE stage'[q] = "write"
        BY <4>1, <4>3, <3>3, <3>4, <1>4 DEF FreshSocketsIdle
      <4> QED  BY <4>1, <4>2, <4>3
    <3> QED  BY <3>2, <3>4, <1>1, <1>7
  <2> QED  BY <2>1, <2>2 DEF CarriedOnce
<1>9. AnswersBelong'
  <2> SUFFICES ASSUME NEW r \in Requests, stage'[r] = "read"
               PROVE  /\ phase'[sock'[r]] = "write" => handled'[r] = <<answer'[sock'[r]]>>
                      /\ down'[sock'[r]] # << >> => handled'[r] = down'[sock'[r]]
    BY DEF AnswersBelong
  <2>1. stage[r] = "read" /\ sock'[r] = sock[r] /\ sock[r] \in Requests
    BY DEF ClientInv, SocketsApart, Active
  <2> QED  BY <2>1, <1>1 DEF AnswersBelong, ExchangeInv, Shrinks
<1>10. AnswersMatch'
  BY <1>1 DEF AnswersMatch, ExchangeInv
<1> QED  BY <1>2, <1>4, <1>5, <1>6, <1>8, <1>9, <1>10 DEF ExchangeInv

\* The callback of a connection or of an exchange that failed.
LEMMA FailureSilent ==
    ASSUME RpcInv, NEW r \in Requests, AtClient(ConnectFails(r)) \/ AtClient(ExchangeFails(r))
    PROVE  RpcInv'
<1>1. UNCHANGED serverVars /\ Streams(up, down)
  BY DEF AtClient
<1>2. StreamTypeOK' /\ Shrinks(up', up) /\ Shrinks(down', down)
  BY <1>1, StreamsShrink DEF RpcInv
<1>3. \E s \in Requests : ClientInv' /\ SendsNothing(r, "error", s)
  <2>1. "error" \in Outcomes
    BY DEF Outcomes
  <2>2. CASE ConnectFails(r)
    <3>1. r \in connecting \cap pending_map
          /\ HandleCallback(r, "error", r, connecting \ {r}, pending_map \ {r})
      BY <2>2 DEF ConnectFails
    <3>2. connecting \ {r} \in SUBSET Requests /\ pending_map \ {r} \in SUBSET Requests
      BY DEF RpcInv, ClientInv, ClientTypeOK
    <3> QED  BY <2>1, <3>1, <3>2, CallbackClient DEF RpcInv
  <2>3. CASE ExchangeFails(r)
    <3>1. r \in Active /\ HandleCallback(r, "error", sock[r], connecting, pending_map)
      BY <2>3 DEF ExchangeFails
    <3>2. sock[r] \in Requests /\ connecting \in SUBSET Requests /\ pending_map \in SUBSET Requests
      BY <3>1 DEF RpcInv, ClientInv, SocketsApart, ClientTypeOK
    <3> QED  BY <2>1, <3>1, <3>2, CallbackClient DEF RpcInv
  <2> QED  BY <2>2, <2>3 DEF AtClient
<1>4. /\ (Unstarted \cup resolving \cup connecting)' \subseteq Unstarted \cup resolving \cup connecting
      /\ \A u \in Requests :
            /\ Unsent(u)' => Unsent(u)
            /\ stage'[u] = "read" => stage[u] = "read" /\ sock'[u] = sock[u]
            /\ stage'[u] = "write" => stage[u] = "write" /\ sock'[u] = sock[u]
            /\ status'[u] \in Statuses => status'[u] = status[u]
  BY <1>3 DEF SendsNothing, Statuses
<1> QED  BY <1>1, <1>2, <1>3, <1>4, ClientSilent

\* The callback that is told the answer.
LEMMA ReceiveAnswerStep ==
    ASSUME RpcInv, NEW r \in Requests, ReceiveAnswer(r)
    PROVE  RpcInv'
<1> DEFINE s == sock[r]
           st == Head(down[s])
<1>1. /\ r \in Active /\ down[s] # << >> /\ IoRuns /\ stage[r] = "read"
      /\ HandleCallback(r, st, s, connecting, pending_map)
      /\ UNCHANGED serverVars /\ Streams(up, [down EXCEPT ![s] = Tail(@)])
  BY DEF ReceiveAnswer, HandleAnswer
<1>2. s \in Requests /\ connecting \in SUBSET Requests /\ pending_map \in SUBSET Requests
  BY <1>1 DEF RpcInv, ClientInv, SocketsApart, ClientTypeOK
<1>3. PICK a \in Statuses : down[s] = <<a>>
  BY <1>1, <1>2 DEF RpcInv, ExchangeInv, OneMessage
<1>4. st = a /\ Tail(down[s]) = << >>
  BY <1>3
<1>5. st \in Outcomes /\ st # "error"
  BY <1>4 DEF Outcomes, Statuses
<1> HIDE DEF st, s
<1>6. ClientInv' /\ SendsNothing(r, st, s)
  BY <1>1, <1>2, <1>5, CallbackClient DEF RpcInv, s
<1>7. StreamTypeOK' /\ Shrinks(up', up) /\ Shrinks(down', down) /\ down'[s] = << >>
  <2> DEFINE d == [down EXCEPT ![s] = Tail(@)]
  <2>1. d = [t \in Requests |-> IF t = s THEN << >> ELSE down[t]]
    BY <1>2, <1>4 DEF RpcInv, StreamTypeOK
  <2>2. up' = [t \in Requests |-> IF phase'[t] = "gone" THEN << >> ELSE up[t]]
        /\ down' = [t \in Requests |-> IF t \in open' \/ \E q \in Requests : sock'[q] = t THEN d[t] ELSE << >>]
    BY <1>1 DEF Streams
  <2> HIDE DEF d
  <2>3. \A t \in Requests : /\ up'[t] = up[t] \/ up'[t] = << >>
                            /\ down'[t] = down[t] \/ down'[t] = << >>
                            /\ t = s => down'[t] = << >>
    BY <2>1, <2>2
  <2>4. StreamTypeOK'
    <3>1. \A t \in Requests : up[t] \in Seq(Requests) /\ down[t] \in Seq(Statuses)
      BY DEF RpcInv, StreamTypeOK
    <3>2. << >> \in Seq(Requests) /\ << >> \in Seq(Statuses)
      OBVIOUS
    <3>3. \A t \in Requests : up'[t] \in Seq(Requests) /\ down'[t] \in Seq(Statuses)
      BY <2>3, <3>1, <3>2
    <3> QED  BY <3>3, <2>2 DEF StreamTypeOK
  <2> QED  BY <2>3, <2>4, <1>2 DEF Shrinks
<1>8. UNCHANGED <<phase, handled>>
  BY <1>1 DEF serverVars
<1>9. up[s] = << >> /\ phase[s] \in {"none", "read", "gone"}
  BY <1>1, <1>2 DEF RpcInv, ExchangeInv, OneMessage, TypeOK, Phases
<1>10. up'[s] = << >> /\ down'[s] = << >> /\ phase'[s] \in {"none", "read", "gone"}
  BY <1>2, <1>7, <1>8, <1>9 DEF Shrinks
<1>11. handled[r] = <<st>>
  BY <1>1, <1>3, <1>4 DEF s, RpcInv, ExchangeInv, AnswersBelong
<1>12. \A u \in Requests :
          /\ stage'[u] = "write" => \/ stage[u] = "write" /\ sock'[u] = sock[u]
                                    \/ Idle(sock[u])'
          /\ status'[u] \in Statuses => status'[u] = status[u] \/ handled[u] = <<status'[u]>>
  BY <1>6, <1>10, <1>11 DEF SendsNothing, Idle
<1> QED  BY <1>1, <1>6, <1>7, <1>12, ClientSilent DEF SendsNothing

\* The steps of the client that transfer nothing and call nobody back.
LEMMA ClientOtherSteps ==
    ASSUME RpcInv,
           \/ AtClient(Run) \/ AtClient(RunReturns)
           \/ \E r \in Requests :
                 \/ AtClient(Dispatch(r)) \/ AtClient(HandleResolve(r)) \/ AtClient(ResolveFails(r))
                 \/ AtClient(HandleConnectUnwanted(r)) \/ AtClient(Watchdog(r)) \/ MakeConnection(r)
    PROVE  RpcInv'
<1>1. UNCHANGED serverVars /\ Streams(up, down)
  BY DEF AtClient, MakeConnection
<1>2. StreamTypeOK' /\ Shrinks(up', up) /\ Shrinks(down', down)
  BY <1>1, StreamsShrink DEF RpcInv
<1>3. ClientInv'
  <2>1. ClientStep
    BY DEF AtClient, MakeConnection, ClientStep
  <2> QED  BY <2>1, ClientStepInv DEF RpcInv
<1> SUFFICES
      /\ (Unstarted \cup resolving \cup connecting)' \subseteq Unstarted \cup resolving \cup connecting
      /\ \A u \in Requests :
            /\ Unsent(u)' => Unsent(u)
            /\ stage'[u] = "read" => stage[u] = "read" /\ sock'[u] = sock[u]
            /\ stage'[u] = "write" => \/ stage[u] = "write" /\ sock'[u] = sock[u]
                                      \/ Idle(sock[u])'
            /\ status'[u] \in Statuses => status'[u] = status[u]
  BY <1>1, <1>2, <1>3, ClientSilent
<1> USE DEF RpcInv, ClientInv
<1>4. CASE Run
  BY <1>4 DEF Run, queueVars, netVars, Unsent, Unstarted
<1>5. CASE RunReturns
  <2>1. /\ resolving' = resolving /\ connecting' = connecting /\ request_map' = {} /\ pending_map' = {}
        /\ stage' = stage /\ sock' = sock
        /\ status' = [r \in Requests |-> IF r \in request_map \cup pending_map THEN "dropped" ELSE status[r]]
    BY <1>5 DEF RunReturns
  <2> QED  BY <2>1 DEF Unsent, Unstarted, Statuses
<1>6. ASSUME NEW r \in Requests, Dispatch(r)
      PROVE  /\ (Unstarted \cup resolving \cup connecting)' \subseteq Unstarted \cup resolving \cup connecting
             /\ \A u \in Requests :
                   /\ Unsent(u)' => Unsent(u)
                   /\ status'[u] \in Statuses => status'[u] = status[u]
             /\ UNCHANGED <<stage, sock>>
  <2>1. PICK S \in Filled(request_map \cup {r}, waiting_count) :
          /\ request_map' = (request_map \cup {r}) \ S
          /\ pending_map' = pending_map \cup S
          /\ Start(S, connecting, open, timers)
    BY <1>6 DEF Dispatch
  <2>2. S \subseteq request_map \cup {r}
    BY DEF Filled
  <2>3. resolving' \cup connecting' = resolving \cup connecting \cup S
    BY <2>1 DEF Start
  <2>4. status[r] = "new" /\ status' = [status EXCEPT ![r] = "sent"] /\ UNCHANGED <<stage, sock>>
    BY <1>6 DEF Dispatch
  <2>5. \A u \in Requests : status'[u] = IF u = r THEN "sent" ELSE status[u]
    BY <2>4 DEF ClientTypeOK
  <2>6. Unstarted' \cup S \subseteq Unstarted
    BY <2>1, <2>2, <2>4, <2>5 DEF Unstarted
  <2> QED  BY <2>1, <2>3, <2>4, <2>5, <2>6 DEF Unsent, Statuses
<1>7. ASSUME NEW r \in Requests, HandleConnect(r)
      PROVE  /\ (Unstarted \cup resolving \cup connecting)' \subseteq Unstarted \cup resolving \cup connecting
             /\ \A u \in Requests :
                   /\ Unsent(u)' => Unsent(u)
                   /\ stage'[u] = "read" => stage[u] = "read" /\ sock'[u] = sock[u]
                   /\ stage'[u] = "write" => \/ stage[u] = "write" /\ sock'[u] = sock[u]
                                             \/ Idle(sock[u])'
                   /\ status'[u] \in Statuses => status'[u] = status[u]
  <2>1. /\ r \in connecting /\ r \in pending_map /\ connecting' = connecting \ {r}
        /\ pending_map' = pending_map \ {r}
        /\ UNCHANGED <<request_map, resolving, status>>
        /\ sock' = [sock EXCEPT ![r] = r] /\ stage' = [stage EXCEPT ![r] = "write"]
    BY <1>7 DEF HandleConnect
  <2>2. \A u \in Requests : /\ stage'[u] = IF u = r THEN "write" ELSE stage[u]
                            /\ sock'[u] = IF u = r THEN r ELSE sock[u]
    BY <2>1 DEF ClientTypeOK
  <2>3. Idle(r)'
    <3>1. Idle(r)
      BY <2>1 DEF ExchangeInv, FreshSocketsIdle
    <3> QED  BY <3>1, <1>1, <1>2 DEF Idle, Shrinks, serverVars
  <2>4. Unstarted' = Unstarted
    BY <2>1 DEF Unstarted
  <2>5. Idle(sock[r])'
    BY <2>2, <2>3 DEF Idle
  <2> QED  BY <2>1, <2>2, <2>4, <2>5 DEF Unsent
<1>8. ASSUME NEW r \in Requests,
             HandleResolve(r) \/ ResolveFails(r) \/ HandleConnectUnwanted(r) \/ Watchdog(r)
      PROVE  /\ UNCHANGED <<request_map, pending_map, stage, sock, status>>
             /\ resolving' \cup connecting' \subseteq resolving \cup connecting
  BY <1>8 DEF HandleResolve, ResolveFails, HandleConnectUnwanted, Watchdog, queueVars
<1>9. ASSUME NEW r \in Requests,
             HandleResolve(r) \/ ResolveFails(r) \/ HandleConnectUnwanted(r) \/ Watchdog(r)
      PROVE  /\ (Unstarted \cup resolving \cup connecting)' \subseteq Unstarted \cup resolving \cup connecting
             /\ \A u \in Requests : Unsent(u)' => Unsent(u)
             /\ UNCHANGED <<stage, sock, status>>
  BY <1>8, <1>9 DEF Unsent, Unstarted
<1> QED  BY <1>4, <1>5, <1>6, <1>7, <1>9 DEF AtClient, MakeConnection

\* The request goes onto a connection with nothing under way.
LEMMA SendRequestStep ==
    ASSUME RpcInv, NEW r \in Requests, SendRequest(r)
    PROVE  RpcInv'
<1> DEFINE s == sock[r]
<1>1. /\ stage[r] = "write" /\ stage' = [stage EXCEPT ![r] = "read"]
      /\ UNCHANGED <<queueVars, resolving, connecting, sock, open, timers, host_cache, status, running, crashed>>
      /\ UNCHANGED serverVars /\ Streams([up EXCEPT ![s] = Append(@, r)], down)
  BY DEF SendRequest, HandleParams
<1>2. UNCHANGED <<phase, rpc, answer, connected, watched, task_queue, alive, handled>>
  BY <1>1 DEF serverVars
<1>3. UNCHANGED <<request_map, pending_map, resolving, connecting, sock, status>>
  BY <1>1 DEF queueVars
<1>4. ClientInv'
  <2>1. ClientStep
    BY DEF SendRequest, ClientStep
  <2> QED  BY <2>1, ClientStepInv DEF RpcInv
<1> USE DEF RpcInv, ClientInv
<1>5. r \in Active /\ s \in Requests /\ Active' = Active
  BY <1>1 DEF SocketsApart, Active, ClientTypeOK
<1>6. \A u \in Requests : stage'[u] = IF u = r THEN "read" ELSE stage[u]
  BY <1>1 DEF ClientTypeOK
<1>7. Idle(s)
  BY <1>1 DEF ExchangeInv, FreshSocketsIdle
<1>8. \A t \in Requests : /\ up'[t] = up[t] \/ up'[t] = << >> \/ (t = s /\ up'[t] = <<r>>)
                          /\ down'[t] = down[t] \/ down'[t] = << >>
  <2>1. Append(up[s], r) = <<r>>
    BY <1>7 DEF Idle
  <2> HIDE DEF s
  <2>2. \A t \in Requests : [up EXCEPT ![s] = Append(@, r)][t] = IF t = s THEN <<r>> ELSE up[t]
    BY <2>1 DEF StreamTypeOK
  <2> QED  BY <1>1, <2>2 DEF Streams
<1>9. StreamTypeOK'
  <2>1. \A t \in Requests : up[t] \in Seq(Requests) /\ down[t] \in Seq(Statuses)
    BY DEF StreamTypeOK
  <2>2. << >> \in Seq(Requests) /\ << >> \in Seq(Statuses) /\ <<r>> \in Seq(Requests)
    OBVIOUS
  <2>3. \A t \in Requests : up'[t] \in Seq(Requests) /\ down'[t] \in Seq(Statuses)
    BY <2>1, <2>2, <1>8
  <2> QED  BY <2>3, <1>1 DEF StreamTypeOK, Streams
<1>10. TypeOK'
  BY <1>2, <1>4 DEF TypeOK
<1>11. Unstarted' = Unstarted /\ (\A u \in Requests : Unsent(u)' <=> Unsent(u) /\ u # r)
  <2>1. r \notin Unstarted \cup pending_map
    BY <1>5 DEF OnePlace, Unstarted
  <2> QED  BY <1>3, <1>6, <2>1 DEF Unstarted, Unsent
<1>12. \A t \in Requests : t # s /\ Idle(t) => Idle(t)'
  BY <1>2, <1>8 DEF Idle
<1>13. FreshSocketsIdle'
  <2>1. \A u \in Requests : stage'[u] = "write" => stage[u] = "write" /\ sock[u] \in Requests /\ sock[u] # s
    BY <1>5, <1>6 DEF SocketsApart, Active
  <2>2. \A t \in Unstarted \cup resolving \cup connecting : t \in Requests /\ t # s
    BY <1>5 DEF SocketsApart, ClientTypeOK, Unstarted
  <2> QED  BY <2>1, <2>2, <1>3, <1>11, <1>12 DEF FreshSocketsIdle, ExchangeInv
<1>14. OneMessage'
  BY <1>2, <1>7, <1>8 DEF OneMessage, ExchangeInv, Idle
<1>15. TasksQueued'
  BY <1>2 DEF TasksQueued, ExchangeInv
<1>16. \A t, u \in Requests : Carries(t, u)' => Carries(t, u) \/ (t = s /\ u = r)
  <2>1. \A t, u \in Requests : up'[t] = <<u>> => up[t] = <<u>> \/ (t = s /\ u = r)
    <3> SUFFICES ASSUME NEW t \in Requests, NEW u \in Requests, up'[t] = <<u>>, up'[t] = <<r>>, t = s
                 PROVE  u = r
      BY <1>8
    <3>1. <<u>>[1] = <<r>>[1]
      OBVIOUS
    <3> QED  BY <3>1
  <2> QED  BY <1>2, <2>1 DEF Carries
<1>17. CarriedOnce'
  <2>1. ASSUME NEW u \in Requests, Unsent(u)'
        PROVE  handled'[u] = << >>
    BY <2>1, <1>2, <1>11 DEF CarriedOnce, ExchangeInv
  <2>2. ASSUME NEW u \in Requests, NEW t \in Requests, Carries(t, u)'
        PROVE  /\ ~Unsent(u)' /\ handled'[u] = << >>
               /\ \A q \in Active' : sock'[q] = t => q = u
               /\ stage'[u] = "read" => sock'[u] = t
               /\ \A v \in Requests : Carries(v, u)' => t = v
    <3>1. CASE Carries(t, u) /\ u # r
      <4>1. /\ ~Unsent(u) /\ handled[u] = << >>
            /\ \A q \in Active : sock[q] = t => q = u
            /\ stage[u] = "read" => sock[u] = t
            /\ \A v \in Requests : Carries(v, u) => t = v
        BY <3>1 DEF CarriedOnce, ExchangeInv
      <4> QED  BY <3>1, <4>1, <1>2, <1>3, <1>5, <1>6, <1>11, <1>16
    <3>2. Unsent(r)
      BY <1>1 DEF Unsent
    <3>3. ~(Carries(t, u) /\ u = r)
      BY <3>2 DEF CarriedOnce, ExchangeInv
    <3>4. CASE t = s /\ u = r
      <4>1. handled[r] = << >> /\ \A v \in Requests : ~Carries(v, r)
        BY <3>2 DEF CarriedOnce, ExchangeInv
      <4>2. \A q \in Active : sock[q] = s => q = r
        BY <1>5 DEF SocketsApart
      <4> QED  BY <3>4, <4>1, <4>2, <1>2, <1>3, <1>5, <1>11, <1>16
    <3> QED  BY <2>2, <1>16, <3>1, <3>3, <3>4
  <2> QED  BY <2>1, <2>2 DEF CarriedOnce
<1>18. AnswersBelong'
  <2> SUFFICES ASSUME NEW u \in Requests, stage'[u] = "read"
               PROVE  /\ phase'[sock'[u]] = "write" => handled'[u] = <<answer'[sock'[u]]>>
                      /\ down'[sock'[u]] # << >> => handled'[u] = down'[sock'[u]]
    BY DEF AnswersBelong
  <2>1. CASE u = r
    BY <2>1, <1>2, <1>3, <1>5, <1>7, <1>8 DEF Idle
  <2>2. CASE u # r
    <3>1. stage[u] = "read" /\ sock[u] \in Requests
      BY <2>2, <1>6 DEF SocketsApart, Active
    <3> QED  BY <3>1, <1>2, <1>3, <1>8 DEF AnswersBelong, ExchangeInv
  <2> QED  BY <2>1, <2>2
<1>19. AnswersMatch'
  BY <1>2, <1>3 DEF AnswersMatch, ExchangeInv
<1> QED  BY <1>4, <1>9, <1>10, <1>13, <1>14, <1>15, <1>17, <1>18, <1>19 DEF ExchangeInv

\* A step of the server that carries no message on: it accepts a connection,
\* drops some or closes their sockets.
LEMMA ServerSilent ==
    ASSUME RpcInv, TypeOK', UNCHANGED clientVars, Streams(up, down), TasksQueued', handled' = handled,
           \A s \in Requests : \/ phase'[s] = phase[s] /\ rpc'[s] = rpc[s] /\ answer'[s] = answer[s]
                               \/ phase'[s] \in {"read", "gone"}
    PROVE  RpcInv'
<1> USE DEF RpcInv
<1>1. ClientInv'
  BY ClientStepInv
<1>2. StreamTypeOK' /\ Shrinks(up', up) /\ Shrinks(down', down)
  BY StreamsShrink
<1>3. UNCHANGED <<request_map, pending_map, resolving, connecting, stage, sock, status>>
  BY DEF clientVars, queueVars, netVars
<1>4. Active' = Active /\ Unstarted' = Unstarted /\ \A u \in Requests : Unsent(u)' <=> Unsent(u)
  BY <1>3 DEF Active, Unstarted, Unsent
<1>5. \A s \in Requests : Idle(s) => Idle(s)'
  BY <1>2 DEF Idle, Shrinks
<1>6. /\ \A u \in Requests : stage[u] # "none" => sock[u] \in Requests
      /\ Unstarted \cup resolving \cup connecting \subseteq Requests
  BY DEF ClientInv, SocketsApart, Active, ClientTypeOK, Unstarted
<1>7. FreshSocketsIdle'
  BY <1>3, <1>4, <1>5, <1>6 DEF FreshSocketsIdle, ExchangeInv
<1>8. OneMessage'
  BY <1>2 DEF OneMessage, ExchangeInv, Shrinks
<1>9. \A s, r \in Requests : Carries(s, r)' => Carries(s, r)
  BY <1>2 DEF Carries, Shrinks
<1>10. CarriedOnce'
  BY <1>3, <1>4, <1>9 DEF CarriedOnce, ExchangeInv
<1>11. AnswersBelong'
  BY <1>2, <1>3, <1>6 DEF AnswersBelong, ExchangeInv, Shrinks
<1>12. AnswersMatch'
  BY <1>3 DEF AnswersMatch, ExchangeInv
<1> QED  BY <1>1, <1>2, <1>7, <1>8, <1>10, <1>11, <1>12 DEF ExchangeInv

\* Connections that are accepted, dropped, closed or lost with their server.
LEMMA ServerOtherSteps ==
    ASSUME RpcInv,
           \/ \E s \in Requests : TakeConnection(s) \/ ServerTransferFails(s) \/ AtServer(Expire(s))
           \/ \E h \in Hosts : AtServer(Dies(h))
    PROVE  RpcInv'
<1> USE DEF RpcInv
<1>1. UNCHANGED clientVars /\ Streams(up, down)
  BY DEF AtServer, TakeConnection, ServerTransferFails
<1>2. ClientTypeOK'
  BY <1>1, ClientStepInv DEF ClientInv
<1> SUFFICES
      /\ TypeOK' /\ TasksQueued' /\ handled' = handled
      /\ \A s \in Requests : \/ phase'[s] = phase[s] /\ rpc'[s] = rpc[s] /\ answer'[s] = answer[s]
                             \/ phase'[s] \in {"read", "gone"}
  BY <1>1, ServerSilent
<1>3. ASSUME NEW s \in Requests, Accept(s) \/ TransferFails(s)
      PROVE  /\ TypeOK' /\ TasksQueued' /\ handled' = handled
             /\ \A t \in Requests : \/ phase'[t] = phase[t] /\ rpc'[t] = rpc[t] /\ answer'[t] = answer[t]
                                    \/ phase'[t] \in {"read", "gone"}
  <2>1. phase[s] # "queued" /\ UNCHANGED <<task_queue, alive, handled>>
    BY <1>3 DEF Accept, TransferFails, At
  <2>2. TypeOK'
    BY <1>2, <1>3, <2>1 DEF TypeOK, Accept, TransferFails, Drop, Phases
  <2>3. \A t \in Requests : \/ phase'[t] = phase[t] /\ rpc'[t] = rpc[t] /\ answer'[t] = answer[t]
                            \/ phase'[t] \in {"read", "gone"}
    BY <1>3 DEF TypeOK, Accept, TransferFails, Drop
  <2>4. \A t \in Requests : phase[t] = "queued" => phase'[t] = "queued"
    BY <1>3, <2>1 DEF TypeOK, Accept, TransferFails, Drop
  <2>5. TasksQueued'
    <3>1. \A h \in Hosts : \A i \in 1..Len(task_queue[h]) : task_queue[h][i] \in Requests
      BY DEF TypeOK
    <3> QED  BY <2>1, <2>4, <3>1 DEF TasksQueued, ExchangeInv
  <2> QED  BY <2>1, <2>2, <2>3, <2>5
<1>4. ASSUME NEW s \in Requests, Expire(s)
      PROVE  /\ TypeOK' /\ TasksQueued' /\ handled' = handled
             /\ phase' = phase /\ rpc' = rpc /\ answer' = answer
  BY <1>2, <1>4 DEF Expire, TypeOK, TasksQueued, ExchangeInv
<1>5. ASSUME NEW h \in Hosts, Dies(h)
      PROVE  /\ TypeOK' /\ TasksQueued' /\ handled' = handled
             /\ \A t \in Requests : \/ phase'[t] = phase[t] /\ rpc'[t] = rpc[t] /\ answer'[t] = answer[t]
                                    \/ phase'[t] \in {"read", "gone"}
  <2>1. /\ alive' = alive \ {h} /\ handled' = handled
        /\ connected' = {s \in connected : HostOf[s] # h} /\ watched' = {s \in watched : HostOf[s] # h}
        /\ task_queue' = [task_queue EXCEPT ![h] = << >>]
        /\ phase' = [s \in Requests |-> IF HostOf[s] = h THEN "gone" ELSE phase[s]]
        /\ rpc' = [s \in Requests |-> IF HostOf[s] = h THEN None ELSE rpc[s]]
        /\ answer' = [s \in Requests |-> IF HostOf[s] = h THEN None ELSE answer[s]]
    BY <1>5 DEF Dies
  <2>2. task_queue' \in [Hosts -> Seq(Requests)]
    BY <2>1 DEF TypeOK
  <2>3. TypeOK'
    BY <1>2, <2>1, <2>2 DEF TypeOK, Phases
  <2>4. TasksQueued'
    <3> SUFFICES ASSUME NEW g \in Hosts
                 PROVE  /\ \A i \in 1..Len(task_queue'[g]) :
                              phase'[task_queue'[g][i]] = "queued" /\ HostOf[task_queue'[g][i]] = g
                        /\ \A i, j \in 1..Len(task_queue'[g]) : task_queue'[g][i] = task_queue'[g][j] => i = j
      BY DEF TasksQueued
    <3>1. CASE g = h
      <4>1. task_queue'[g] = << >>
        BY <3>1, <2>1 DEF TypeOK
      <4> QED  BY <4>1
    <3>2. CASE g # h
      <4>1. task_queue'[g] = task_queue[g]
        BY <3>2, <2>1 DEF TypeOK
      <4>2. \A i \in 1..Len(task_queue[g]) : task_queue[g][i] \in Requests
        BY DEF TypeOK
      <4> QED  BY <3>2, <4>1, <4>2, <2>1 DEF TasksQueued, ExchangeInv
    <3> QED  BY <3>1, <3>2
  <2> QED  BY <2>1, <2>3, <2>4
<1> QED  BY <1>3, <1>4, <1>5 DEF AtServer, TakeConnection, ServerTransferFails

\* The server reads the request, and queues it or drops the connection.
LEMMA TakeRequestStep ==
    ASSUME RpcInv, NEW s \in Requests, TakeRequest(s)
    PROVE  RpcInv'
<1> USE DEF RpcInv
<1> DEFINE r == Head(up[s])
<1>1. /\ up[s] # << >> /\ phase[s] = "read" /\ ReadRequest(s, r) /\ UNCHANGED clientVars
      /\ UNCHANGED <<alive, handled>> /\ Streams([up EXCEPT ![s] = Tail(@)], down)
  BY DEF TakeRequest, ReadRequest, At
<1>2. PICK x \in Requests : up[s] = <<x>>
  BY <1>1 DEF ExchangeInv, OneMessage
<1>3. r = x /\ Tail(up[s]) = << >> /\ r \in Requests
  BY <1>2
<1> HIDE DEF r
<1>4. ClientInv' /\ ClientTypeOK'
  BY <1>1, ClientStepInv DEF ClientInv
<1>5. UNCHANGED <<request_map, pending_map, resolving, connecting, stage, sock, status>>
  BY <1>1 DEF clientVars, queueVars, netVars
<1>6. Active' = Active /\ Unstarted' = Unstarted /\ \A u \in Requests : Unsent(u)' <=> Unsent(u)
  BY <1>5 DEF Active, Unstarted, Unsent
<1>7. /\ \A u \in Requests : stage[u] # "none" => sock[u] \in Requests
      /\ Unstarted \cup resolving \cup connecting \subseteq Requests
  BY DEF ClientInv, SocketsApart, Active, ClientTypeOK, Unstarted
<1>8. \/ /\ rpc' = [rpc EXCEPT ![s] = r] /\ phase' = [phase EXCEPT ![s] = "queued"]
         /\ task_queue' = [task_queue EXCEPT ![HostOf[s]] = Append(@, s)]
         /\ UNCHANGED <<answer, connected, watched>>
      \/ Drop(s) /\ UNCHANGED task_queue
  BY <1>1 DEF ReadRequest
<1>9. /\ \A t \in Requests \ {s} : phase'[t] = phase[t] /\ rpc'[t] = rpc[t] /\ answer'[t] = answer[t]
      /\ phase'[s] = "gone" \/ (phase'[s] = "queued" /\ rpc'[s] = r)
  BY <1>8 DEF Drop, TypeOK
<1>10. HostOf[s] \in Hosts
  BY MetaAssumption
<1>11. TypeOK'
  <2>1. task_queue' \in [Hosts -> Seq(Requests)]
    <3>1. Append(task_queue[HostOf[s]], s) \in Seq(Requests)
      BY <1>10 DEF TypeOK
    <3> QED  BY <1>8, <1>10, <3>1 DEF TypeOK, Drop
  <2>2. /\ phase' \in [Requests -> Phases] /\ rpc' \in [Requests -> Requests \cup {None}]
        /\ answer' \in [Requests -> Statuses \cup {None}]
        /\ connected' \subseteq Requests /\ watched' \subseteq Requests
    <3>1. /\ phase \in [Requests -> Phases] /\ rpc \in [Requests -> Requests \cup {None}]
          /\ answer \in [Requests -> Statuses \cup {None}]
          /\ connected \subseteq Requests /\ watched \subseteq Requests
      BY DEF TypeOK
    <3>2. CASE Drop(s)
      BY <3>1, <3>2 DEF Drop, Phases
    <3>3. CASE ~Drop(s)
      BY <3>1, <3>3, <1>3, <1>8 DEF Phases
    <3> QED  BY <3>2, <3>3
  <2> QED  BY <1>1, <1>4, <2>1, <2>2 DEF TypeOK
<1>12. /\ \A t \in Requests : up'[t] = (IF t = s THEN << >> ELSE up[t]) \/ up'[t] = << >>
       /\ Shrinks(down', down) /\ StreamTypeOK'
  <2> DEFINE u == [up EXCEPT ![s] = Tail(@)]
  <2>1. u = [t \in Requests |-> IF t = s THEN << >> ELSE up[t]]
    BY <1>3 DEF StreamTypeOK
  <2>2. /\ up' = [t \in Requests |-> IF phase'[t] = "gone" THEN << >> ELSE u[t]]
        /\ down' = [t \in Requests |-> IF t \in open' \/ \E q \in Requests : sock'[q] = t THEN down[t] ELSE << >>]
    BY <1>1 DEF Streams
  <2> HIDE DEF u
  <2>3. /\ \A t \in Requests : up'[t] = (IF t = s THEN << >> ELSE up[t]) \/ up'[t] = << >>
        /\ Shrinks(down', down)
    BY <2>1, <2>2 DEF Shrinks
  <2>4. << >> \in Seq(Requests) /\ << >> \in Seq(Statuses)
    OBVIOUS
  <2>5. \A t \in Requests : up'[t] \in Seq(Requests) /\ down'[t] \in Seq(Statuses)
    BY <2>3, <2>4 DEF StreamTypeOK, Shrinks
  <2> QED  BY <2>2, <2>3, <2>5 DEF StreamTypeOK
<1>13. ~Idle(s) /\ down[s] = << >>
  BY <1>1 DEF Idle, ExchangeInv, OneMessage
<1>14. \A t \in Requests : Idle(t) => Idle(t)'
  BY <1>9, <1>12, <1>13 DEF Idle, Shrinks
<1>15. FreshSocketsIdle'
  BY <1>5, <1>6, <1>7, <1>14 DEF FreshSocketsIdle, ExchangeInv
<1>16. OneMessage'
  <2> SUFFICES ASSUME NEW t \in Requests
               PROVE  /\ up'[t] = << >> \/ \E q \in Requests : up'[t] = <<q>>
                      /\ down'[t] = << >> \/ \E st \in Statuses : down'[t] = <<st>>
                      /\ up'[t] # << >> => down'[t] = << >> /\ phase'[t] \notin {"queued", "write"}
                      /\ down'[t] # << >> => phase'[t] \notin {"queued", "write"}
                      /\ phase'[t] = "queued" => rpc'[t] \in Requests
                      /\ phase'[t] = "write" => answer'[t] \in Statuses
    BY DEF OneMessage
  <2>1. CASE t = s
    BY <2>1, <1>3, <1>9, <1>12, <1>13 DEF Shrinks
  <2>2. CASE t # s
    BY <2>2, <1>9, <1>12 DEF Shrinks, ExchangeInv, OneMessage
  <2> QED  BY <2>1, <2>2
<1>17. TasksQueued'
  <2> SUFFICES ASSUME NEW g \in Hosts
               PROVE  /\ \A i \in 1..Len(task_queue'[g]) :
                            phase'[task_queue'[g][i]] = "queued" /\ HostOf[task_queue'[g][i]] = g
                      /\ \A i, j \in 1..Len(task_queue'[g]) : task_queue'[g][i] = task_queue'[g][j] => i = j
    BY DEF TasksQueued
  <2>1. task_queue[g] \in Seq(Requests) /\ Len(task_queue[g]) \in Nat
    BY DEF TypeOK
  <2>2. \A i \in 1..Len(task_queue[g]) : /\ task_queue[g][i] \in Requests \ {s}
                                         /\ phase[task_queue[g][i]] = "queued" /\ HostOf[task_queue[g][i]] = g
    BY <2>1, <1>1 DEF TasksQueued, ExchangeInv
  <2>3. \A i, j \in 1..Len(task_queue[g]) : task_queue[g][i] = task_queue[g][j] => i = j
    BY DEF TasksQueued, ExchangeInv
  <2>4. CASE task_queue'[g] = task_queue[g]
    BY <2>2, <2>3, <2>4, <1>9
  <2>5. CASE task_queue'[g] # task_queue[g]
    <3>1. g = HostOf[s] /\ task_queue'[g] = Append(task_queue[g], s) /\ phase'[s] = "queued"
      BY <2>5, <1>8, <1>10 DEF TypeOK
    <3>2. /\ Len(task_queue'[g]) = Len(task_queue[g]) + 1
          /\ \A i \in 1..Len(task_queue'[g]) :
                task_queue'[g][i] = IF i <= Len(task_queue[g]) THEN task_queue[g][i] ELSE s
      BY <3>1, <2>1
    <3>3. \A i \in 1..Len(task_queue'[g]) : i <= Len(task_queue[g]) => i \in 1..Len(task_queue[g])
      BY <3>2, <2>1
    <3>4. \A i, j \in 1..Len(task_queue'[g]) :
             i > Len(task_queue[g]) /\ j > Len(task_queue[g]) => i = j
      BY <3>2, <2>1
    <3>5. \A i \in 1..Len(task_queue'[g]) :
             phase'[task_queue'[g][i]] = "queued" /\ HostOf[task_queue'[g][i]] = g
      BY <3>1, <3>2, <3>3, <2>2, <1>9
    <3>6. ASSUME NEW i \in 1..Len(task_queue'[g]), NEW j \in 1..Len(task_queue'[g]),
                 task_queue'[g][i] = task_queue'[g][j]
          PROVE  i = j
      BY <3>2, <3>3, <3>4, <3>6, <2>1, <2>2, <2>3
    <3> QED  BY <3>5, <3>6
  <2> QED  BY <2>4, <2>5
<1>18. \A t, q \in Requests : Carries(t, q)' => Carries(t, q)
  BY <1>2, <1>3, <1>9, <1>12 DEF Carries
<1>19. CarriedOnce'
  BY <1>1, <1>5, <1>6, <1>18 DEF CarriedOnce, ExchangeInv
<1>20. AnswersBelong'
  BY <1>1, <1>5, <1>7, <1>9, <1>12 DEF AnswersBelong, ExchangeInv, Shrinks
<1>21. AnswersMatch'
  BY <1>1, <1>5 DEF AnswersMatch, ExchangeInv
<1> QED  BY <1>4, <1>11, <1>12, <1>15, <1>16, <1>17, <1>19, <1>20, <1>21 DEF ExchangeInv

\* The server writes the answer.
LEMMA GiveAnswerStep ==
    ASSUME RpcInv, NEW s \in Requests, GiveAnswer(s)
    PROVE  RpcInv'
<1> USE DEF RpcInv
<1>1. /\ phase[s] = "write" /\ phase' = [phase EXCEPT ![s] = "read"]
      /\ watched' = watched \cup {s}
      /\ rpc' = [rpc EXCEPT ![s] = None] /\ answer' = [answer EXCEPT ![s] = None]
      /\ UNCHANGED <<connected, task_queue, alive, handled>> /\ UNCHANGED clientVars
      /\ Streams(up, [down EXCEPT ![s] = Append(@, answer[s])])
  BY DEF GiveAnswer, WriteAnswer, At
<1>2. ClientInv' /\ ClientTypeOK'
  BY <1>1, ClientStepInv DEF ClientInv
<1>3. UNCHANGED <<request_map, pending_map, resolving, connecting, stage, sock, status>>
  BY <1>1 DEF clientVars, queueVars, netVars
<1>4. Active' = Active /\ Unstarted' = Unstarted /\ \A u \in Requests : Unsent(u)' <=> Unsent(u)
  BY <1>3 DEF Active, Unstarted, Unsent
<1>5. /\ \A u \in Requests : stage[u] # "none" => sock[u] \in Requests
      /\ Unstarted \cup resolving \cup connecting \subseteq Requests
  BY DEF ClientInv, SocketsApart, Active, ClientTypeOK, Unstarted
<1>6. /\ \A t \in Requests \ {s} : phase'[t] = phase[t] /\ rpc'[t] = rpc[t] /\ answer'[t] = answer[t]
      /\ phase'[s] = "read"
  BY <1>1 DEF TypeOK
<1>7. TypeOK'
  BY <1>1, <1>2 DEF TypeOK, Phases
<1>8. up[s] = << >> /\ down[s] = << >> /\ answer[s] \in Statuses
  BY <1>1 DEF ExchangeInv, OneMessage
<1>9. /\ Shrinks(up', up) /\ StreamTypeOK'
      /\ \A t \in Requests : down'[t] = (IF t = s THEN <<answer[s]>> ELSE down[t]) \/ down'[t] = << >>
  <2> DEFINE d == [down EXCEPT ![s] = Append(@, answer[s])]
  <2>1. Append(down[s], answer[s]) = <<answer[s]>>
    BY <1>8
  <2>2. d = [t \in Requests |-> IF t = s THEN <<answer[s]>> ELSE down[t]]
    BY <2>1 DEF StreamTypeOK
  <2>3. /\ up' = [t \in Requests |-> IF phase'[t] = "gone" THEN << >> ELSE up[t]]
        /\ down' = [t \in Requests |-> IF t \in open' \/ \E q \in Requests : sock'[q] = t THEN d[t] ELSE << >>]
    BY <1>1 DEF Streams
  <2> HIDE DEF d
  <2>4. /\ Shrinks(up', up)
        /\ \A t \in Requests : down'[t] = (IF t = s THEN <<answer[s]>> ELSE down[t]) \/ down'[t] = << >>
    BY <2>2, <2>3 DEF Shrinks
  <2>5. << >> \in Seq(Requests) /\ << >> \in Seq(Statuses) /\ <<answer[s]>> \in Seq(Statuses)
    BY <1>8
  <2>6. \A t \in Requests : up'[t] \in Seq(Requests) /\ down'[t] \in Seq(Statuses)
    BY <2>4, <2>5 DEF StreamTypeOK, Shrinks
  <2> QED  BY <2>3, <2>4, <2>6 DEF StreamTypeOK
<1>10. \A t \in Requests : Idle(t) => t # s /\ Idle(t)'
  BY <1>1, <1>6, <1>9 DEF Idle, Shrinks
<1>11. FreshSocketsIdle'
  BY <1>3, <1>4, <1>5, <1>10 DEF FreshSocketsIdle, ExchangeInv
<1>12. OneMessage'
  BY <1>6, <1>8, <1>9 DEF OneMessage, ExchangeInv, Shrinks
<1>13. TasksQueued'
  <2>1. \A h \in Hosts : \A i \in 1..Len(task_queue[h]) : task_queue[h][i] \in Requests
    BY DEF TypeOK
  <2> QED  BY <2>1, <1>1, <1>6 DEF TasksQueued, ExchangeInv
<1>14. \A t, q \in Requests : Carries(t, q)' => Carries(t, q)
  BY <1>6, <1>9 DEF Carries, Shrinks
<1>15. CarriedOnce'
  BY <1>1, <1>3, <1>4, <1>14 DEF CarriedOnce, ExchangeInv
<1>16. AnswersBelong'
  BY <1>1, <1>3, <1>5, <1>6, <1>9 DEF AnswersBelong, ExchangeInv
<1>17. AnswersMatch'
  BY <1>1, <1>3 DEF AnswersMatch, ExchangeInv
<1> QED  BY <1>2, <1>7, <1>9, <1>11, <1>12, <1>13, <1>15, <1>16, <1>17 DEF ExchangeInv

\* The handler of the first task runs.
LEMMA ProcessStep ==
    ASSUME RpcInv, NEW h \in Hosts, NEW st \in Statuses, AtServer(Process(h, st))
    PROVE  RpcInv'
<1> USE DEF RpcInv
<1> DEFINE s == Head(task_queue[h])
           r == rpc[s]
<1>1. /\ task_queue[h] # << >>
      /\ handled' = [handled EXCEPT ![r] = Append(@, st)]
      /\ answer' = [answer EXCEPT ![s] = st]
      /\ phase' = [phase EXCEPT ![s] = "write"]
      /\ task_queue' = [task_queue EXCEPT ![h] = Tail(@)]
      /\ UNCHANGED <<rpc, connected, watched, alive>>
      /\ UNCHANGED clientVars /\ Streams(up, down)
  BY DEF AtServer, Process
<1>2. task_queue[h] \in Seq(Requests) /\ Len(task_queue[h]) \in Nat
      /\ Len(task_queue[h]) >= 1 /\ s = task_queue[h][1]
  BY <1>1 DEF TypeOK
<1>3. s \in Requests /\ phase[s] = "queued" /\ r \in Requests
  BY <1>2 DEF ExchangeInv, TasksQueued, OneMessage
<1> HIDE DEF s, r
<1>4. ClientInv' /\ ClientTypeOK'
  BY <1>1, ClientStepInv DEF ClientInv
<1>5. UNCHANGED <<request_map, pending_map, resolving, connecting, stage, sock, status>>
  BY <1>1 DEF clientVars, queueVars, netVars
<1>6. Active' = Active /\ Unstarted' = Unstarted /\ \A u \in Requests : Unsent(u)' <=> Unsent(u)
  BY <1>5 DEF Active, Unstarted, Unsent
<1>7. /\ \A u \in Requests : stage[u] # "none" => sock[u] \in Requests
      /\ Unstarted \cup resolving \cup connecting \subseteq Requests
  BY DEF ClientInv, SocketsApart, Active, ClientTypeOK, Unstarted
<1>8. StreamTypeOK' /\ Shrinks(up', up) /\ Shrinks(down', down)
  BY <1>1, StreamsShrink
<1>9. Carries(s, r)
  BY <1>3 DEF Carries, r
<1>10. /\ ~Unsent(r) /\ handled[r] = << >>
       /\ \A q \in Active : sock[q] = s => q = r
       /\ stage[r] = "read" => sock[r] = s
       /\ \A t \in Requests : Carries(t, r) => s = t
  BY <1>3, <1>9 DEF CarriedOnce, ExchangeInv
<1>11. \A u \in Requests : handled'[u] = IF u = r THEN <<st>> ELSE handled[u]
  <2>1. Append(handled[r], st) = <<st>>
    BY <1>10
  <2> QED  BY <1>1, <1>3, <2>1 DEF TypeOK
<1>12. \A t \in Requests : /\ phase'[t] = IF t = s THEN "write" ELSE phase[t]
                           /\ answer'[t] = IF t = s THEN st ELSE answer[t]
                           /\ rpc'[t] = rpc[t]
  BY <1>1, <1>3 DEF TypeOK
<1>13. TypeOK'
  <2>1. Tail(task_queue[h]) \in Seq(Requests) /\ Append(handled[r], st) \in Seq(Statuses)
    BY <1>1, <1>2, <1>3 DEF TypeOK
  <2>2. task_queue' \in [Hosts -> Seq(Requests)] /\ handled' \in [Requests -> Seq(Statuses)]
    BY <1>1, <2>1 DEF TypeOK
  <2> QED  BY <1>1, <1>4, <2>2 DEF TypeOK, Phases
<1>14. up[s] = << >> /\ down[s] = << >> /\ ~Idle(s)
  BY <1>3 DEF ExchangeInv, OneMessage, Idle
<1>15. \A t \in Requests : Idle(t) => Idle(t)'
  BY <1>8, <1>12, <1>14 DEF Idle, Shrinks
<1>16. FreshSocketsIdle'
  BY <1>5, <1>6, <1>7, <1>15 DEF FreshSocketsIdle, ExchangeInv
<1>17. OneMessage'
  BY <1>8, <1>12, <1>14 DEF OneMessage, ExchangeInv, Shrinks
<1>18. TasksQueued'
  <2> SUFFICES ASSUME NEW g \in Hosts
               PROVE  /\ \A i \in 1..Len(task_queue'[g]) :
                            phase'[task_queue'[g][i]] = "queued" /\ HostOf[task_queue'[g][i]] = g
                      /\ \A i, j \in 1..Len(task_queue'[g]) : task_queue'[g][i] = task_queue'[g][j] => i = j
    BY DEF TasksQueued
  <2>1. task_queue[g] \in Seq(Requests) /\ Len(task_queue[g]) \in Nat
    BY DEF TypeOK
  <2>2. \A i \in 1..Len(task_queue[g]) : /\ task_queue[g][i] \in Requests
                                         /\ phase[task_queue[g][i]] = "queued" /\ HostOf[task_queue[g][i]] = g
    BY <2>1 DEF TasksQueued, ExchangeInv
  <2>3. \A i, j \in 1..Len(task_queue[g]) : task_queue[g][i] = task_queue[g][j] => i = j
    BY DEF TasksQueued, ExchangeInv
  <2>4. CASE g # h
    <3>1. task_queue'[g] = task_queue[g]
      BY <2>4, <1>1 DEF TypeOK
    <3>2. HostOf[s] = h
      BY <1>2 DEF ExchangeInv, TasksQueued
    <3> QED  BY <2>2, <2>3, <2>4, <3>1, <3>2, <1>12
  <2>5. CASE g = h
    <3>1. task_queue'[g] = Tail(task_queue[g])
      BY <2>5, <1>1 DEF TypeOK
    <3>2. /\ Len(task_queue'[g]) = Len(task_queue[g]) - 1
          /\ \A i \in 1..Len(task_queue'[g]) : task_queue'[g][i] = task_queue[g][i + 1]
      BY <3>1, <2>1, <2>5, <1>1, <1>2
    <3>3. \A i \in 1..Len(task_queue'[g]) : i + 1 \in 1..Len(task_queue[g]) /\ i + 1 # 1
      BY <3>2, <2>1
    <3>4. 1 \in 1..Len(task_queue[g]) /\ s = task_queue[g][1]
      BY <1>2, <2>5
    <3>5. \A i \in 1..Len(task_queue'[g]) : task_queue'[g][i] # s
      BY <3>2, <3>3, <3>4, <2>3
    <3>6. \A i \in 1..Len(task_queue'[g]) :
             phase'[task_queue'[g][i]] = "queued" /\ HostOf[task_queue'[g][i]] = g
      BY <3>2, <3>3, <3>5, <2>2, <1>12
    <3>7. ASSUME NEW i \in 1..Len(task_queue'[g]), NEW j \in 1..Len(task_queue'[g]),
                 task_queue'[g][i] = task_queue'[g][j]
          PROVE  i = j
      <4>1. i + 1 = j + 1
        BY <3>2, <3>3, <3>7, <2>3
      <4> QED  BY <4>1
    <3> QED  BY <3>6, <3>7
  <2> QED  BY <2>4, <2>5
<1>19. \A t, q \in Requests : Carries(t, q)' => Carries(t, q) /\ q # r
  <2>1. \A t, q \in Requests : Carries(t, q)' => Carries(t, q) /\ t # s
    BY <1>8, <1>12, <1>14 DEF Carries, Shrinks
  <2> QED  BY <2>1, <1>10
<1>20. CarriedOnce'
  BY <1>5, <1>6, <1>10, <1>11, <1>19 DEF CarriedOnce, ExchangeInv
<1>21. AnswersBelong'
  <2> SUFFICES ASSUME NEW u \in Requests, stage[u] = "read"
               PROVE  /\ phase'[sock[u]] = "write" => handled'[u] = <<answer'[sock[u]]>>
                      /\ down'[sock[u]] # << >> => handled'[u] = down'[sock[u]]
    BY <1>5 DEF AnswersBelong
  <2>1. u \in Active /\ sock[u] \in Requests
    BY <1>7 DEF Active
  <2>2. CASE u = r
    <3>1. sock[u] = s
      BY <2>2, <1>10
    <3> QED  BY <3>1, <2>2, <1>3, <1>8, <1>11, <1>12, <1>14 DEF Shrinks
  <2>3. CASE u # r
    <3>1. sock[u] # s
      BY <2>1, <2>3, <1>10
    <3> QED  BY <3>1, <2>1, <2>3, <1>8, <1>11, <1>12 DEF AnswersBelong, ExchangeInv, Shrinks
  <2> QED  BY <2>2, <2>3
<1>22. AnswersMatch'
  <2>1. status[r] \notin Statuses
    BY <1>3, <1>10 DEF AnswersMatch, ExchangeInv
  <2>2. Len(<<st>>) <= 1
    OBVIOUS
  <2> QED  BY <2>1, <2>2, <1>5, <1>11 DEF AnswersMatch, ExchangeInv
<1> QED  BY <1>4, <1>8, <1>13, <1>16, <1>17, <1>18, <1>20, <1>21, <1>22 DEF ExchangeInv

-----------------------------------------------------------------------------
(* The theorems *)

\* The invariant holds when nothing has been dispatched and no server has a
\* connection.
LEMMA RpcInvInit == Init => RpcInv
<1> SUFFICES ASSUME Init PROVE RpcInv
  OBVIOUS
<1>1. ClientInit /\ ServerInit /\ up = [s \in Requests |-> << >>] /\ down = [s \in Requests |-> << >>]
  BY DEF Init
<1>2. Active = {} /\ Orphans = {} /\ pending_map \cup Active = {} /\ Cardinality({}) = 0
  BY <1>1, FS_EmptySet DEF ClientInit, Active, Orphans
<1>3. ClientTypeOK
  <2>1. running \in BOOLEAN /\ crashed \in BOOLEAN
    BY <1>1, Zenon DEF ClientInit
  <2>2. waiting_count \in 0..(WAIT_LIMIT + 1)
    BY <1>1, ClientAssumption DEF ClientInit
  <2> QED  BY <1>1, <2>1, <2>2 DEF ClientInit, ClientTypeOK
<1>4. OnePlace /\ RetriesAreNew
  BY <1>1, <1>2, ClientAssumption DEF ClientInit, OnePlace, RetriesAreNew
<1>5. SocketsApart
  BY <1>1, <1>2, MetaAssumption DEF ClientInit, SocketsApart
<1>6. SocketsCounted
  BY <1>1, <1>2 DEF ClientInit, SocketsCounted
<1>7. TypeOK /\ StreamTypeOK
  BY <1>1, <1>3 DEF ServerInit, TypeOK, StreamTypeOK, Phases
<1>8. FreshSocketsIdle
  BY <1>1 DEF ClientInit, ServerInit, FreshSocketsIdle, Idle, Unstarted
<1>9. OneMessage /\ TasksQueued
  BY <1>1 DEF ServerInit, OneMessage, TasksQueued
<1>10. CarriedOnce /\ AnswersBelong
  BY <1>1 DEF ClientInit, ServerInit, CarriedOnce, Carries, AnswersBelong
<1>11. AnswersMatch
  BY <1>1 DEF ClientInit, ServerInit, AnswersMatch, Statuses
<1> QED  BY <1>3, <1>4, <1>5, <1>6, <1>7, <1>8, <1>9, <1>10, <1>11 DEF RpcInv, ClientInv, ExchangeInv

\* Every step of the composition keeps the invariant.
LEMMA RpcInvStep ==
    ASSUME RpcInv, [Next]_rpcVars
    PROVE  RpcInv'
<1>1. CASE UNCHANGED rpcVars
  <2>1. UNCHANGED clientVars /\ UNCHANGED serverVars /\ up' = up /\ down' = down
    BY <1>1 DEF rpcVars
  <2>2. ClientInv'
    BY <2>1, ClientStepInv DEF RpcInv
  <2>3. UNCHANGED <<request_map, pending_map, resolving, connecting, stage, sock, status>>
    BY <2>1 DEF clientVars, queueVars, netVars
  <2>4. Unstarted' = Unstarted /\ StreamTypeOK' /\ \A u \in Requests : Unsent(u)' <=> Unsent(u)
    BY <2>1, <2>3 DEF Unstarted, Unsent, StreamTypeOK, RpcInv
  <2>5. Shrinks(up', up) /\ Shrinks(down', down)
    BY <2>1 DEF Shrinks
  <2> QED  BY <2>1, <2>2, <2>3, <2>4, <2>5, ClientSilent
<1>2. CASE \/ AtClient(Run) \/ AtClient(RunReturns)
           \/ \E r \in Requests :
                 \/ AtClient(Dispatch(r)) \/ AtClient(HandleResolve(r)) \/ AtClient(ResolveFails(r))
                 \/ AtClient(HandleConnectUnwanted(r)) \/ AtClient(Watchdog(r)) \/ MakeConnection(r)
  BY <1>2, ClientOtherSteps
<1>3. ASSUME NEW r \in Requests, AtClient(ConnectFails(r)) \/ AtClient(ExchangeFails(r))
      PROVE  RpcInv'
  BY <1>3, FailureSilent
<1>4. ASSUME NEW r \in Requests, SendRequest(r) \/ ReceiveAnswer(r)
      PROVE  RpcInv'
  BY <1>4, SendRequestStep, ReceiveAnswerStep
<1>5. CASE \/ \E s \in Requests : TakeConnection(s) \/ ServerTransferFails(s) \/ AtServer(Expire(s))
           \/ \E h \in Hosts : AtServer(Dies(h))
  BY <1>5, ServerOtherSteps
<1>6. ASSUME NEW s \in Requests, TakeRequest(s) \/ GiveAnswer(s)
      PROVE  RpcInv'
  BY <1>6, TakeRequestStep, GiveAnswerStep
<1>7. ASSUME NEW h \in Hosts, NEW st \in Statuses, AtServer(Process(h, st))
      PROVE  RpcInv'
  BY <1>7, ProcessStep
<1> QED  BY <1>1, <1>2, <1>3, <1>4, <1>5, <1>6, <1>7, Zenon DEF Next

\* The invariant of client, servers and streams.
LEMMA RpcInvariant == Spec => []RpcInv
BY RpcInvInit, RpcInvStep, PTL DEF Spec

\* rpc_client.hpp and rpc_server.hpp keep their types; in particular
\* waiting_count never exceeds WAIT_LIMIT + 1 nor becomes negative.
THEOREM RpcTypes == Spec => []TypeOK
<1>1. RpcInv => TypeOK
  BY DEF RpcInv
<1> QED  BY <1>1, RpcInvariant, PTL

\* A request whose callback is due is in exactly one of request_map,
\* pending_map and the exchanges, for any number of requests and retries,
\* whichever socket handle_next_request gives it.
THEOREM RequestsInOnePlace == Spec => []OnePlace
<1>1. RpcInv => OnePlace
  BY DEF RpcInv, ClientInv
<1> QED  BY <1>1, RpcInvariant, PTL

\* The client holds at most WAIT_LIMIT + 1 sockets, those of requests that
\* were moved to another socket included.
THEOREM SocketsAlwaysBounded == Spec => []HandlesBounded
<1>1. RpcInv => HandlesBounded
  BY HandlesCounted DEF RpcInv
<1> QED  BY <1>1, RpcInvariant, PTL

\* A handler runs at most once for a request, and a callback is told what the
\* handler of its own request returned, although connections are reused,
\* time out at either end and requests change sockets.
THEOREM AnswersAlwaysMatch == Spec => []AnswersMatch
<1>1. RpcInv => AnswersMatch
  BY DEF RpcInv, ExchangeInv
<1> QED  BY <1>1, RpcInvariant, PTL

=============================================================================
