------------------------------ MODULE DhtProofs ------------------------------
(***************************************************************************)
(* Proofs about Dht, for any clients, keys, gateways, number of copies,    *)
(* hash and number of failed exchanges.                                    *)
(***************************************************************************)
EXTENDS Dht, FiniteSetTheorems, SequenceTheorems, TLAPS

-----------------------------------------------------------------------------
(* The inductive invariant. *)

Entry == [key : Keys, copy : Copies]

PutStates == [answered : Nat, ok : Nat, result : {"none", "pending", "ok", "eobj"}]

GetStates ==
    [result : Keys \cup {"none", "pending", Empty}, failed : SUBSET Copies, absent : BOOLEAN]

WriteRequest == [client : Clients, gateway : Gateways, kind : {"WRITE"}, entries : Seq(Keys)]

ReadRequest == [client : Clients, gateway : Gateways, kind : {"READ"}, entries : Seq(Entry)]

\* simple_dht's part of the state has its types.
ClientTypes ==
    /\ phase \in [Clients -> {"idle", "run", "called"}]
    /\ cache \in [Clients -> SUBSET Keys]
    /\ pending_puts \in [Clients -> [Gateways -> Seq(Keys)]]
    /\ pending_gets \in [Clients -> [Gateways -> Seq(Entry)]]
    /\ flight \subseteq WriteRequest \cup ReadRequest
    /\ puts \in [Keys -> PutStates]
    /\ gets \in [Clients -> [Keys -> GetStates]]

\* And so has the gateways'.
ServerTypes ==
    /\ late \subseteq WriteRequest
    /\ stored \in [Gateways -> SUBSET Keys]
    /\ space_left \in [Gateways -> Nat]
    /\ faults \in Nat

Started(k) == puts[k].result # "none"

HeldBySome(k) == \E i \in Copies : k \in stored[choose_gateway(k, i)]

\* Keys queued for, or sent to, gateway g to be stored are being put, and
\* hash to g.
PutRightly(entries, g) ==
    \A i \in DOMAIN entries :
        Started(entries[i]) /\ \E n \in Copies : choose_gateway(entries[i], n) = g

\* Copies that client c asks g for hash to g, and the exchange of each copy
\* before failed.
GetRightly(entries, g, c) ==
    \A i \in DOMAIN entries :
        /\ choose_gateway(entries[i].key, entries[i].copy) = g
        /\ 0..(entries[i].copy - 1) \subseteq gets[c][entries[i].key].failed

QueuesRight ==
    \A c \in Clients, g \in Gateways :
        PutRightly(pending_puts[c][g], g) /\ GetRightly(pending_gets[c][g], g, c)

RequestsRight ==
    /\ \A r \in flight \cap WriteRequest : PutRightly(r.entries, r.gateway)
    /\ \A r \in flight \cap ReadRequest : GetRightly(r.entries, r.gateway, r.client)
    /\ \A r \in late : PutRightly(r.entries, r.gateway)

\* A copy that counts as stored is stored, and only what is put is.
PutsRight ==
    /\ \A k \in Keys :
          /\ puts[k].ok <= puts[k].answered
          /\ ~Started(k) => puts[k].answered = 0
          /\ puts[k].ok > 0 \/ puts[k].result = "ok" => HeldBySome(k)
    /\ \A g \in Gateways, k \in Keys : k \in stored[g] => Started(k)
    /\ \A c \in Clients, k \in Keys : k \in cache[c] => Started(k)

ResultsRight ==
    \A c \in Clients, k \in Keys :
        /\ gets[c][k].result \in Keys => gets[c][k].result = k /\ Started(k)
        /\ gets[c][k].result = Empty => gets[c][k].absent \/ Copies \subseteq gets[c][k].failed

DhtInv ==
    /\ ClientTypes /\ ServerTypes
    /\ QueuesRight /\ RequestsRight /\ PutsRight /\ ResultsRight

\* Outside wait() a client has no request in flight.
OutOfWait == \A c \in Clients : phase[c] = "idle" => \A r \in flight : r.client # c

\* Every copy of a put is queued, in flight or counted.
CopiesAccounted ==
    \A k \in Keys :
        /\ IsFiniteSet(Queued(k)) /\ IsFiniteSet(Sent(k))
        /\ Started(k) => puts[k].answered + Outstanding(k) = replication

CountInv == OutOfWait /\ CopiesAccounted

-----------------------------------------------------------------------------
(* Counting. *)

\* Numbering the members of a finite set of integers in their order reaches
\* every number up to how many there are, and none twice.
LEMMA RankProps ==
    ASSUME NEW S \in SUBSET Int, IsFiniteSet(S)
    PROVE  /\ Cardinality(S) \in Nat
           /\ \A i \in S : Cardinality({j \in S : j <= i}) \in 1..Cardinality(S)
           /\ \A i, l \in S :
                 Cardinality({j \in S : j <= i}) = Cardinality({j \in S : j <= l}) => i = l
           /\ \A n \in 1..Cardinality(S) : \E i \in S : Cardinality({j \in S : j <= i}) = n
<1> DEFINE Upto(i) == {j \in S : j <= i}
           Rank(i) == Cardinality(Upto(i))
           f == [i \in S |-> Rank(i)]
           m == Cardinality(S)
<1>1. m \in Nat
  BY FS_CardinalityType
<1>2. ASSUME NEW i \in S PROVE IsFiniteSet(Upto(i)) /\ Rank(i) \in Nat /\ Rank(i) <= m /\ Rank(i) # 0
  <2>1. Upto(i) \in SUBSET S /\ i \in Upto(i)
    OBVIOUS
  <2> HIDE DEF Upto
  <2>2. IsFiniteSet(Upto(i)) /\ Cardinality(Upto(i)) <= Cardinality(S)
    BY <2>1, FS_Subset
  <2>3. Cardinality(Upto(i)) \in Nat
    BY <2>2, FS_CardinalityType
  <2>4. Cardinality(Upto(i)) # 0
    BY <2>1, <2>2, FS_EmptySet
  <2> QED BY <2>2, <2>3, <2>4
<1>3. ASSUME NEW i \in S PROVE Rank(i) \in 1..m
  <2>1. Rank(i) \in Nat /\ Rank(i) <= m /\ Rank(i) # 0
    BY <1>2
  <2> HIDE DEF Rank, m
  <2> QED BY <1>1, <2>1
<1>4. ASSUME NEW i \in S, NEW l \in S, i < l PROVE Rank(i) # Rank(l)
  <2>1. Upto(i) \in SUBSET Upto(l) /\ l \in Upto(l) /\ l \notin Upto(i)
    <3>1. i \in Int /\ l \in Int /\ \A j \in S : j \in Int
      OBVIOUS
    <3>2. l \in Upto(l) /\ l \notin Upto(i)
      BY <1>4, <3>1
    <3>3. ASSUME NEW j \in Upto(i) PROVE j \in Upto(l)
      BY <1>4, <3>1
    <3> QED BY <3>2, <3>3
  <2> HIDE DEF Upto
  <2>2. Cardinality(Upto(i)) = Cardinality(Upto(l)) => Upto(l) = Upto(i)
    BY <1>2, <2>1, FS_Subset
  <2> QED BY <2>1, <2>2
<1>5. \A i, l \in S : Rank(i) = Rank(l) => i = l
  <2> HIDE DEF Rank
  <2> QED BY <1>4
<1>6. IsFiniteSet(1..m) /\ Cardinality(1..m) = m
  <2> HIDE DEF m
  <2>1. IsFiniteSet(1..m)
    BY <1>1, FS_Interval
  <2>2. Cardinality(1..m) = IF 1 > m THEN 0 ELSE m - 1 + 1
    BY <1>1, FS_Interval
  <2> QED BY <1>1, <2>1, <2>2
<1> HIDE DEF Rank, m
<1>7. f \in Injection(S, 1..m)
  BY <1>3, <1>5 DEF Injection, IsInjective
<1> HIDE DEF f
<1>8. f \in Surjection(S, 1..m)
  <2>1. Cardinality(S) = Cardinality(1..m) <=> f \in Surjection(S, 1..m)
    BY <1>6, <1>7, FS_Injection
  <2> QED BY <1>6, <2>1 DEF m
<1>9. \A n \in 1..m : \E i \in S : Rank(i) = n
  BY <1>8 DEF Surjection, f
<1> QED BY <1>1, <1>3, <1>5, <1>9 DEF Rank, m

\* The positions of a sequence are finitely many.
LEMMA PlacesFinite ==
    ASSUME NEW T, NEW s \in Seq(T), NEW S \in SUBSET DOMAIN s
    PROVE  /\ S \in SUBSET Int
           /\ IsFiniteSet(S)
           /\ Cardinality(S) \in Nat
           /\ Cardinality(S) <= Len(s)
<1>1. DOMAIN s = 1..Len(s) /\ Len(s) \in Nat
  OBVIOUS
<1>2. IsFiniteSet(1..Len(s))
  BY <1>1, FS_Interval
<1>3. Cardinality(1..Len(s)) = IF 1 > Len(s) THEN 0 ELSE Len(s) - 1 + 1
  BY <1>1, FS_Interval
<1>4. Cardinality(1..Len(s)) = Len(s)
  BY <1>1, <1>3
<1>5. IsFiniteSet(S) /\ Cardinality(S) <= Cardinality(1..Len(s))
  BY <1>1, <1>2, FS_Subset
<1>6. Cardinality(S) \in Nat
  BY <1>5, FS_CardinalityType
<1> QED BY <1>1, <1>4, <1>5, <1>6

-----------------------------------------------------------------------------
(* What the callbacks ask for again. *)

\* A retried get asks the gateway of the next copy.
LEMMA RetriedProps ==
    ASSUME NEW r \in ReadRequest, NEW status, NEW g \in Gateways
    PROVE  /\ Retried(r, status, g) \in Seq(Entry)
           /\ \A n \in DOMAIN Retried(r, status, g) : \E i \in DOMAIN r.entries :
                 /\ Retries(r.entries[i], status)
                 /\ Retried(r, status, g)[n].key = r.entries[i].key
                 /\ Retried(r, status, g)[n].copy = r.entries[i].copy + 1
                 /\ choose_gateway(r.entries[i].key, r.entries[i].copy + 1) = g
<1> DEFINE S == {i \in DOMAIN r.entries :
                    /\ Retries(r.entries[i], status)
                    /\ choose_gateway(r.entries[i].key, r.entries[i].copy + 1) = g}
           Nth(n) == CHOOSE i \in S : Cardinality({j \in S : j <= i}) = n
           q == [n \in 1..Cardinality(S) |->
                    [key |-> r.entries[Nth(n)].key, copy |-> r.entries[Nth(n)].copy + 1]]
<1>1. Retried(r, status, g) = q
  BY DEF Retried
<1>2. r.entries \in Seq(Entry)
  BY DEF ReadRequest
<1>3. S \in SUBSET DOMAIN r.entries
  OBVIOUS
<1>4. \A i \in S : /\ r.entries[i] \in Entry
                   /\ Retries(r.entries[i], status)
                   /\ choose_gateway(r.entries[i].key, r.entries[i].copy + 1) = g
  BY <1>2
<1> HIDE DEF S
<1>5. S \in SUBSET Int /\ IsFiniteSet(S)
  BY <1>2, <1>3, PlacesFinite
<1>6. Cardinality(S) \in Nat /\ \A n \in 1..Cardinality(S) : \E i \in S : Cardinality({j \in S : j <= i}) = n
  BY <1>5, RankProps
<1>7. \A n \in 1..Cardinality(S) : Nth(n) \in S
  BY <1>6
<1> HIDE DEF Nth
<1>8. ASSUME NEW i \in S PROVE [key |-> r.entries[i].key, copy |-> r.entries[i].copy + 1] \in Entry
  <2>1. /\ r.entries[i].key \in Keys /\ r.entries[i].copy \in 0..(replication - 1)
        /\ r.entries[i].copy + 1 # replication
    BY <1>4 DEF Entry, Copies, Retries
  <2>2. r.entries[i].copy + 1 \in 0..(replication - 1)
    BY <2>1, DhtAssumption
  <2> QED BY <2>1, <2>2 DEF Entry, Copies
<1>9. q \in Seq(Entry) /\ DOMAIN q = 1..Cardinality(S)
  BY <1>6, <1>7, <1>8
<1>10. ASSUME NEW n \in 1..Cardinality(S)
       PROVE  \E i \in DOMAIN r.entries :
                 /\ Retries(r.entries[i], status)
                 /\ q[n].key = r.entries[i].key
                 /\ q[n].copy = r.entries[i].copy + 1
                 /\ choose_gateway(r.entries[i].key, r.entries[i].copy + 1) = g
  <2>1. Nth(n) \in S /\ Nth(n) \in DOMAIN r.entries
    BY <1>3, <1>7
  <2>2. q[n].key = r.entries[Nth(n)].key /\ q[n].copy = r.entries[Nth(n)].copy + 1
    OBVIOUS
  <2> QED BY <1>4, <2>1, <2>2
<1> QED BY <1>1, <1>9, <1>10

-----------------------------------------------------------------------------
(* Steps only add to what is put, stored, failed and absent. *)

Grows ==
    /\ \A k \in Keys : Started(k) => Started(k)'
    /\ \A g \in Gateways : stored[g] \subseteq stored'[g]
    /\ \A c \in Clients, k \in Keys : gets[c][k].failed \subseteq gets'[c][k].failed

\* So queues and requests stay right,
LEMMA RightlyKept ==
    ASSUME Grows
    PROVE  /\ \A g \in Gateways : \A entries \in Seq(Keys) :
                 PutRightly(entries, g) => PutRightly(entries, g)'
           /\ \A g \in Gateways, c \in Clients : \A entries \in Seq(Entry) :
                 GetRightly(entries, g, c) => GetRightly(entries, g, c)'
<1>1. ASSUME NEW g \in Gateways, NEW entries \in Seq(Keys), PutRightly(entries, g)
      PROVE  PutRightly(entries, g)'
  <2>1. \A i \in DOMAIN entries : entries[i] \in Keys
    OBVIOUS
  <2> QED BY <1>1, <2>1 DEF PutRightly, Grows
<1>2. ASSUME NEW g \in Gateways, NEW c \in Clients, NEW entries \in Seq(Entry), GetRightly(entries, g, c)
      PROVE  GetRightly(entries, g, c)'
  <2>2. \A e \in Entry : e.key \in Keys
    BY DEF Entry
  <2>1. \A i \in DOMAIN entries : entries[i].key \in Keys
    BY <2>2
  <2> QED BY <1>2, <2>1 DEF GetRightly, Grows
<1> QED BY <1>1, <1>2

\* and what is held stays held.
LEMMA HeldKept ==
    ASSUME Grows
    PROVE  \A k \in Keys : HeldBySome(k) => HeldBySome(k)'
BY DhtAssumption DEF Grows, HeldBySome, Copies

\* Requests of the one kind are not of the other.
LEMMA RequestKinds ==
    ASSUME ClientTypes, NEW r \in flight
    PROVE  /\ r.kind = "WRITE" => r \in WriteRequest
           /\ r.kind = "READ" => r \in ReadRequest
BY DEF ClientTypes, WriteRequest, ReadRequest

\* Requests that stay in flight, or become late, stay right.
LEMMA RequestsKept ==
    ASSUME ClientTypes, ServerTypes, RequestsRight, Grows,
           flight' \subseteq flight, late' \subseteq late \cup (flight \cap WriteRequest)
    PROVE  RequestsRight'
<1>1. \A r \in WriteRequest : r.entries \in Seq(Keys) /\ r.gateway \in Gateways
  BY DEF WriteRequest
<1>2. \A r \in ReadRequest : r.entries \in Seq(Entry) /\ r.gateway \in Gateways /\ r.client \in Clients
  BY DEF ReadRequest
<1>3. \A r \in flight' \cap WriteRequest : PutRightly(r.entries, r.gateway)'
  BY <1>1, RightlyKept DEF RequestsRight
<1>4. \A r \in flight' \cap ReadRequest : GetRightly(r.entries, r.gateway, r.client)'
  BY <1>2, RightlyKept DEF RequestsRight
<1>5. \A r \in late' : PutRightly(r.entries, r.gateway)'
  BY <1>1, RightlyKept DEF RequestsRight, ServerTypes
<1> QED BY <1>3, <1>4, <1>5 DEF RequestsRight

\* A gateway stores the entries of a request, all of them if there is room.
LEMMA WritePageProps ==
    ASSUME ServerTypes, NEW r \in WriteRequest, WritePage(r)
    PROVE  /\ stored' \in [Gateways -> SUBSET Keys]
           /\ space_left' \in [Gateways -> Nat]
           /\ \A g \in Gateways : stored[g] \subseteq stored'[g]
           /\ \A g \in Gateways : \A k \in stored'[g] \ stored[g] :
                 g = r.gateway /\ \E i \in DOMAIN r.entries : r.entries[i] = k
           /\ Len(r.entries) <= space_left[r.gateway] =>
                 \A i \in DOMAIN r.entries : r.entries[i] \in stored'[r.gateway]
<1> DEFINE g0 == r.gateway
           fit == Len(r.entries) <= space_left[g0]
           n == IF fit THEN Len(r.entries) ELSE space_left[g0]
           written == {r.entries[i] : i \in 1..n}
<1>1. /\ g0 \in Gateways /\ r.entries \in Seq(Keys) /\ DOMAIN r.entries = 1..Len(r.entries)
      /\ Len(r.entries) \in Nat
  BY DEF WriteRequest
<1>2. space_left[g0] \in Nat /\ stored[g0] \in SUBSET Keys
  BY <1>1 DEF ServerTypes
<1>3. n \in 0..Len(r.entries) /\ n <= space_left[g0] /\ (fit => n = Len(r.entries))
  BY <1>1, <1>2
<1>4. /\ stored' = [stored EXCEPT ![g0] = @ \cup written]
      /\ space_left' = [space_left EXCEPT ![g0] = @ - n]
  BY DEF WritePage
<1> HIDE DEF n, g0
<1>5. 1..n \subseteq 1..Len(r.entries) /\ space_left[g0] - n \in Nat
  BY <1>1, <1>2, <1>3
<1>6. written \subseteq Keys
  BY <1>1, <1>5
<1>7. \A k \in written : \E i \in DOMAIN r.entries : r.entries[i] = k
  BY <1>1, <1>5
<1>8. n = Len(r.entries) => \A i \in DOMAIN r.entries : r.entries[i] \in written
  BY <1>1
<1> HIDE DEF written
<1>9. /\ stored' \in [Gateways -> SUBSET Keys]
      /\ stored'[g0] = stored[g0] \cup written
      /\ \A g \in Gateways : g # g0 => stored'[g] = stored[g]
  BY <1>1, <1>2, <1>4, <1>6 DEF ServerTypes
<1>10. space_left' \in [Gateways -> Nat]
  BY <1>1, <1>4, <1>5 DEF ServerTypes
<1>11. fit => \A i \in DOMAIN r.entries : r.entries[i] \in stored'[g0]
  BY <1>3, <1>8, <1>9
<1>12. \A g \in Gateways : stored[g] \subseteq stored'[g]
  BY <1>9
<1>13. \A g \in Gateways : \A k \in stored'[g] \ stored[g] :
          g = g0 /\ \E i \in DOMAIN r.entries : r.entries[i] = k
  BY <1>7, <1>9
<1> QED BY <1>9, <1>10, <1>11, <1>12, <1>13 DEF g0

\* Counting the copies of a put keeps its types; it ends with success only if
\* a copy counts as stored.
LEMMA CountedProps ==
    ASSUME NEW put \in PutStates, NEW n \in Nat, NEW status
    PROVE  /\ Counted(put, n, status) \in PutStates
           /\ Counted(put, n, status).answered = put.answered + n
           /\ Counted(put, n, status).ok = put.ok + (IF CountsAsStored(status) THEN n ELSE 0)
           /\ \/ Counted(put, n, status).result = put.result
              \/ Counted(put, n, status).result = "eobj"
              \/ Counted(put, n, status).result = "ok" /\ Counted(put, n, status).ok > 0
<1> DEFINE a == put.answered + n
           o == put.ok + (IF CountsAsStored(status) THEN n ELSE 0)
           s == IF a # replication THEN put.result ELSE IF o > 0 THEN "ok" ELSE "eobj"
           c == Counted(put, n, status)
<1>1. /\ put.answered \in Nat /\ put.ok \in Nat
      /\ put.result \in {"none", "pending", "ok", "eobj"}
  BY DEF PutStates
<1>2. a \in Nat /\ o \in Nat
  BY <1>1
<1>3. s \in {"none", "pending", "ok", "eobj"} /\ (s = put.result \/ s = "eobj" \/ (s = "ok" /\ o > 0))
  BY <1>1
<1>4. c = [put EXCEPT !.answered = a, !.ok = o, !.result = s]
  BY DEF Counted
<1> HIDE DEF a, o, s, c
<1>5. /\ c = [x \in {"answered", "ok", "result"} |-> c[x]]
      /\ c.answered = a /\ c.ok = o /\ c.result = s
  BY <1>4 DEF PutStates
<1>6. c = [answered |-> a, ok |-> o, result |-> s]
  BY <1>5
<1>7. c \in PutStates
  BY <1>2, <1>3, <1>6 DEF PutStates
<1> QED BY <1>3, <1>5, <1>7 DEF a, o, s, c

-----------------------------------------------------------------------------
(* The steps, one by one. *)

\* The keys put pushes on a queue are its own, and hash to the gateway.
LEMMA CopiesAtProps ==
    ASSUME NEW k \in Keys, NEW g \in Gateways
    PROVE  /\ Cardinality({i \in Copies : choose_gateway(k, i) = g}) \in Nat
           /\ IsFiniteSet({i \in Copies : choose_gateway(k, i) = g})
           /\ {i \in Copies : choose_gateway(k, i) = g} \in SUBSET Int
           /\ CopiesAt(k, g) \in Seq(Keys)
           /\ Len(CopiesAt(k, g)) = Cardinality({i \in Copies : choose_gateway(k, i) = g})
           /\ \A j \in 1..Len(CopiesAt(k, g)) :
                 CopiesAt(k, g)[j] = k /\ \E n \in Copies : choose_gateway(k, n) = g
<1> DEFINE S == {i \in Copies : choose_gateway(k, i) = g}
           m == Cardinality(S)
<1>1. IsFiniteSet(Copies) /\ Copies \in SUBSET Int
  BY FS_Interval, DhtAssumption DEF Copies
<1>2. S \in SUBSET Copies /\ S \in SUBSET Int
  BY <1>1
<1>3. IsFiniteSet(S) /\ m \in Nat
  <2> HIDE DEF S
  <2> QED BY <1>1, <1>2, FS_Subset, FS_CardinalityType
<1>4. CopiesAt(k, g) = [i \in 1..m |-> k]
  BY DEF CopiesAt
<1>5. m # 0 => \E n \in Copies : choose_gateway(k, n) = g
  <2>1. S = {} => m = 0
    BY FS_EmptySet
  <2>2. S # {} => \E n \in Copies : choose_gateway(k, n) = g
    OBVIOUS
  <2> HIDE DEF S, m
  <2> QED BY <2>1, <2>2
<1> HIDE DEF m
<1>6. /\ CopiesAt(k, g) \in Seq(Keys) /\ Len(CopiesAt(k, g)) = m
      /\ \A j \in 1..m : CopiesAt(k, g)[j] = k /\ m # 0
  BY <1>3, <1>4
<1> QED BY <1>2, <1>3, <1>5, <1>6 DEF m

\* Queues stay right if what is new in them is.
LEMMA QueuesKept ==
    ASSUME ClientTypes, ClientTypes', Grows, QueuesRight,
           \A c \in Clients, g \in Gateways : \A i \in DOMAIN pending_puts'[c][g] :
              \/ \E j \in DOMAIN pending_puts[c][g] : pending_puts[c][g][j] = pending_puts'[c][g][i]
              \/ /\ puts'[pending_puts'[c][g][i]].result # "none"
                 /\ \E n \in Copies : choose_gateway(pending_puts'[c][g][i], n) = g,
           \A c \in Clients, g \in Gateways : \A i \in DOMAIN pending_gets'[c][g] :
              \/ \E j \in DOMAIN pending_gets[c][g] : pending_gets[c][g][j] = pending_gets'[c][g][i]
              \/ /\ choose_gateway(pending_gets'[c][g][i].key, pending_gets'[c][g][i].copy) = g
                 /\ 0..(pending_gets'[c][g][i].copy - 1) \subseteq gets'[c][pending_gets'[c][g][i].key].failed
    PROVE  QueuesRight'
<1>1. ASSUME NEW c \in Clients, NEW g \in Gateways, NEW i \in DOMAIN pending_puts'[c][g]
      PROVE  /\ puts'[pending_puts'[c][g][i]].result # "none"
             /\ \E n \in Copies : choose_gateway(pending_puts'[c][g][i], n) = g
  <2>1. CASE \E j \in DOMAIN pending_puts[c][g] : pending_puts[c][g][j] = pending_puts'[c][g][i]
    <3>1. PICK j \in DOMAIN pending_puts[c][g] : pending_puts[c][g][j] = pending_puts'[c][g][i]
      BY <2>1
    <3>2. pending_puts[c][g] \in Seq(Keys) /\ PutRightly(pending_puts[c][g], g)
      BY DEF ClientTypes, QueuesRight
    <3>3. pending_puts[c][g][j] \in Keys
      BY <3>1, <3>2
    <3> QED BY <3>1, <3>2, <3>3 DEF PutRightly, Grows, Started
  <2>2. CASE /\ puts'[pending_puts'[c][g][i]].result # "none"
             /\ \E n \in Copies : choose_gateway(pending_puts'[c][g][i], n) = g
    BY <2>2
  <2> QED BY <2>1, <2>2
<1>2. ASSUME NEW c \in Clients, NEW g \in Gateways, NEW i \in DOMAIN pending_gets'[c][g]
      PROVE  /\ choose_gateway(pending_gets'[c][g][i].key, pending_gets'[c][g][i].copy) = g
             /\ 0..(pending_gets'[c][g][i].copy - 1) \subseteq gets'[c][pending_gets'[c][g][i].key].failed
  <2>1. CASE \E j \in DOMAIN pending_gets[c][g] : pending_gets[c][g][j] = pending_gets'[c][g][i]
    <3>1. PICK j \in DOMAIN pending_gets[c][g] : pending_gets[c][g][j] = pending_gets'[c][g][i]
      BY <2>1
    <3>2. pending_gets[c][g] \in Seq(Entry) /\ GetRightly(pending_gets[c][g], g, c)
      BY DEF ClientTypes, QueuesRight
    <3>3. pending_gets[c][g][j] \in Entry
      BY <3>1, <3>2
    <3>4. pending_gets[c][g][j].key \in Keys
      BY <3>3 DEF Entry
    <3> QED BY <3>1, <3>2, <3>4 DEF GetRightly, Grows
  <2>2. CASE /\ choose_gateway(pending_gets'[c][g][i].key, pending_gets'[c][g][i].copy) = g
             /\ 0..(pending_gets'[c][g][i].copy - 1) \subseteq gets'[c][pending_gets'[c][g][i].key].failed
    BY <2>2
  <2> QED BY <2>1, <2>2
<1> QED BY <1>1, <1>2 DEF QueuesRight, PutRightly, GetRightly, Started

\* A put starts: the cache takes the key, and every queue its copies.
LEMMA PutStep ==
    ASSUME DhtInv, NEW c \in Clients, NEW k \in Keys, Put(c, k)
    PROVE  DhtInv'
<1>1. /\ phase' = phase /\ pending_gets' = pending_gets /\ flight' = flight /\ gets' = gets
      /\ late' = late /\ stored' = stored /\ space_left' = space_left /\ faults' = faults
      /\ puts[k] = NotPut
      /\ cache' = [cache EXCEPT ![c] = @ \cup {k}]
      /\ puts' = [puts EXCEPT ![k].result = "pending"]
      /\ pending_puts' = [pending_puts EXCEPT ![c] = [g \in Gateways |-> @[g] \o CopiesAt(k, g)]]
  BY DEF Put, server
<1>2. ClientTypes /\ ServerTypes
  BY DEF DhtInv
<1>3. /\ puts' \in [Keys -> PutStates]
      /\ \A l \in Keys : l # k => puts'[l] = puts[l]
      /\ puts'[k].result = "pending" /\ puts'[k].ok = puts[k].ok
      /\ puts'[k].answered = puts[k].answered
  <2>1. puts[k] \in PutStates /\ puts' = [l \in Keys |-> IF l = k THEN [puts[k] EXCEPT !.result = "pending"] ELSE puts[l]]
    BY <1>1, <1>2 DEF ClientTypes
  <2>2. /\ [puts[k] EXCEPT !.result = "pending"] \in PutStates
        /\ [puts[k] EXCEPT !.result = "pending"].result = "pending"
        /\ [puts[k] EXCEPT !.result = "pending"].ok = puts[k].ok
        /\ [puts[k] EXCEPT !.result = "pending"].answered = puts[k].answered
    BY <2>1 DEF PutStates
  <2> QED BY <1>2, <2>1, <2>2 DEF ClientTypes
<1>4. /\ cache' \in [Clients -> SUBSET Keys]
      /\ \A d \in Clients, l \in Keys : l \in cache'[d] => l = k \/ l \in cache[d]
  BY <1>1, <1>2 DEF ClientTypes
<1>5. /\ pending_puts' \in [Clients -> [Gateways -> Seq(Keys)]]
      /\ \A g \in Gateways : pending_puts'[c][g] = pending_puts[c][g] \o CopiesAt(k, g)
      /\ \A d \in Clients : d # c => pending_puts'[d] = pending_puts[d]
  <2>1. \A g \in Gateways : pending_puts[c][g] \o CopiesAt(k, g) \in Seq(Keys)
    <3>1. ASSUME NEW g \in Gateways PROVE pending_puts[c][g] \o CopiesAt(k, g) \in Seq(Keys)
      <4>1. pending_puts[c][g] \in Seq(Keys) /\ CopiesAt(k, g) \in Seq(Keys)
        BY <1>2, CopiesAtProps DEF ClientTypes
      <4> QED BY <4>1, ConcatProperties
    <3> QED BY <3>1
  <2>2. pending_puts' = [d \in Clients |-> IF d = c THEN [g \in Gateways |-> pending_puts[c][g] \o CopiesAt(k, g)]
                                                   ELSE pending_puts[d]]
    BY <1>1, <1>2 DEF ClientTypes
  <2> QED BY <1>2, <2>1, <2>2 DEF ClientTypes
<1>6. ClientTypes'
  BY <1>1, <1>2, <1>3, <1>4, <1>5 DEF ClientTypes
<1>7. ServerTypes'
  BY <1>1, <1>2 DEF ServerTypes
<1>8. Grows
  BY <1>1, <1>2, <1>3 DEF Grows, Started, ServerTypes
<1>9. QueuesRight'
  <2>1. ASSUME NEW d \in Clients, NEW g \in Gateways, NEW i \in DOMAIN pending_puts'[d][g]
        PROVE  \/ \E j \in DOMAIN pending_puts[d][g] : pending_puts[d][g][j] = pending_puts'[d][g][i]
               \/ /\ puts'[pending_puts'[d][g][i]].result # "none"
                  /\ \E n \in Copies : choose_gateway(pending_puts'[d][g][i], n) = g
    <3>1. CASE d # c
      BY <1>5, <3>1
    <3>2. CASE d = c
      <4> DEFINE s == pending_puts[c][g]
                 t == CopiesAt(k, g)
      <4>1. /\ s \in Seq(Keys) /\ t \in Seq(Keys) /\ pending_puts'[d][g] = s \o t
            /\ \A j \in 1..Len(t) : t[j] = k /\ \E n \in Copies : choose_gateway(k, n) = g
        BY <1>2, <1>5, <3>2, CopiesAtProps DEF ClientTypes
      <4> HIDE DEF s, t
      <4>2. /\ Len(s) \in Nat /\ Len(t) \in Nat /\ i \in 1..(Len(s) + Len(t)) /\ DOMAIN s = 1..Len(s)
            /\ (s \o t)[i] = IF i <= Len(s) THEN s[i] ELSE t[i - Len(s)]
        BY <2>1, <4>1, ConcatProperties
      <4>3. CASE i <= Len(s)
        <5>1. i \in DOMAIN s /\ (s \o t)[i] = s[i]
          BY <4>2, <4>3
        <5> QED BY <3>2, <4>1, <5>1 DEF s
      <4>4. CASE i > Len(s)
        <5>1. i - Len(s) \in 1..Len(t) /\ (s \o t)[i] = t[i - Len(s)]
          BY <4>2, <4>4
        <5>2. pending_puts'[d][g][i] = k /\ \E n \in Copies : choose_gateway(k, n) = g
          BY <4>1, <5>1
        <5> QED BY <1>3, <5>2
      <4> QED BY <4>2, <4>3, <4>4
    <3> QED BY <3>1, <3>2
  <2>2. QueuesRight
    BY DEF DhtInv
  <2> QED BY <1>1, <1>2, <1>6, <1>8, <2>1, <2>2, QueuesKept
<1>10. RequestsRight'
  BY <1>1, <1>2, <1>8, RequestsKept DEF DhtInv
<1>11. PutsRight'
  BY <1>1, <1>3, <1>4 DEF DhtInv, PutsRight, Started, HeldBySome
<1>12. ResultsRight'
  BY <1>1, <1>8 DEF DhtInv, ResultsRight, Grows
<1> QED BY <1>6, <1>7, <1>9, <1>10, <1>11, <1>12 DEF DhtInv

\* A new get, or the result of one, is all that changes in gets.
LEMMA GetsChanged ==
    ASSUME ClientTypes, NEW c \in Clients, NEW k \in Keys, NEW g \in GetStates,
           gets' = [gets EXCEPT ![c][k] = g]
    PROVE  /\ gets' \in [Clients -> [Keys -> GetStates]]
           /\ gets'[c][k] = g
           /\ \A d \in Clients, l \in Keys : (d # c \/ l # k) => gets'[d][l] = gets[d][l]
<1>1. gets \in [Clients -> [Keys -> GetStates]]
  BY DEF ClientTypes
<1>2. gets' = [d \in Clients |-> IF d = c THEN [l \in Keys |-> IF l = k THEN g ELSE gets[c][l]] ELSE gets[d]]
  BY <1>1
<1> QED BY <1>1, <1>2

\* The cache answers a get with the key's value.
LEMMA GetCachedStep ==
    ASSUME DhtInv, NEW c \in Clients, NEW k \in Keys, GetCached(c, k)
    PROVE  DhtInv'
<1>1. /\ phase' = phase /\ cache' = cache /\ pending_puts' = pending_puts
      /\ pending_gets' = pending_gets /\ flight' = flight /\ puts' = puts
      /\ late' = late /\ stored' = stored /\ space_left' = space_left /\ faults' = faults
      /\ k \in cache[c]
      /\ gets' = [gets EXCEPT ![c][k].result = k]
  BY DEF GetCached, server
<1>2. ClientTypes /\ ServerTypes
  BY DEF DhtInv
<1> DEFINE s == [gets[c][k] EXCEPT !.result = k]
<1>3. gets[c][k] \in GetStates
  BY <1>2 DEF ClientTypes
<1>4. /\ s \in GetStates /\ s.result = k
      /\ s.failed = gets[c][k].failed /\ s.absent = gets[c][k].absent
  BY <1>3 DEF GetStates
<1>5. gets' = [gets EXCEPT ![c][k] = s]
  BY <1>1
<1> HIDE DEF s
<1>6. /\ gets' \in [Clients -> [Keys -> GetStates]]
      /\ gets'[c][k] = s
      /\ \A d \in Clients, l \in Keys : (d # c \/ l # k) => gets'[d][l] = gets[d][l]
  <2>1. ClientTypes /\ s \in GetStates
    BY <1>2, <1>4
  <2> QED BY <1>5, <2>1, GetsChanged
<1>7. ClientTypes' /\ ServerTypes'
  BY <1>1, <1>2, <1>6 DEF ClientTypes, ServerTypes
<1>11. Grows
  BY <1>1, <1>4, <1>6 DEF Grows, Started
<1>8. QueuesRight' /\ RequestsRight'
  BY <1>1, <1>2, <1>7, <1>11, QueuesKept, RequestsKept DEF DhtInv
<1>9. PutsRight'
  BY <1>1 DEF DhtInv, PutsRight, Started, HeldBySome
<1>10. ResultsRight'
  <2>1. SUFFICES ASSUME NEW d \in Clients, NEW l \in Keys
                 PROVE  /\ gets'[d][l].result \in Keys => gets'[d][l].result = l /\ Started(l)
                        /\ gets'[d][l].result = Empty =>
                              gets'[d][l].absent \/ Copies \subseteq gets'[d][l].failed
    BY <1>1 DEF ResultsRight, Started
  <2>2. CASE d = c /\ l = k
    <3>1. Started(k) /\ k # Empty
      BY <1>1, DhtAssumption DEF DhtInv, PutsRight
    <3> QED BY <1>4, <1>6, <2>2, <3>1
  <2>3. CASE d # c \/ l # k
    BY <1>6, <2>3 DEF DhtInv, ResultsRight
  <2> QED BY <2>2, <2>3
<1> QED BY <1>7, <1>8, <1>9, <1>10 DEF DhtInv

\* A get asks the gateway of the first copy.
LEMMA GetStep ==
    ASSUME DhtInv, NEW c \in Clients, NEW k \in Keys, Get(c, k)
    PROVE  DhtInv'
<1> DEFINE s == [gets[c][k] EXCEPT !.result = "pending"]
           g0 == choose_gateway(k, 0)
           e == [key |-> k, copy |-> 0]
<1>1. /\ phase' = phase /\ cache' = cache /\ pending_puts' = pending_puts
      /\ flight' = flight /\ puts' = puts
      /\ late' = late /\ stored' = stored /\ space_left' = space_left /\ faults' = faults
      /\ gets' = [gets EXCEPT ![c][k] = s]
      /\ pending_gets' = [pending_gets EXCEPT ![c] = Asked(@, k, 0)]
  BY DEF Get, server
<1>2. ClientTypes /\ ServerTypes
  BY DEF DhtInv
<1>3. gets[c][k] \in GetStates
  BY <1>2 DEF ClientTypes
<1>4. /\ s \in GetStates /\ s.result = "pending"
      /\ s.failed = gets[c][k].failed /\ s.absent = gets[c][k].absent
  BY <1>3 DEF GetStates
<1> HIDE DEF s
<1>5. /\ gets' \in [Clients -> [Keys -> GetStates]]
      /\ gets'[c][k] = s
      /\ \A d \in Clients, l \in Keys : (d # c \/ l # k) => gets'[d][l] = gets[d][l]
  BY <1>1, <1>2, <1>4, GetsChanged
<1>6. g0 \in Gateways /\ e \in Entry /\ 0 \in Copies
  BY DhtAssumption DEF Entry, Copies
<1>7. /\ pending_gets' \in [Clients -> [Gateways -> Seq(Entry)]]
      /\ pending_gets'[c][g0] = Append(pending_gets[c][g0], e)
      /\ \A d \in Clients, g \in Gateways : (d # c \/ g # g0) => pending_gets'[d][g] = pending_gets[d][g]
  <2>1. pending_gets \in [Clients -> [Gateways -> Seq(Entry)]]
    BY <1>2 DEF ClientTypes
  <2>2. Append(pending_gets[c][g0], e) \in Seq(Entry)
    BY <1>6, <2>1
  <2>3. pending_gets' = [d \in Clients |-> IF d = c
            THEN [g \in Gateways |-> IF g = g0 THEN Append(pending_gets[c][g0], e) ELSE pending_gets[c][g]]
            ELSE pending_gets[d]]
    BY <1>1, <1>6, <2>1 DEF Asked
  <2> HIDE DEF g0, e
  <2> QED BY <1>6, <2>1, <2>2, <2>3
<1>8. ClientTypes' /\ ServerTypes'
  BY <1>1, <1>2, <1>5, <1>7 DEF ClientTypes, ServerTypes
<1>9. Grows
  BY <1>1, <1>4, <1>5 DEF Grows, Started
<1>10. QueuesRight'
  <2>1. ASSUME NEW d \in Clients, NEW g \in Gateways, NEW i \in DOMAIN pending_gets'[d][g]
        PROVE  \/ \E j \in DOMAIN pending_gets[d][g] : pending_gets[d][g][j] = pending_gets'[d][g][i]
               \/ /\ choose_gateway(pending_gets'[d][g][i].key, pending_gets'[d][g][i].copy) = g
                  /\ 0..(pending_gets'[d][g][i].copy - 1) \subseteq gets'[d][pending_gets'[d][g][i].key].failed
    <3>1. CASE d # c \/ g # g0
      BY <1>7, <3>1
    <3>2. CASE d = c /\ g = g0
      <4> DEFINE q == pending_gets[c][g0]
      <4>1. q \in Seq(Entry) /\ pending_gets'[d][g] = Append(q, e)
        BY <1>2, <1>6, <1>7, <3>2 DEF ClientTypes
      <4> HIDE DEF q
      <4>2. /\ DOMAIN q = 1..Len(q) /\ Len(q) \in Nat /\ i \in 1..(Len(q) + 1)
            /\ i # Len(q) + 1 => Append(q, e)[i] = q[i]
            /\ Append(q, e)[Len(q) + 1] = e
        BY <2>1, <4>1
      <4>3. CASE i # Len(q) + 1
        <5>1. i \in DOMAIN q /\ pending_gets'[d][g][i] = q[i]
          BY <4>1, <4>2, <4>3
        <5> QED BY <3>2, <5>1 DEF q
      <4>4. CASE i = Len(q) + 1
        <5>1. pending_gets'[d][g][i] = e
          BY <4>1, <4>2, <4>4
        <5>2. e.key = k /\ e.copy = 0 /\ 0..(0 - 1) = {}
          OBVIOUS
        <5> QED BY <3>2, <5>1, <5>2
      <4> QED BY <4>3, <4>4
    <3> QED BY <3>1, <3>2
  <2>2. QueuesRight
    BY DEF DhtInv
  <2> QED BY <1>1, <1>2, <1>8, <1>9, <2>1, <2>2, QueuesKept
<1>11. RequestsRight'
  BY <1>1, <1>2, <1>9, RequestsKept DEF DhtInv
<1>12. PutsRight'
  BY <1>1 DEF DhtInv, PutsRight, Started, HeldBySome
<1>13. ResultsRight'
  <2>1. SUFFICES ASSUME NEW d \in Clients, NEW l \in Keys
                 PROVE  /\ gets'[d][l].result \in Keys => gets'[d][l].result = l /\ Started(l)
                        /\ gets'[d][l].result = Empty =>
                              gets'[d][l].absent \/ Copies \subseteq gets'[d][l].failed
    BY <1>1 DEF ResultsRight, Started
  <2>2. CASE d = c /\ l = k
    <3>1. "pending" \notin Keys /\ "pending" # Empty
      BY DhtAssumption
    <3> QED BY <1>4, <1>5, <2>2, <3>1
  <2>3. CASE d # c \/ l # k
    BY <1>5, <2>3 DEF DhtInv, ResultsRight
  <2> QED BY <2>2, <2>3
<1> QED BY <1>8, <1>10, <1>11, <1>12, <1>13 DEF DhtInv

\* A round sends what is queued, and empties the queues.
LEMMA RoundStep ==
    ASSUME DhtInv, NEW c \in Clients, Round(c)
    PROVE  DhtInv'
<1>1. /\ cache' = cache /\ puts' = puts /\ gets' = gets
      /\ late' = late /\ stored' = stored /\ space_left' = space_left /\ faults' = faults
      /\ flight' = flight \cup Requests(c)
      /\ pending_puts' = [pending_puts EXCEPT ![c] = Nothing]
      /\ pending_gets' = [pending_gets EXCEPT ![c] = Nothing]
      /\ phase' = [phase EXCEPT ![c] = "run"]
  BY DEF Round, server
<1>2. ClientTypes /\ ServerTypes
  BY DEF DhtInv
<1>3. \A r \in Requests(c) :
         \/ /\ r \in WriteRequest /\ r \notin ReadRequest
            /\ PutRightly(r.entries, r.gateway)
         \/ /\ r \in ReadRequest /\ r \notin WriteRequest
            /\ GetRightly(r.entries, r.gateway, r.client)
  <2>1. SUFFICES ASSUME NEW g \in Gateways
                 PROVE  /\ LET r == Request(c, g, "READ", pending_gets[c][g])
                           IN  /\ r \in ReadRequest /\ r \notin WriteRequest
                               /\ GetRightly(r.entries, r.gateway, r.client)
                        /\ LET r == Request(c, g, "WRITE", pending_puts[c][g])
                           IN  r \in WriteRequest /\ r \notin ReadRequest /\ PutRightly(r.entries, r.gateway)
    BY DEF Requests
  <2>2. /\ pending_puts[c][g] \in Seq(Keys) /\ pending_gets[c][g] \in Seq(Entry)
        /\ PutRightly(pending_puts[c][g], g) /\ GetRightly(pending_gets[c][g], g, c)
    BY <1>2 DEF DhtInv, ClientTypes, QueuesRight
  <2> QED BY <2>2 DEF Request, ReadRequest, WriteRequest
<1>4. Nothing \in [Gateways -> Seq(Keys)] /\ Nothing \in [Gateways -> Seq(Entry)]
      /\ \A g \in Gateways : Nothing[g] = << >>
  BY DEF Nothing
<1>5. /\ pending_puts' \in [Clients -> [Gateways -> Seq(Keys)]]
      /\ pending_gets' \in [Clients -> [Gateways -> Seq(Entry)]]
      /\ \A d \in Clients : d # c => pending_puts'[d] = pending_puts[d] /\ pending_gets'[d] = pending_gets[d]
      /\ pending_puts'[c] = Nothing /\ pending_gets'[c] = Nothing
      /\ phase' \in [Clients -> {"idle", "run", "called"}]
  BY <1>1, <1>2, <1>4 DEF ClientTypes
<1>6. flight' \subseteq WriteRequest \cup ReadRequest
  BY <1>1, <1>2, <1>3 DEF ClientTypes
<1>7. ClientTypes' /\ ServerTypes'
  BY <1>1, <1>2, <1>5, <1>6 DEF ClientTypes, ServerTypes
<1>8. QueuesRight'
  <2>1. \A d \in Clients, g \in Gateways :
           /\ pending_puts'[d][g] = pending_puts[d][g] \/ pending_puts'[d][g] = << >>
           /\ pending_gets'[d][g] = pending_gets[d][g] \/ pending_gets'[d][g] = << >>
    BY <1>4, <1>5
  <2>2. DOMAIN << >> = {}
    OBVIOUS
  <2> QED BY <1>1, <2>1, <2>2 DEF DhtInv, QueuesRight, PutRightly, GetRightly, Started
<1>9. RequestsRight'
  <2>1. \A r \in flight' \cap WriteRequest : PutRightly(r.entries, r.gateway)
    BY <1>1, <1>3 DEF DhtInv, RequestsRight
  <2>2. \A r \in flight' \cap ReadRequest : GetRightly(r.entries, r.gateway, r.client)
    BY <1>1, <1>3 DEF DhtInv, RequestsRight
  <2> QED BY <1>1, <2>1, <2>2 DEF DhtInv, RequestsRight, PutRightly, GetRightly, Started
<1>10. PutsRight' /\ ResultsRight'
  BY <1>1 DEF DhtInv, PutsRight, ResultsRight, Started, HeldBySome
<1> QED BY <1>7, <1>8, <1>9, <1>10 DEF DhtInv

\* The end of wait() changes nothing else.
LEMMA WaitReturnsStep ==
    ASSUME DhtInv, (\E c \in Clients : WaitReturns(c)) \/ UNCHANGED vars
    PROVE  DhtInv'
<1>1. /\ cache' = cache /\ puts' = puts /\ gets' = gets
      /\ late' = late /\ stored' = stored /\ space_left' = space_left /\ faults' = faults
      /\ flight' = flight /\ pending_puts' = pending_puts /\ pending_gets' = pending_gets
      /\ phase' = phase \/ \E c \in Clients : phase' = [phase EXCEPT ![c] = "idle"]
  BY DEF WaitReturns, server, vars, client
<1>2. ClientTypes' /\ ServerTypes'
  BY <1>1 DEF DhtInv, ClientTypes, ServerTypes
<1>3. QueuesRight' /\ RequestsRight' /\ PutsRight'
  BY <1>1 DEF DhtInv, QueuesRight, RequestsRight, PutsRight, PutRightly, GetRightly, Started, HeldBySome
<1>4. ResultsRight'
  BY <1>1 DEF DhtInv, ResultsRight, Started
<1> QED BY <1>2, <1>3, <1>4 DEF DhtInv

\* The callbacks of a write count its copies as stored only if they are.
LEMMA PutsHandled ==
    ASSUME DhtInv, NEW r \in flight, NEW status, HandlePuts(r, status),
           ServerTypes', late' \subseteq late \cup {r},
           \A g \in Gateways : stored[g] \subseteq stored'[g],
           \A g \in Gateways, k \in Keys : k \in stored'[g] => Started(k),
           CountsAsStored(status) =>
              \A i \in DOMAIN r.entries : r.entries[i] \in stored'[r.gateway]
    PROVE  DhtInv'
<1>1. /\ r.kind = "WRITE"
      /\ flight' = flight \ {r}
      /\ phase' = [phase EXCEPT ![r.client] = "called"]
      /\ puts' = [k \in Keys |->
            IF Places(r.entries, k) # {}
            THEN Counted(puts[k], Cardinality(Places(r.entries, k)), status)
            ELSE puts[k]]
      /\ cache' = cache /\ pending_puts' = pending_puts /\ pending_gets' = pending_gets
      /\ gets' = gets
  BY DEF HandlePuts
<1>2. ClientTypes /\ ServerTypes
  BY DEF DhtInv
<1>3. r \in WriteRequest
  BY <1>1, <1>2, RequestKinds
<1>4. /\ r.entries \in Seq(Keys) /\ r.gateway \in Gateways
      /\ PutRightly(r.entries, r.gateway)
  BY <1>3 DEF DhtInv, RequestsRight, WriteRequest
<1>5. ASSUME NEW k \in Keys
      PROVE  /\ puts'[k] \in PutStates
             /\ Started(k) => puts'[k].result # "none"
             /\ puts'[k].ok <= puts'[k].answered
             /\ puts'[k].result = "none" => puts'[k].answered = 0
             /\ puts'[k].ok > 0 \/ puts'[k].result = "ok" =>
                   \/ HeldBySome(k)
                   \/ \E i \in Copies : k \in stored'[choose_gateway(k, i)]
  <2>1. /\ puts[k] \in PutStates /\ puts[k].ok \in Nat /\ puts[k].answered \in Nat
        /\ puts[k].ok <= puts[k].answered
        /\ ~Started(k) => puts[k].answered = 0
        /\ puts[k].ok > 0 \/ puts[k].result = "ok" => HeldBySome(k)
    BY <1>2 DEF DhtInv, PutsRight, ClientTypes, PutStates
  <2>2. CASE Places(r.entries, k) = {}
    BY <1>1, <2>1, <2>2 DEF Started
  <2>3. CASE Places(r.entries, k) # {}
    <3> DEFINE n == Cardinality(Places(r.entries, k))
               p == Counted(puts[k], n, status)
    <3>1. n \in Nat
      BY <1>4, PlacesFinite DEF Places
    <3>2. puts'[k] = p
      BY <1>1, <2>3
    <3> HIDE DEF n
    <3>3. /\ p \in PutStates
          /\ p.answered = puts[k].answered + n
          /\ p.ok = puts[k].ok + (IF CountsAsStored(status) THEN n ELSE 0)
          /\ \/ p.result = puts[k].result
             \/ p.result = "eobj"
             \/ p.result = "ok" /\ p.ok > 0
      BY <2>1, <3>1, CountedProps
    <3> HIDE DEF p
    <3>4. PICK i \in DOMAIN r.entries : r.entries[i] = k
      BY <2>3 DEF Places
    <3>5. Started(k) /\ \E m \in Copies : choose_gateway(k, m) = r.gateway
      BY <1>4, <3>4 DEF PutRightly
    <3>6. p.result # "none"
      BY <3>3, <3>5 DEF Started
    <3>7. p.ok <= p.answered
      BY <2>1, <3>1, <3>3
    <3>8. CASE CountsAsStored(status)
      <4>1. k \in stored'[r.gateway]
        BY <3>4, <3>8
      <4>2. \E m \in Copies : k \in stored'[choose_gateway(k, m)]
        BY <3>5, <4>1
      <4> QED BY <3>2, <3>3, <3>6, <3>7, <4>2
    <3>9. CASE ~CountsAsStored(status)
      <4>1. p.ok = puts[k].ok
        BY <2>1, <3>3, <3>9
      <4>2. p.ok > 0 \/ p.result = "ok" => HeldBySome(k)
        BY <2>1, <3>3, <4>1
      <4> QED BY <3>2, <3>3, <3>6, <3>7, <4>2
    <3> QED BY <3>8, <3>9
  <2> QED BY <2>2, <2>3
<1>6. Grows
  BY <1>1, <1>5 DEF Grows, Started
<1>7. ClientTypes'
  <2>1. puts' \in [Keys -> PutStates]
    <3>1. puts' = [k \in Keys |-> puts'[k]]
      BY <1>1
    <3> QED BY <1>5, <3>1
  <2>2. phase' \in [Clients -> {"idle", "run", "called"}]
    BY <1>1, <1>2 DEF ClientTypes
  <2> QED BY <1>1, <1>2, <2>1, <2>2 DEF ClientTypes
<1>8. QueuesRight'
  BY <1>1, <1>2, <1>6, <1>7, QueuesKept DEF DhtInv
<1>9. RequestsRight'
  BY <1>1, <1>2, <1>3, <1>6, RequestsKept DEF DhtInv
<1>10. PutsRight'
  <2>1. \A k \in Keys : HeldBySome(k) => HeldBySome(k)'
    BY <1>6, HeldKept
  <2>2. \A k \in Keys :
          /\ puts'[k].ok <= puts'[k].answered
          /\ puts'[k].result = "none" => puts'[k].answered = 0
          /\ puts'[k].ok > 0 \/ puts'[k].result = "ok" => HeldBySome(k)'
    BY <1>5, <2>1 DEF HeldBySome
  <2>3. \A g \in Gateways, k \in Keys : k \in stored'[g] => puts'[k].result # "none"
    BY <1>5
  <2>4. \A c \in Clients, k \in Keys : k \in cache'[c] => puts'[k].result # "none"
    BY <1>1, <1>5 DEF DhtInv, PutsRight
  <2> QED BY <2>2, <2>3, <2>4 DEF PutsRight, Started
<1>11. ResultsRight'
  BY <1>1, <1>6 DEF DhtInv, ResultsRight, Grows
<1> QED BY <1>7, <1>8, <1>9, <1>10, <1>11 DEF DhtInv

\* A request stores only keys that are being put.
LEMMA WrittenStarted ==
    ASSUME DhtInv, NEW r \in WriteRequest, PutRightly(r.entries, r.gateway), WritePage(r)
    PROVE  \A g \in Gateways, k \in Keys : k \in stored'[g] => Started(k)
<1>1. ServerTypes
  BY DEF DhtInv
<1>2. \A g \in Gateways : \A k \in stored'[g] \ stored[g] : \E i \in DOMAIN r.entries : r.entries[i] = k
  BY <1>1, WritePageProps
<1> QED BY <1>2 DEF DhtInv, PutsRight, PutRightly

\* The gateway answers a write with success only if it stored all of it.
LEMMA WriteAnsweredStep ==
    ASSUME DhtInv, NEW r \in flight, WriteAnswered(r)
    PROVE  DhtInv'
<1> DEFINE status == WriteStatus(space_left[r.gateway], Len(r.entries))
<1>1. WritePage(r) /\ HandlePuts(r, status) /\ late' = late /\ faults' = faults
  BY DEF WriteAnswered
<1>2. ClientTypes /\ ServerTypes
  BY DEF DhtInv
<1>3. r \in WriteRequest
  BY <1>1, <1>2, RequestKinds DEF HandlePuts
<1>4. PutRightly(r.entries, r.gateway)
  BY <1>3 DEF DhtInv, RequestsRight
<1>5. /\ stored' \in [Gateways -> SUBSET Keys]
      /\ space_left' \in [Gateways -> Nat]
      /\ \A g \in Gateways : stored[g] \subseteq stored'[g]
      /\ Len(r.entries) <= space_left[r.gateway] =>
                 \A i \in DOMAIN r.entries : r.entries[i] \in stored'[r.gateway]
  BY <1>1, <1>2, <1>3, WritePageProps
<1>6. \A g \in Gateways, k \in Keys : k \in stored'[g] => Started(k)
  BY <1>1, <1>3, <1>4, WrittenStarted
<1>7. CountsAsStored(status) => Len(r.entries) <= space_left[r.gateway]
  BY DEF CountsAsStored, WriteStatus
<1>8. ServerTypes'
  BY <1>1, <1>2, <1>5 DEF ServerTypes
<1> HIDE DEF status
<1> QED BY <1>1, <1>5, <1>6, <1>7, <1>8, PutsHandled

\* A write that fails counts no copy, whether the gateway executes it or not.
LEMMA WriteFailsStep ==
    ASSUME DhtInv, NEW r \in flight, WriteFails(r)
    PROVE  DhtInv'
<1>1. /\ HandlePuts(r, "failed") /\ faults' = faults + 1
      /\ \/ WritePage(r) /\ late' = late
         \/ late' = late \cup {r} /\ stored' = stored /\ space_left' = space_left
  BY DEF WriteFails
<1>2. ClientTypes /\ ServerTypes
  BY DEF DhtInv
<1>3. r \in WriteRequest
  BY <1>1, <1>2, RequestKinds DEF HandlePuts
<1>4. PutRightly(r.entries, r.gateway)
  BY <1>3 DEF DhtInv, RequestsRight
<1>5. /\ stored' \in [Gateways -> SUBSET Keys]
      /\ space_left' \in [Gateways -> Nat]
      /\ \A g \in Gateways : stored[g] \subseteq stored'[g]
      /\ \A g \in Gateways, k \in Keys : k \in stored'[g] => Started(k)
  <2>1. CASE WritePage(r)
    BY <1>2, <1>3, <1>4, <2>1, WritePageProps, WrittenStarted
  <2>2. CASE stored' = stored /\ space_left' = space_left
    BY <1>2, <2>2 DEF ServerTypes, DhtInv, PutsRight
  <2> QED BY <1>1, <2>1, <2>2
<1>6. late' \subseteq late \cup {r} /\ late' \subseteq WriteRequest
  BY <1>1, <1>2, <1>3 DEF ServerTypes
<1>7. faults' \in Nat
  BY <1>1, <1>2 DEF ServerTypes
<1>8. ServerTypes'
  BY <1>5, <1>6, <1>7 DEF ServerTypes
<1>9. ~CountsAsStored("failed")
  BY DEF CountsAsStored
<1> QED BY <1>1, <1>5, <1>6, <1>8, <1>9, PutsHandled

\* So does one that is executed after it was given up.
LEMMA ServeLateStep ==
    ASSUME DhtInv, NEW r \in late, ServeLate(r)
    PROVE  DhtInv'
<1>1. /\ WritePage(r) /\ late' = late \ {r} /\ faults' = faults
      /\ phase' = phase /\ cache' = cache /\ pending_puts' = pending_puts
      /\ pending_gets' = pending_gets /\ flight' = flight /\ puts' = puts /\ gets' = gets
  BY DEF ServeLate, client
<1>2. ClientTypes /\ ServerTypes /\ r \in WriteRequest /\ PutRightly(r.entries, r.gateway)
  BY DEF DhtInv, ServerTypes, RequestsRight
<1>3. /\ stored' \in [Gateways -> SUBSET Keys]
      /\ space_left' \in [Gateways -> Nat]
      /\ \A g \in Gateways : stored[g] \subseteq stored'[g]
  BY <1>1, <1>2, WritePageProps
<1>4. \A g \in Gateways, k \in Keys : k \in stored'[g] => Started(k)
  BY <1>1, <1>2, WrittenStarted
<1>5. ClientTypes' /\ ServerTypes'
  BY <1>1, <1>2, <1>3 DEF ClientTypes, ServerTypes
<1>6. Grows
  BY <1>1, <1>2, <1>3 DEF Grows, Started, ServerTypes
<1>7. QueuesRight' /\ RequestsRight'
  BY <1>1 DEF DhtInv, QueuesRight, RequestsRight, PutRightly, GetRightly, Started
<1>8. PutsRight'
  <2>1. \A k \in Keys : HeldBySome(k) => HeldBySome(k)'
    BY <1>6, HeldKept
  <2> QED BY <1>1, <1>4, <2>1 DEF DhtInv, PutsRight, Started
<1>9. ResultsRight'
  BY <1>1 DEF DhtInv, ResultsRight, Started
<1> QED BY <1>5, <1>7, <1>8, <1>9 DEF DhtInv

\* The callbacks of a read: each get is answered, or asks for its next copy.
LEMMA GetsHandled ==
    ASSUME DhtInv, NEW r \in flight, r.kind = "READ",
           NEW status \in {"ok", "eobj", "failed"}, NEW result, NEW found,
           HandleGets(r, status, result, found),
           UNCHANGED server, faults' \in Nat,
           \A i \in DOMAIN r.entries : ~Retries(r.entries[i], status) =>
              /\ ValueAt(r, result, i) \in {r.entries[i].key, Empty}
              /\ ValueAt(r, result, i) = r.entries[i].key => Started(r.entries[i].key)
              /\ \/ ValueAt(r, result, i) # Empty
                 \/ r.entries[i].key \notin found
                 \/ status = "failed" /\ r.entries[i].copy + 1 = replication
    PROVE  DhtInv'
<1> DEFINE c == r.client
           done == {i \in DOMAIN r.entries : ~Retries(r.entries[i], status)}
           At(k) == CHOOSE i \in done : r.entries[i].key = k
           New(k) == [result |-> IF \E i \in done : r.entries[i].key = k
                                 THEN ValueAt(r, result, At(k))
                                 ELSE gets[c][k].result,
                      failed |-> IF status = "failed" THEN gets[c][k].failed \cup CopiesTried(r, k)
                                                      ELSE gets[c][k].failed,
                      absent |-> gets[c][k].absent \/ k \in KeysOf(r) \ found]
<1>1. /\ flight' = flight \ {r}
      /\ phase' = [phase EXCEPT ![c] = "called"]
      /\ pending_gets' = [pending_gets EXCEPT ![c] = [g \in Gateways |-> @[g] \o Retried(r, status, g)]]
      /\ cache' = cache /\ pending_puts' = pending_puts /\ puts' = puts
      /\ late' = late /\ stored' = stored /\ space_left' = space_left
  BY DEF HandleGets, server
<1>2. ClientTypes /\ ServerTypes
  BY DEF DhtInv
<1>3. r \in ReadRequest
  BY <1>2, RequestKinds
<1>4. /\ r.entries \in Seq(Entry) /\ r.gateway \in Gateways /\ c \in Clients
      /\ GetRightly(r.entries, r.gateway, c)
  BY <1>3 DEF DhtInv, RequestsRight, ReadRequest
<1>20. gets' = [gets EXCEPT ![c] = [k \in Keys |-> New(k)]]
  <2>1. gets' = [gets EXCEPT ![c] = [k \in Keys |->
                [result |-> IF \E i \in done : r.entries[i].key = k
                            THEN ValueAt(r, result, At(k))
                            ELSE @[k].result,
                 failed |-> IF status = "failed" THEN @[k].failed \cup CopiesTried(r, k) ELSE @[k].failed,
                 absent |-> @[k].absent \/ k \in KeysOf(r) \ found]]]
    BY DEF HandleGets
  <2> QED BY <1>2, <1>4, <2>1 DEF ClientTypes
<1>5. \A i \in DOMAIN r.entries :
         /\ r.entries[i].key \in Keys /\ r.entries[i].copy \in Copies /\ r.entries[i].copy \in Int
         /\ r.entries[i].copy >= 0
  <2>1. \A e \in Entry : e.key \in Keys /\ e.copy \in Copies /\ e.copy \in Int /\ e.copy >= 0
    BY DhtAssumption DEF Entry, Copies
  <2>2. \A i \in DOMAIN r.entries : r.entries[i] \in Entry
    BY <1>4
  <2> QED BY <2>1, <2>2
<1>6. \A k \in Keys : (\E i \in done : r.entries[i].key = k) => At(k) \in done /\ r.entries[At(k)].key = k
  OBVIOUS
<1>7. \A i \in done :
         /\ ValueAt(r, result, i) \in {r.entries[i].key, Empty}
         /\ ValueAt(r, result, i) = r.entries[i].key => Started(r.entries[i].key)
         /\ \/ ValueAt(r, result, i) # Empty
            \/ r.entries[i].key \notin found
            \/ status = "failed" /\ r.entries[i].copy + 1 = replication
  OBVIOUS
<1> DEFINE Res(k) == IF \E i \in done : r.entries[i].key = k
                     THEN ValueAt(r, result, At(k)) ELSE gets[c][k].result
           Fld(k) == IF status = "failed" THEN gets[c][k].failed \cup CopiesTried(r, k)
                                          ELSE gets[c][k].failed
           Abs(k) == gets[c][k].absent \/ k \in KeysOf(r) \ found
<1>21. \A k \in Keys : New(k) = [result |-> Res(k), failed |-> Fld(k), absent |-> Abs(k)]
  OBVIOUS
<1>22. \A k \in Keys : CopiesTried(r, k) \subseteq Copies
  BY <1>5 DEF CopiesTried
<1> HIDE DEF done, At
<1>8. ASSUME NEW k \in Keys
      PROVE  /\ New(k) \in GetStates
             /\ New(k).result = Res(k) /\ New(k).failed = Fld(k) /\ New(k).absent = Abs(k)
             /\ gets[c][k].failed \subseteq Fld(k)
             /\ \/ Res(k) = gets[c][k].result
                \/ /\ Res(k) \in {k, Empty}
                   /\ Res(k) = k => Started(k)
                   /\ Res(k) = Empty => Abs(k) \/ Copies \subseteq Fld(k)
  <2>1. gets[c][k] \in GetStates
    BY <1>2, <1>4 DEF ClientTypes
  <2>2. /\ gets[c][k].result \in Keys \cup {"none", "pending", Empty}
        /\ gets[c][k].failed \in SUBSET Copies /\ gets[c][k].absent \in BOOLEAN
    BY <2>1 DEF GetStates
  <2>3. Fld(k) \in SUBSET Copies /\ gets[c][k].failed \subseteq Fld(k)
    BY <1>22, <2>2
  <2>4. Abs(k) \in BOOLEAN
    BY <2>2
  <2>5. CASE ~\E i \in done : r.entries[i].key = k
    <3>1. Res(k) = gets[c][k].result
      BY <2>5
    <3> HIDE DEF Res, Fld, Abs, New
    <3> QED BY <1>21, <2>2, <2>3, <2>4, <3>1 DEF GetStates
  <2>6. CASE \E i \in done : r.entries[i].key = k
    <3> DEFINE j == At(k)
    <3>1. j \in done /\ r.entries[j].key = k /\ j \in DOMAIN r.entries
      BY <1>6, <2>6 DEF done
    <3>2. Res(k) = ValueAt(r, result, j)
      BY <2>6
    <3> HIDE DEF j
    <3>3. /\ Res(k) \in {k, Empty}
          /\ Res(k) = k => Started(k)
          /\ \/ Res(k) # Empty
             \/ k \notin found
             \/ status = "failed" /\ r.entries[j].copy + 1 = replication
      BY <1>7, <3>1, <3>2
    <3>4. k \notin found => Abs(k)
      BY <3>1 DEF KeysOf
    <3>5. ASSUME status = "failed", r.entries[j].copy + 1 = replication PROVE Copies \subseteq Fld(k)
      <4>1. 0..(r.entries[j].copy - 1) \subseteq gets[c][k].failed
        BY <1>4, <3>1 DEF GetRightly
      <4>2. r.entries[j].copy \in CopiesTried(r, k)
        BY <3>1 DEF CopiesTried
      <4>3. \A n \in Copies : n \in 0..(r.entries[j].copy - 1) \/ n = r.entries[j].copy
        BY <1>5, <3>1, <3>5, DhtAssumption DEF Copies
      <4> QED BY <3>5, <4>1, <4>2, <4>3
    <3> HIDE DEF Res, Fld, Abs, New
    <3>6. Res(k) \in Keys \cup {"none", "pending", Empty}
      BY <3>3
    <3>7. New(k) \in GetStates
      BY <1>21, <2>3, <2>4, <3>6 DEF GetStates
    <3>8. New(k).result = Res(k) /\ New(k).failed = Fld(k) /\ New(k).absent = Abs(k)
      BY <1>21
    <3>9. Res(k) = Empty => Abs(k) \/ Copies \subseteq Fld(k)
      BY <3>3, <3>4, <3>5
    <3> QED BY <2>3, <3>3, <3>7, <3>8, <3>9
  <2> QED BY <2>5, <2>6
<1> HIDE DEF New, Res, Fld, Abs
<1>9. /\ gets' \in [Clients -> [Keys -> GetStates]]
      /\ \A d \in Clients : d # c => gets'[d] = gets[d]
      /\ \A k \in Keys : gets'[c][k] = New(k)
  BY <1>2, <1>4, <1>8, <1>20 DEF ClientTypes
<1>11. /\ pending_gets' \in [Clients -> [Gateways -> Seq(Entry)]]
       /\ \A g \in Gateways : pending_gets'[c][g] = pending_gets[c][g] \o Retried(r, status, g)
       /\ \A d \in Clients : d # c => pending_gets'[d] = pending_gets[d]
  <2>1. ASSUME NEW g \in Gateways PROVE pending_gets[c][g] \o Retried(r, status, g) \in Seq(Entry)
    <3>1. pending_gets[c][g] \in Seq(Entry) /\ Retried(r, status, g) \in Seq(Entry)
      BY <1>2, <1>3, <1>4, RetriedProps DEF ClientTypes
    <3> QED BY <3>1, ConcatProperties
  <2>2. pending_gets' = [d \in Clients |-> IF d = c THEN [g \in Gateways |-> pending_gets[c][g] \o Retried(r, status, g)]
                                                   ELSE pending_gets[d]]
    BY <1>1, <1>2, <1>4 DEF ClientTypes
  <2> QED BY <1>2, <1>4, <2>1, <2>2 DEF ClientTypes
<1>12. Grows
  <2>1. \A d \in Clients, k \in Keys : gets[d][k].failed \subseteq gets'[d][k].failed
    BY <1>8, <1>9
  <2> QED BY <1>1, <2>1 DEF Grows, Started
<1>13. ClientTypes' /\ ServerTypes'
  <2>1. phase' \in [Clients -> {"idle", "run", "called"}]
    BY <1>1, <1>2 DEF ClientTypes
  <2> QED BY <1>1, <1>2, <1>9, <1>11, <2>1 DEF ClientTypes, ServerTypes
<1>14. QueuesRight'
  <2>1. ASSUME NEW d \in Clients, NEW g \in Gateways, NEW i \in DOMAIN pending_gets'[d][g]
        PROVE  \/ \E j \in DOMAIN pending_gets[d][g] : pending_gets[d][g][j] = pending_gets'[d][g][i]
               \/ /\ choose_gateway(pending_gets'[d][g][i].key, pending_gets'[d][g][i].copy) = g
                  /\ 0..(pending_gets'[d][g][i].copy - 1) \subseteq gets'[d][pending_gets'[d][g][i].key].failed
    <3>1. CASE d # c
      BY <1>11, <3>1
    <3>2. CASE d = c
      <4> DEFINE s == pending_gets[c][g]
                 t == Retried(r, status, g)
      <4>1. /\ s \in Seq(Entry) /\ t \in Seq(Entry) /\ pending_gets'[d][g] = s \o t
            /\ \A n \in DOMAIN t : \E j \in DOMAIN r.entries :
                 /\ Retries(r.entries[j], status)
                 /\ t[n].key = r.entries[j].key
                 /\ t[n].copy = r.entries[j].copy + 1
                 /\ choose_gateway(r.entries[j].key, r.entries[j].copy + 1) = g
        BY <1>2, <1>3, <1>4, <1>11, <3>2, RetriedProps DEF ClientTypes
      <4> HIDE DEF s, t
      <4>2. /\ Len(s) \in Nat /\ Len(t) \in Nat /\ i \in 1..(Len(s) + Len(t))
            /\ DOMAIN s = 1..Len(s) /\ DOMAIN t = 1..Len(t)
            /\ (s \o t)[i] = IF i <= Len(s) THEN s[i] ELSE t[i - Len(s)]
        BY <2>1, <4>1, ConcatProperties
      <4>3. CASE i <= Len(s)
        <5>1. i \in DOMAIN s /\ (s \o t)[i] = s[i]
          BY <4>2, <4>3
        <5> QED BY <3>2, <4>1, <5>1 DEF s
      <4>4. CASE i > Len(s)
        <5>1. i - Len(s) \in DOMAIN t /\ (s \o t)[i] = t[i - Len(s)]
          BY <4>2, <4>4
        <5>2. PICK j \in DOMAIN r.entries :
                 /\ Retries(r.entries[j], status)
                 /\ t[i - Len(s)].key = r.entries[j].key
                 /\ t[i - Len(s)].copy = r.entries[j].copy + 1
                 /\ choose_gateway(r.entries[j].key, r.entries[j].copy + 1) = g
          BY <4>1, <5>1
        <5> DEFINE k == r.entries[j].key
                   m == r.entries[j].copy
        <5>3. k \in Keys /\ m \in Int /\ m >= 0 /\ 0..(m - 1) \subseteq gets[c][k].failed /\ m \in CopiesTried(r, k)
          BY <1>4, <1>5 DEF GetRightly, CopiesTried
        <5>4. gets'[c][k].failed = gets[c][k].failed \cup CopiesTried(r, k)
          <6>1. status = "failed"
            BY <5>2 DEF Retries
          <6>2. gets'[c][k].failed = Fld(k)
            BY <1>8, <1>9, <5>3
          <6> QED BY <6>1, <6>2 DEF Fld
        <5>5. \A n \in 0..((m + 1) - 1) : n \in 0..(m - 1) \/ n = m
          BY <5>3
        <5>6. 0..((m + 1) - 1) \subseteq gets'[c][k].failed
          BY <5>3, <5>4, <5>5
        <5> QED BY <3>2, <4>1, <5>1, <5>2, <5>6
      <4> QED BY <4>2, <4>3, <4>4
    <3> QED BY <3>1, <3>2
  <2>2. QueuesRight
    BY DEF DhtInv
  <2> QED BY <1>1, <1>2, <1>12, <1>13, <2>1, <2>2, QueuesKept
<1>15. RequestsRight'
  BY <1>1, <1>2, <1>12, RequestsKept DEF DhtInv
<1>16. PutsRight'
  BY <1>1 DEF DhtInv, PutsRight, Started, HeldBySome
<1>18. ResultsRight'
  <2>1. SUFFICES ASSUME NEW d \in Clients, NEW k \in Keys
                 PROVE  /\ gets'[d][k].result \in Keys => gets'[d][k].result = k /\ Started(k)
                        /\ gets'[d][k].result = Empty =>
                              gets'[d][k].absent \/ Copies \subseteq gets'[d][k].failed
    BY <1>1 DEF ResultsRight, Started
  <2>2. /\ gets[d][k].result \in Keys => gets[d][k].result = k /\ Started(k)
        /\ gets[d][k].result = Empty => gets[d][k].absent \/ Copies \subseteq gets[d][k].failed
    BY DEF DhtInv, ResultsRight
  <2>4. Empty \notin Keys
    BY DhtAssumption
  <2>5. CASE d # c
    BY <1>9, <2>2, <2>5
  <2>6. CASE d = c
    <3>1. /\ gets'[c][k].result = Res(k) /\ gets'[c][k].failed = Fld(k) /\ gets'[c][k].absent = Abs(k)
          /\ gets[c][k].failed \subseteq Fld(k)
      BY <1>8, <1>9
    <3>2. gets[c][k].absent => Abs(k)
      BY DEF Abs
    <3>3. CASE Res(k) = gets[c][k].result
      BY <2>2, <2>6, <3>1, <3>2, <3>3
    <3>4. CASE /\ Res(k) \in {k, Empty}
               /\ Res(k) = k => Started(k)
               /\ Res(k) = Empty => Abs(k) \/ Copies \subseteq Fld(k)
      BY <2>4, <2>6, <3>1, <3>4
    <3> QED BY <1>8, <3>3, <3>4
  <2> QED BY <2>5, <2>6
<1> QED BY <1>13, <1>14, <1>15, <1>16, <1>18 DEF DhtInv

\* A gateway answers every entry of a read with its own value, or with the
\* empty one if it does not find it.
LEMMA ReadAnsweredStep ==
    ASSUME DhtInv, NEW r \in flight, ReadAnswered(r)
    PROVE  DhtInv'
<1>2. ClientTypes /\ ServerTypes
  BY DEF DhtInv
<1>3. r \in ReadRequest /\ r.kind = "READ" /\ UNCHANGED server /\ faults' = faults
  BY <1>2, RequestKinds DEF ReadAnswered
<1>1. PICK found \in SUBSET (stored[r.gateway] \cap KeysOf(r)) :
         LET data == ReadPage(r.entries, found)
             missing == Len(data) < Len(r.entries) \/ \E i \in DOMAIN data : data[i] = Empty
         IN  HandleGets(r, IF missing THEN "eobj" ELSE "ok", data, found)
  BY DEF ReadAnswered
<1> DEFINE data == ReadPage(r.entries, found)
           missing == Len(data) < Len(r.entries) \/ \E i \in DOMAIN data : data[i] = Empty
           status == IF missing THEN "eobj" ELSE "ok"
<1>9. HandleGets(r, status, data, found)
  BY <1>1
<1>4. r.entries \in Seq(Entry) /\ r.gateway \in Gateways
  BY <1>3 DEF ReadRequest
<1>5. status \in {"ok", "eobj", "failed"}
  OBVIOUS
<1>6. /\ Len(data) = Len(r.entries)
      /\ \A i \in DOMAIN r.entries :
            data[i] = IF r.entries[i].key \in found THEN r.entries[i].key ELSE Empty
  BY <1>4 DEF ReadPage
<1> HIDE DEF status, data
<1>7. ASSUME NEW i \in DOMAIN r.entries
      PROVE  /\ ValueAt(r, data, i) \in {r.entries[i].key, Empty}
             /\ ValueAt(r, data, i) = r.entries[i].key => Started(r.entries[i].key)
             /\ ValueAt(r, data, i) # Empty \/ r.entries[i].key \notin found
  <2> DEFINE k == r.entries[i].key
  <2>1. k \in Keys
    <3>1. r.entries[i] \in Entry
      BY <1>4
    <3> QED BY <3>1 DEF Entry
  <2>2. ValueAt(r, data, i) = IF k \in found THEN k ELSE Empty
    BY <1>6 DEF ValueAt
  <2>3. k # Empty
    BY <2>1, DhtAssumption
  <2> HIDE DEF k
  <2>4. k \in found => Started(k)
    BY <1>4, <2>1 DEF DhtInv, PutsRight
  <2> QED BY <2>2, <2>3, <2>4 DEF k
<1>8. faults' \in Nat
  BY <1>2, <1>3 DEF ServerTypes
<1> QED BY <1>3, <1>5, <1>7, <1>8, <1>9, GetsHandled

\* A read that fails answers only the gets whose last copy it tried.
LEMMA ReadFailsStep ==
    ASSUME DhtInv, NEW r \in flight, ReadFails(r)
    PROVE  DhtInv'
<1>1. HandleGets(r, "failed", << >>, KeysOf(r)) /\ UNCHANGED server /\ faults' = faults + 1
  BY DEF ReadFails
<1>2. ClientTypes /\ ServerTypes
  BY DEF DhtInv
<1>3. r \in ReadRequest /\ r.kind = "READ"
  BY <1>2, RequestKinds DEF ReadFails
<1>4. r.entries \in Seq(Entry)
  BY <1>3 DEF ReadRequest
<1>5. ASSUME NEW i \in DOMAIN r.entries, ~Retries(r.entries[i], "failed")
      PROVE  /\ ValueAt(r, << >>, i) = Empty
             /\ r.entries[i].key # Empty
             /\ r.entries[i].copy + 1 = replication
  <2>1. r.entries[i] \in Entry
    BY <1>4
  <2>2. r.entries[i].key \in Keys /\ Empty \notin Keys
    BY <2>1, DhtAssumption DEF Entry
  <2>3. r.entries[i].copy + 1 = replication
    BY <1>5 DEF Retries
  <2>4. ValueAt(r, << >>, i) = Empty
    <3>1. Len(r.entries) # 0 /\ Len(<< >>) = 0
      BY <1>4, <1>5
    <3> QED BY <3>1 DEF ValueAt
  <2> QED BY <2>2, <2>3, <2>4
<1>6. faults' \in Nat
  BY <1>1, <1>2 DEF ServerTypes
<1> QED BY <1>1, <1>3, <1>5, <1>6, GetsHandled

-----------------------------------------------------------------------------
(* What a client is told, for any number of copies and faults. *)

\* Clients start with empty queues and gateways with nothing stored.
LEMMA InitDht == Init => DhtInv
<1> SUFFICES ASSUME Init PROVE DhtInv
  OBVIOUS
<1>1. /\ phase = [c \in Clients |-> "idle"]
      /\ cache = [c \in Clients |-> {}]
      /\ pending_puts = [c \in Clients |-> Nothing]
      /\ pending_gets = [c \in Clients |-> Nothing]
      /\ flight = {} /\ late = {}
      /\ puts = [k \in Keys |-> NotPut]
      /\ gets = [c \in Clients |-> [k \in Keys |-> NotAsked]]
      /\ stored = [g \in Gateways |-> {}]
      /\ space_left \in [Gateways -> Space]
      /\ faults = 0
  BY DEF Init
<1>2. /\ Nothing \in [Gateways -> Seq(Keys)] /\ Nothing \in [Gateways -> Seq(Entry)]
      /\ \A g \in Gateways : Nothing[g] = << >>
  BY DEF Nothing
<1>3. NotPut \in PutStates /\ NotPut.ok = 0 /\ NotPut.answered = 0 /\ NotPut.result = "none"
  BY DEF NotPut, PutStates
<1>4. NotAsked \in GetStates /\ NotAsked.result = "none"
  BY DEF NotAsked, GetStates
<1>5. ClientTypes
  BY <1>1, <1>2, <1>3, <1>4 DEF ClientTypes
<1>6. ServerTypes
  BY <1>1, DhtAssumption DEF ServerTypes
<1>7. QueuesRight
  <2>1. DOMAIN << >> = {}
    OBVIOUS
  <2> QED BY <1>1, <1>2, <2>1 DEF QueuesRight, PutRightly, GetRightly
<1>8. RequestsRight
  BY <1>1 DEF RequestsRight
<1>9. PutsRight
  BY <1>1, <1>3 DEF PutsRight, Started
<1>10. ResultsRight
  <2>1. "none" \notin Keys /\ "none" # Empty
    BY DhtAssumption
  <2> QED BY <1>1, <1>4, <2>1 DEF ResultsRight
<1> QED BY <1>5, <1>6, <1>7, <1>8, <1>9, <1>10 DEF DhtInv

\* Every call, round, answer, failure and late write preserves the invariant.
LEMMA NextDht == DhtInv /\ [Next]_vars => DhtInv'
<1> SUFFICES ASSUME DhtInv, [Next]_vars PROVE DhtInv'
  OBVIOUS
<1>1. CASE \E c \in Clients, k \in Keys : Put(c, k) \/ GetCached(c, k) \/ Get(c, k)
  BY <1>1, PutStep, GetCachedStep, GetStep
<1>2. CASE \E c \in Clients : Progress(c)
  BY <1>2, RoundStep, WaitReturnsStep DEF Progress
<1>3. CASE \E r \in flight : Answer(r) \/ WriteFails(r) \/ ReadFails(r)
  BY <1>3, WriteAnsweredStep, ReadAnsweredStep, WriteFailsStep, ReadFailsStep DEF Answer
<1>4. CASE \E r \in late : ServeLate(r)
  BY <1>4, ServeLateStep
<1>5. CASE UNCHANGED vars
  BY <1>5, WaitReturnsStep
<1> QED BY <1>1, <1>2, <1>3, <1>4, <1>5 DEF Next

\* So it holds in every state.
LEMMA DhtAlways == Spec => []DhtInv
BY InitDht, NextDht, PTL DEF Spec

\* A put that was acknowledged is held by a gateway that gets of it ask.
THEOREM AckedPutsStored == Spec => []AckedPutStored
<1>1. DhtInv => AckedPutStored
  BY DEF DhtInv, PutsRight, AckedPutStored, HeldBySome
<1> QED BY <1>1, DhtAlways, PTL

\* A get is answered with the value of its own key, and of no key that was
\* not put.
THEOREM ValuesAlwaysBelong == Spec => []ValuesBelong
<1>1. DhtInv => ValuesBelong
  <2>1. NotPut.result = "none"
    BY DEF NotPut
  <2> QED BY <2>1 DEF DhtInv, ResultsRight, ValuesBelong, Started
<1> QED BY <1>1, DhtAlways, PTL

\* A get is answered empty only if a gateway that answered could not read its
\* key, or if its own exchanges with all copies failed.
THEOREM EmptyOnlyWithoutCopies == Spec => []EmptyOnlyIfAbsent
<1>1. ASSUME DhtInv, NEW c \in Clients, NEW k \in Keys, gets[c][k].result = Empty, ~gets[c][k].absent
      PROVE  gets[c][k].failed = Copies
  <2>1. gets[c][k].failed \subseteq Copies
    BY <1>1 DEF DhtInv, ClientTypes, GetStates
  <2>2. Copies \subseteq gets[c][k].failed
    BY <1>1 DEF DhtInv, ResultsRight
  <2> QED BY <2>1, <2>2
<1>2. DhtInv => EmptyOnlyIfAbsent
  BY <1>1 DEF EmptyOnlyIfAbsent
<1> QED BY <1>2, DhtAlways, PTL

-----------------------------------------------------------------------------
(* No copy of a put is counted twice or forgotten. *)

\* The positions of a key in any queues.
CopiesIn(queues, k) ==
    UNION {{<<c, g, i>> : i \in Places(queues[c][g], k)} : c \in Clients, g \in Gateways}

\* Each is a client's, a gateway's and a place in the queue.
LEMMA QueueMembers ==
    ASSUME NEW queues, NEW k, NEW x
    PROVE  x \in CopiesIn(queues, k) <=>
           \E c \in Clients, g \in Gateways : \E i \in Places(queues[c][g], k) : x = <<c, g, i>>
<1> DEFINE P(c, g) == {<<c, g, i>> : i \in Places(queues[c][g], k)}
           U == {P(c, g) : c \in Clients, g \in Gateways}
<1>1. \A c \in Clients, g \in Gateways : x \in P(c, g) <=> \E i \in Places(queues[c][g], k) : x = <<c, g, i>>
  OBVIOUS
<1> HIDE DEF P
<1>2. x \in UNION U <=> \E c \in Clients, g \in Gateways : x \in P(c, g)
  <2>1. ASSUME x \in UNION U PROVE \E c \in Clients, g \in Gateways : x \in P(c, g)
    <3>1. PICK e \in U : x \in e
      BY <2>1
    <3>2. PICK c \in Clients, g \in Gateways : e = P(c, g)
      BY <3>1
    <3> QED BY <3>1, <3>2
  <2>2. ASSUME NEW c \in Clients, NEW g \in Gateways, x \in P(c, g) PROVE x \in UNION U
    <3>1. P(c, g) \in U
      OBVIOUS
    <3> QED BY <2>2, <3>1
  <2> QED BY <2>1, <2>2
<1>3. x \in UNION U <=> \E c \in Clients, g \in Gateways : \E i \in Places(queues[c][g], k) : x = <<c, g, i>>
  BY <1>1, <1>2
<1>4. CopiesIn(queues, k) = UNION U
  BY DEF CopiesIn, P
<1> HIDE DEF U
<1> QED BY <1>3, <1>4

\* The copies of a key that are queued, before and after a step.
LEMMA QueuedMembers ==
    ASSUME NEW k, NEW x
    PROVE  /\ x \in Queued(k) <=>
              \E c \in Clients, g \in Gateways :
                 \E i \in Places(pending_puts[c][g], k) : x = <<c, g, i>>
           /\ x \in Queued(k)' <=>
              \E c \in Clients, g \in Gateways :
                 \E i \in Places(pending_puts'[c][g], k) : x = <<c, g, i>>
<1>1. Queued(k) = CopiesIn(pending_puts, k) /\ Queued(k)' = CopiesIn(pending_puts', k)
  BY DEF Queued, CopiesIn, Places
<1>2. x \in Queued(k) <=>
        \E c \in Clients, g \in Gateways : \E i \in Places(pending_puts[c][g], k) : x = <<c, g, i>>
  BY <1>1, QueueMembers
<1>3. x \in Queued(k)' <=>
        \E c \in Clients, g \in Gateways : \E i \in Places(pending_puts'[c][g], k) : x = <<c, g, i>>
  BY <1>1, QueueMembers
<1> QED BY <1>2, <1>3

\* The copies of a key that are in flight.
LEMMA SentMembers ==
    \A k, x : x \in Sent(k) <=>
        \E r \in flight : r.kind = "WRITE" /\ \E i \in Places(r.entries, k) : x = <<r, i>>
BY DEF Sent

\* Pairing positions with the request that holds them does not change how
\* many there are.
LEMMA Tagged ==
    ASSUME NEW r, NEW S, IsFiniteSet(S)
    PROVE  /\ IsFiniteSet({<<r, i>> : i \in S})
           /\ Cardinality({<<r, i>> : i \in S}) = Cardinality(S)
<1> DEFINE T == {<<r, i>> : i \in S}
           f == [i \in S |-> <<r, i>>]
<1>1. f \in [S -> T]
  OBVIOUS
<1>2. \A i, j \in S : f[i] = f[j] => i = j
  OBVIOUS
<1>3. \A x \in T : \E i \in S : f[i] = x
  OBVIOUS
<1> HIDE DEF f, T
<1>4. f \in Bijection(S, T)
  BY <1>1, <1>2, <1>3 DEF Bijection, Injection, Surjection, IsInjective
<1>5. IsFiniteSet(T) /\ Cardinality(T) = Cardinality(S)
  BY <1>4, FS_Bijection DEF ExistsBijection
<1> QED BY <1>5 DEF T

\* Nothing of a key that was not put is queued or in flight.
LEMMA NotStartedNoCopies ==
    ASSUME DhtInv, NEW k \in Keys, ~Started(k)
    PROVE  Queued(k) = {} /\ Sent(k) = {}
<1>1. ASSUME NEW x \in Queued(k) PROVE FALSE
  <2>1. PICK c \in Clients, g \in Gateways : \E i \in Places(pending_puts[c][g], k) : x = <<c, g, i>>
    BY <1>1, QueuedMembers
  <2>2. PICK i \in DOMAIN pending_puts[c][g] : pending_puts[c][g][i] = k
    BY <2>1 DEF Places
  <2> QED BY <2>2 DEF DhtInv, QueuesRight, PutRightly
<1>2. ASSUME NEW x \in Sent(k) PROVE FALSE
  <2>1. PICK r \in flight : r.kind = "WRITE" /\ \E i \in Places(r.entries, k) : x = <<r, i>>
    BY <1>2, SentMembers
  <2>2. r \in WriteRequest
    BY <2>1, RequestKinds DEF DhtInv
  <2>3. PICK i \in DOMAIN r.entries : r.entries[i] = k
    BY <2>1 DEF Places
  <2> QED BY <2>2, <2>3 DEF DhtInv, RequestsRight, PutRightly
<1> QED BY <1>1, <1>2

\* put queues one copy of the key for each replica, also where several of
\* them hash to one gateway.
LEMMA PutQueuesAll ==
    ASSUME DhtInv, NEW c \in Clients, NEW k \in Keys, Put(c, k)
    PROVE  IsFiniteSet(Queued(k)') /\ Cardinality(Queued(k)') = replication
<1> DEFINE S(g) == {i \in Copies : choose_gateway(k, i) = g}
           Rank(i) == Cardinality({j \in S(choose_gateway(k, i)) : j <= i})
           L(g) == Len(pending_puts[c][g])
           f == [i \in Copies |-> <<c, choose_gateway(k, i), L(choose_gateway(k, i)) + Rank(i)>>]
           Q == Queued(k)'
<1>1. /\ pending_puts' = [pending_puts EXCEPT ![c] = [g \in Gateways |-> @[g] \o CopiesAt(k, g)]]
      /\ puts[k] = NotPut
  BY DEF Put
<1>2. pending_puts \in [Clients -> [Gateways -> Seq(Keys)]]
  BY DEF DhtInv, ClientTypes
<1>3. ~Started(k)
  BY <1>1 DEF Started, NotPut
<1>4. \A d \in Clients, g \in Gateways : Places(pending_puts[d][g], k) = {}
  <2>1. Queued(k) = {}
    BY <1>3, NotStartedNoCopies
  <2>2. ASSUME NEW d \in Clients, NEW g \in Gateways, NEW i \in Places(pending_puts[d][g], k) PROVE FALSE
    <3>1. <<d, g, i>> \in Queued(k)
      BY <2>2, QueuedMembers
    <3> QED BY <2>1, <3>1
  <2> QED BY <2>2
<1>5. /\ \A d \in Clients : d # c => pending_puts'[d] = pending_puts[d]
      /\ \A g \in Gateways : pending_puts'[c][g] = pending_puts[c][g] \o CopiesAt(k, g)
  BY <1>1, <1>2
<1>6. ASSUME NEW g \in Gateways
      PROVE  /\ L(g) \in Nat
             /\ Places(pending_puts'[c][g], k) = {L(g) + j : j \in 1..Cardinality(S(g))}
  <2> DEFINE s == pending_puts[c][g]
             t == CopiesAt(k, g)
             m == Cardinality(S(g))
  <2>1. /\ s \in Seq(Keys) /\ t \in Seq(Keys) /\ pending_puts'[c][g] = s \o t
        /\ Len(t) = m /\ m \in Nat /\ \A j \in 1..Len(t) : t[j] = k
    BY <1>2, <1>5, CopiesAtProps
  <2>2. \A j \in DOMAIN s : s[j] # k
    BY <1>4 DEF Places
  <2> HIDE DEF s, t, m
  <2>3. /\ Len(s) \in Nat /\ DOMAIN (s \o t) = 1..(Len(s) + m) /\ DOMAIN s = 1..Len(s)
        /\ \A j \in 1..(Len(s) + m) : (s \o t)[j] = IF j <= Len(s) THEN s[j] ELSE t[j - Len(s)]
    <3>1. (s \o t) \in Seq(Keys) /\ Len(s \o t) = Len(s) + Len(t)
          /\ \A j \in 1..(Len(s) + Len(t)) : (s \o t)[j] = IF j <= Len(s) THEN s[j] ELSE t[j - Len(s)]
      BY <2>1, ConcatProperties
    <3> QED BY <2>1, <3>1
  <2>4. ASSUME NEW j \in 1..(Len(s) + m), (s \o t)[j] = k PROVE \E n \in 1..m : j = Len(s) + n
    <3>1. j > Len(s)
      BY <2>2, <2>3, <2>4
    <3>2. j - Len(s) \in 1..m /\ j = Len(s) + (j - Len(s))
      BY <2>1, <2>3, <3>1
    <3> QED BY <3>2
  <2>5. ASSUME NEW n \in 1..m PROVE Len(s) + n \in 1..(Len(s) + m) /\ (s \o t)[Len(s) + n] = k
    <3>1. Len(s) + n \in 1..(Len(s) + m) /\ ~(Len(s) + n <= Len(s)) /\ (Len(s) + n) - Len(s) = n
      BY <2>1, <2>3
    <3>2. (s \o t)[Len(s) + n] = t[n]
      BY <2>3, <3>1
    <3> QED BY <2>1, <3>1, <3>2
  <2>6. Places(s \o t, k) = {Len(s) + n : n \in 1..m}
    BY <2>3, <2>4, <2>5 DEF Places
  <2> QED BY <2>1, <2>3, <2>6 DEF s, m
<1>7. \A x : x \in Q <=> \E g \in Gateways : \E j \in 1..Cardinality(S(g)) : x = <<c, g, L(g) + j>>
  <2>1. \A x : x \in Q <=>
           \E d \in Clients, g \in Gateways : \E i \in Places(pending_puts'[d][g], k) : x = <<d, g, i>>
    BY QueuedMembers
  <2>2. \A d \in Clients, g \in Gateways : d # c => Places(pending_puts'[d][g], k) = {}
    BY <1>4, <1>5
  <2> HIDE DEF L, S, Q
  <2>3. ASSUME NEW x \in Q
        PROVE  \E g \in Gateways : \E j \in 1..Cardinality(S(g)) : x = <<c, g, L(g) + j>>
    <3>1. PICK d \in Clients, g \in Gateways : \E i \in Places(pending_puts'[d][g], k) : x = <<d, g, i>>
      BY <2>1
    <3>2. d = c
      BY <2>2, <3>1
    <3> QED BY <1>6, <3>1, <3>2
  <2>4. ASSUME NEW g \in Gateways, NEW j \in 1..Cardinality(S(g)) PROVE <<c, g, L(g) + j>> \in Q
    <3>1. L(g) + j \in Places(pending_puts'[c][g], k)
      BY <1>6
    <3> QED BY <2>1, <3>1
  <2> QED BY <2>3, <2>4
<1>8. \A i \in Copies : choose_gateway(k, i) \in Gateways /\ i \in S(choose_gateway(k, i)) /\ i \in Int
  BY DhtAssumption DEF Copies
<1>9. ASSUME NEW g \in Gateways
      PROVE  /\ Cardinality(S(g)) \in Nat
             /\ \A i \in S(g) : /\ choose_gateway(k, i) = g /\ i \in Copies
                                /\ Rank(i) \in 1..Cardinality(S(g))
             /\ \A i, l \in S(g) : Rank(i) = Rank(l) => i = l
             /\ \A n \in 1..Cardinality(S(g)) : \E i \in S(g) : Rank(i) = n
  <2> DEFINE T == S(g)
  <2>1. T \in SUBSET Int /\ IsFiniteSet(T)
    BY CopiesAtProps
  <2>2. \A i \in T : choose_gateway(k, i) = g /\ i \in Copies
    OBVIOUS
  <2>3. \A i \in T : Rank(i) = Cardinality({j \in T : j <= i})
    BY <2>2
  <2> HIDE DEF T, Rank
  <2>4. /\ Cardinality(T) \in Nat
        /\ \A i \in T : Cardinality({j \in T : j <= i}) \in 1..Cardinality(T)
        /\ \A i, l \in T :
              Cardinality({j \in T : j <= i}) = Cardinality({j \in T : j <= l}) => i = l
        /\ \A n \in 1..Cardinality(T) : \E i \in T : Cardinality({j \in T : j <= i}) = n
    BY <2>1, RankProps
  <2>5. /\ Cardinality(T) \in Nat
        /\ \A i \in T : Rank(i) \in 1..Cardinality(T)
        /\ \A i, l \in T : Rank(i) = Rank(l) => i = l
        /\ \A n \in 1..Cardinality(T) : \E i \in T : Rank(i) = n
    BY <2>3, <2>4
  <2> QED BY <2>2, <2>5 DEF T
<1> HIDE DEF S, Rank, L, Q
<1>10. f \in [Copies -> Q]
  BY <1>7, <1>8, <1>9
<1>11. ASSUME NEW i \in Copies, NEW l \in Copies, f[i] = f[l] PROVE i = l
  <2>1. choose_gateway(k, i) = choose_gateway(k, l)
        /\ L(choose_gateway(k, i)) + Rank(i) = L(choose_gateway(k, l)) + Rank(l)
    BY <1>11
  <2> DEFINE g == choose_gateway(k, i)
  <2>2. g \in Gateways /\ i \in S(g) /\ l \in S(g) /\ L(g) + Rank(i) = L(g) + Rank(l)
    BY <1>8, <2>1
  <2> HIDE DEF g
  <2>3. Rank(i) \in 1..Cardinality(S(g)) /\ Rank(l) \in 1..Cardinality(S(g)) /\ Cardinality(S(g)) \in Nat
    BY <1>9, <2>2
  <2>4. Rank(i) = Rank(l)
    BY <1>6, <2>2, <2>3
  <2> QED BY <1>9, <2>2, <2>4
<1>12. ASSUME NEW x \in Q PROVE \E i \in Copies : f[i] = x
  <2>1. PICK g \in Gateways : \E j \in 1..Cardinality(S(g)) : x = <<c, g, L(g) + j>>
    BY <1>7
  <2>2. PICK j \in 1..Cardinality(S(g)) : x = <<c, g, L(g) + j>>
    BY <2>1
  <2>3. PICK i \in S(g) : Rank(i) = j
    BY <1>9
  <2>4. i \in Copies /\ choose_gateway(k, i) = g
    BY <1>9, <2>3
  <2> QED BY <2>2, <2>3, <2>4
<1> HIDE DEF f
<1>13. f \in Bijection(Copies, Q)
  BY <1>10, <1>11, <1>12 DEF Bijection, Injection, Surjection, IsInjective
<1>14. IsFiniteSet(Copies) /\ Cardinality(Copies) = replication
  <2>1. replication \in Nat \ {0}
    BY DhtAssumption
  <2>2. IsFiniteSet(0..(replication - 1))
    BY <2>1, FS_Interval
  <2>3. Cardinality(0..(replication - 1)) = IF 0 > replication - 1 THEN 0 ELSE (replication - 1) - 0 + 1
    BY <2>1, FS_Interval
  <2>4. Cardinality(0..(replication - 1)) = replication
    BY <2>1, <2>3
  <2> QED BY <2>2, <2>4 DEF Copies
<1>15. IsFiniteSet(Q) /\ Cardinality(Q) = Cardinality(Copies)
  BY <1>13, <1>14, FS_Bijection DEF ExistsBijection
<1> QED BY <1>14, <1>15 DEF Q

\* The copies in flight after a step.
LEMMA SentMembersNext ==
    \A k, x : x \in Sent(k)' <=>
        \E r \in flight' : r.kind = "WRITE" /\ \E i \in Places(r.entries, k) : x = <<r, i>>
BY DEF Sent, Places

\* Steps that leave the queues, the requests and the counters alone.
LEMMA CountsSame ==
    ASSUME CopiesAccounted, pending_puts' = pending_puts, puts' = puts,
           \A r : r.kind = "WRITE" => (r \in flight' <=> r \in flight)
    PROVE  CopiesAccounted'
<1>1. ASSUME NEW k \in Keys PROVE Queued(k)' = Queued(k) /\ Sent(k)' = Sent(k)
  <2>1. Queued(k)' = Queued(k)
    BY DEF Queued, Places
  <2>2. \A x : x \in Sent(k)' <=> x \in Sent(k)
    BY SentMembers, SentMembersNext
  <2> QED BY <2>1, <2>2
<1>2. SUFFICES ASSUME NEW k \in Keys
               PROVE  /\ IsFiniteSet(Queued(k)') /\ IsFiniteSet(Sent(k)')
                      /\ Started(k)' => puts'[k].answered + Outstanding(k)' = replication
  BY DEF CopiesAccounted
<1> QED BY <1>1 DEF CopiesAccounted, Outstanding, Started

\* put: all copies of the key are queued, those of other keys stay.
LEMMA PutCounts ==
    ASSUME DhtInv, CountInv, NEW c \in Clients, NEW k \in Keys, Put(c, k)
    PROVE  CountInv'
<1>1. /\ phase' = phase /\ flight' = flight /\ puts[k] = NotPut
      /\ puts' = [puts EXCEPT ![k].result = "pending"]
      /\ pending_puts' = [pending_puts EXCEPT ![c] = [g \in Gateways |-> @[g] \o CopiesAt(k, g)]]
  BY DEF Put
<1>2. /\ pending_puts \in [Clients -> [Gateways -> Seq(Keys)]]
      /\ puts \in [Keys -> PutStates]
  BY DEF DhtInv, ClientTypes
<1>3. OutOfWait'
  BY <1>1 DEF CountInv, OutOfWait
<1>4. \A l \in Keys : Sent(l)' = Sent(l)
  BY <1>1 DEF Sent, Places
<1>5. ASSUME NEW l \in Keys, l # k PROVE Queued(l)' = Queued(l)
  <2>1. ASSUME NEW d \in Clients, NEW g \in Gateways
        PROVE  Places(pending_puts'[d][g], l) = Places(pending_puts[d][g], l)
    <3>1. CASE d # c
      BY <1>1, <1>2, <3>1
    <3>2. CASE d = c
      <4> DEFINE s == pending_puts[c][g]
                 t == CopiesAt(k, g)
      <4>1. /\ s \in Seq(Keys) /\ t \in Seq(Keys) /\ pending_puts'[c][g] = s \o t
            /\ \A j \in 1..Len(t) : t[j] = k
        BY <1>1, <1>2, CopiesAtProps
      <4> HIDE DEF s, t
      <4>2. /\ Len(s) \in Nat /\ Len(t) \in Nat
            /\ DOMAIN (s \o t) = 1..(Len(s) + Len(t)) /\ DOMAIN s = 1..Len(s)
            /\ \A j \in 1..(Len(s) + Len(t)) : (s \o t)[j] = IF j <= Len(s) THEN s[j] ELSE t[j - Len(s)]
        <5>1. /\ (s \o t) \in Seq(Keys) /\ Len(s \o t) = Len(s) + Len(t)
              /\ \A j \in 1..(Len(s) + Len(t)) : (s \o t)[j] = IF j <= Len(s) THEN s[j] ELSE t[j - Len(s)]
          BY <4>1, ConcatProperties
        <5> QED BY <4>1, <5>1
      <4>3. ASSUME NEW j \in 1..(Len(s) + Len(t)), (s \o t)[j] = l PROVE j \in DOMAIN s /\ s[j] = l
        <5>1. CASE j <= Len(s)
          BY <4>2, <4>3, <5>1
        <5>2. CASE j > Len(s)
          <6>1. j - Len(s) \in 1..Len(t) /\ (s \o t)[j] = t[j - Len(s)]
            BY <4>2, <5>2
          <6> QED BY <1>5, <4>1, <4>3, <6>1
        <5> QED BY <4>2, <5>1, <5>2
      <4>4. ASSUME NEW j \in DOMAIN s, s[j] = l PROVE j \in 1..(Len(s) + Len(t)) /\ (s \o t)[j] = l
        BY <4>2, <4>4
      <4>5. Places(s \o t, l) = Places(s, l)
        BY <4>2, <4>3, <4>4 DEF Places
      <4> QED BY <3>2, <4>1, <4>5 DEF s
    <3> QED BY <3>1, <3>2
  <2>2. \A x : x \in Queued(l)' <=> x \in Queued(l)
    BY <2>1, QueuedMembers
  <2> QED BY <2>2
<1>6. IsFiniteSet(Queued(k)') /\ Cardinality(Queued(k)') = replication
  BY PutQueuesAll
<1>7. Sent(k) = {} /\ puts'[k].answered = 0
  <2>1. ~Started(k) /\ puts[k].answered = 0
    BY <1>1 DEF Started, NotPut
  <2>2. puts'[k].answered = puts[k].answered
    <3>1. puts'[k] = [puts[k] EXCEPT !.result = "pending"] /\ puts[k] \in PutStates
      BY <1>1, <1>2
    <3> QED BY <3>1 DEF PutStates
  <2> QED BY <2>1, <2>2, NotStartedNoCopies
<1>8. ASSUME NEW l \in Keys
      PROVE  /\ IsFiniteSet(Queued(l)') /\ IsFiniteSet(Sent(l)')
             /\ Started(l)' => puts'[l].answered + Outstanding(l)' = replication
  <2>1. CASE l = k
    <3>1. Cardinality({}) = 0 /\ IsFiniteSet({}) /\ replication \in Nat
      BY FS_EmptySet, DhtAssumption
    <3>2. IsFiniteSet(Sent(k)') /\ Cardinality(Sent(k)') = 0
      BY <1>4, <1>7, <3>1
    <3>3. puts'[k].answered + (Cardinality(Queued(k)') + Cardinality(Sent(k)')) = replication
      BY <1>6, <1>7, <3>1, <3>2
    <3> QED BY <1>6, <2>1, <3>2, <3>3 DEF Outstanding
  <2>2. CASE l # k
    <3>1. puts'[l] = puts[l]
      BY <1>1, <1>2, <2>2
    <3> QED BY <1>4, <1>5, <2>2, <3>1 DEF CountInv, CopiesAccounted, Outstanding, Started
  <2> QED BY <2>1, <2>2
<1> QED BY <1>3, <1>8 DEF CountInv, CopiesAccounted

\* A round turns the copies a client has queued into copies in flight.
LEMMA RoundCounts ==
    ASSUME DhtInv, CountInv, NEW c \in Clients, Round(c)
    PROVE  CountInv'
<1>1. /\ puts' = puts
      /\ flight' = flight \cup Requests(c)
      /\ pending_puts' = [pending_puts EXCEPT ![c] = Nothing]
      /\ phase' = [phase EXCEPT ![c] = "run"]
      /\ phase[c] = "idle" \/ RunReturned(c)
  BY DEF Round
<1>2. /\ pending_puts \in [Clients -> [Gateways -> Seq(Keys)]]
      /\ phase \in [Clients -> {"idle", "run", "called"}]
  BY DEF DhtInv, ClientTypes
<1>3. \A r \in flight : r.client # c
  BY <1>1 DEF CountInv, OutOfWait, RunReturned
<1>4. \A r \in Requests(c) : r.client = c
  BY DEF Requests, Request
<1>5. OutOfWait'
  <2>1. SUFFICES ASSUME NEW d \in Clients, phase'[d] = "idle", NEW r \in flight' PROVE r.client # d
    BY DEF OutOfWait
  <2>2. d # c /\ phase[d] = "idle"
    BY <1>1, <1>2, <2>1
  <2> QED BY <1>1, <1>4, <2>2 DEF CountInv, OutOfWait
<1> DEFINE W(g) == Request(c, g, "WRITE", pending_puts[c][g])
<1>6. ASSUME NEW k \in Keys
      PROVE  /\ IsFiniteSet(Queued(k)') /\ IsFiniteSet(Sent(k)')
             /\ Outstanding(k)' = Outstanding(k)
  <2> DEFINE Q == {x \in Queued(k) : x[1] = c}
             N == {<<W(x[2]), x[3]>> : x \in Q}
             f == [x \in Q |-> <<W(x[2]), x[3]>>]
  <2>1. \A x : x \in Q <=> \E g \in Gateways : \E i \in Places(pending_puts[c][g], k) : x = <<c, g, i>>
    BY QueuedMembers
  <2>2. Queued(k)' = Queued(k) \ Q
    <3>1. \A g \in Gateways : Places(pending_puts'[c][g], k) = {}
      <4>1. \A g \in Gateways : pending_puts'[c][g] = << >>
        BY <1>1, <1>2 DEF Nothing
      <4> QED BY <4>1 DEF Places
    <3>2. \A d \in Clients : d # c => pending_puts'[d] = pending_puts[d]
      BY <1>1, <1>2
    <3>3. ASSUME NEW x \in Queued(k)' PROVE x \in Queued(k) \ Q
      <4>1. PICK d \in Clients, g \in Gateways : \E i \in Places(pending_puts'[d][g], k) : x = <<d, g, i>>
        BY <3>3, QueuedMembers
      <4>2. d # c /\ pending_puts'[d] = pending_puts[d]
        BY <3>1, <3>2, <4>1
      <4>3. x \in Queued(k)
        BY <4>1, <4>2, QueuedMembers
      <4>4. x[1] # c
        BY <4>1, <4>2
      <4> QED BY <4>3, <4>4
    <3>4. ASSUME NEW x \in Queued(k) \ Q PROVE x \in Queued(k)'
      <4>1. PICK d \in Clients, g \in Gateways : \E i \in Places(pending_puts[d][g], k) : x = <<d, g, i>>
        BY <3>4, QueuedMembers
      <4>2. d # c
        BY <3>4, <4>1
      <4>3. pending_puts'[d] = pending_puts[d]
        BY <3>2, <4>2
      <4> QED BY <4>1, <4>3, QueuedMembers
    <3> QED BY <3>3, <3>4
  <2>3. Sent(k)' = Sent(k) \cup N
    <3>1. ASSUME NEW x \in Sent(k)' PROVE x \in Sent(k) \cup N
      <4>1. PICK r \in flight' : r.kind = "WRITE" /\ \E i \in Places(r.entries, k) : x = <<r, i>>
        BY <3>1, SentMembersNext
      <4>2. CASE r \in flight
        BY <4>1, <4>2, SentMembers
      <4>3. CASE r \in Requests(c)
        <5>1. PICK g \in Gateways : r = W(g)
          BY <4>1, <4>3 DEF Requests, Request
        <5>2. r.entries = pending_puts[c][g]
          BY <5>1 DEF Request
        <5>3. PICK i \in Places(pending_puts[c][g], k) : x = <<W(g), i>>
          BY <4>1, <5>1, <5>2
        <5> DEFINE y == <<c, g, i>>
        <5>4. y \in Q
          BY <2>1, <5>3
        <5>5. x = <<W(y[2]), y[3]>>
          BY <5>3
        <5> QED BY <5>4, <5>5
      <4> QED BY <1>1, <4>1, <4>2, <4>3
    <3>2. ASSUME NEW x \in Sent(k) PROVE x \in Sent(k)'
      BY <1>1, <3>2, SentMembers, SentMembersNext
    <3>3. ASSUME NEW y \in Q PROVE <<W(y[2]), y[3]>> \in Sent(k)'
      <4>1. PICK g \in Gateways : \E i \in Places(pending_puts[c][g], k) : y = <<c, g, i>>
        BY <2>1, <3>3
      <4>2. PICK i \in Places(pending_puts[c][g], k) : y = <<c, g, i>>
        BY <4>1
      <4>3. pending_puts[c][g] # << >>
        BY <4>2 DEF Places
      <4>4. W(g) \in flight' /\ W(g).kind = "WRITE" /\ W(g).entries = pending_puts[c][g]
        BY <1>1, <4>3 DEF Requests, Request
      <4>5. y[2] = g /\ y[3] = i
        BY <4>2
      <4> QED BY <4>2, <4>4, <4>5, SentMembersNext
    <3> QED BY <3>1, <3>2, <3>3
  <2>4. N \cap Sent(k) = {}
    <3>1. ASSUME NEW y \in Q, <<W(y[2]), y[3]>> \in Sent(k) PROVE FALSE
      <4>1. PICK r \in flight : \E i \in Places(r.entries, k) : <<W(y[2]), y[3]>> = <<r, i>>
        BY <3>1, SentMembers
      <4>2. W(y[2]) = r
        BY <4>1
      <4>3. W(y[2]).client = c
        BY DEF Request
      <4> QED BY <1>3, <4>2, <4>3
    <3> QED BY <3>1
  <2>5. \A x \in Q : \E g, i : x = <<c, g, i>>
    BY <2>1
  <2>6. f \in [Q -> N]
    OBVIOUS
  <2>7. ASSUME NEW x \in Q, NEW y \in Q, f[x] = f[y] PROVE x = y
    <3>1. W(x[2]) = W(y[2]) /\ x[3] = y[3]
      BY <2>7
    <3>2. W(x[2]).gateway = x[2] /\ W(y[2]).gateway = y[2]
      BY DEF Request
    <3>3. x[2] = y[2]
      BY <3>1, <3>2
    <3> QED BY <2>5, <3>1, <3>3
  <2>8. \A z \in N : \E x \in Q : f[x] = z
    OBVIOUS
  <2>9. Q \in SUBSET Queued(k)
    OBVIOUS
  <2> HIDE DEF f, N, Q
  <2>10. f \in Bijection(Q, N)
    BY <2>6, <2>7, <2>8 DEF Bijection, Injection, Surjection, IsInjective
  <2>11. IsFiniteSet(Queued(k)) /\ IsFiniteSet(Sent(k))
    BY DEF CountInv, CopiesAccounted
  <2>12. IsFiniteSet(Q)
    BY <2>9, <2>11, FS_Subset
  <2>13. IsFiniteSet(N) /\ Cardinality(N) = Cardinality(Q)
    BY <2>10, <2>12, FS_Bijection DEF ExistsBijection
  <2>14. /\ IsFiniteSet(Queued(k) \ Q)
         /\ Cardinality(Queued(k) \ Q) = Cardinality(Queued(k)) - Cardinality(Queued(k) \cap Q)
    BY <2>11, FS_Difference
  <2>15. Queued(k) \cap Q = Q
    BY <2>9
  <2>16. /\ IsFiniteSet(Sent(k) \cup N)
         /\ Cardinality(Sent(k) \cup N) = Cardinality(Sent(k)) + Cardinality(N) - Cardinality(Sent(k) \cap N)
    BY <2>11, <2>13, FS_Union
  <2>17. Cardinality(Sent(k) \cap N) = 0
    <3>1. Sent(k) \cap N = {}
      BY <2>4
    <3> QED BY <3>1, FS_EmptySet
  <2>18. Cardinality(Queued(k)) \in Nat /\ Cardinality(Sent(k)) \in Nat /\ Cardinality(Q) \in Nat
    BY <2>11, <2>12, FS_CardinalityType
  <2>19. (Cardinality(Queued(k)) - Cardinality(Q)) + (Cardinality(Sent(k)) + Cardinality(Q) - 0)
            = Cardinality(Queued(k)) + Cardinality(Sent(k))
    BY <2>18
  <2>20. Cardinality(Queued(k)') = Cardinality(Queued(k)) - Cardinality(Q)
    BY <2>2, <2>14, <2>15
  <2>21. Cardinality(Sent(k)') = Cardinality(Sent(k)) + Cardinality(Q) - 0
    BY <2>3, <2>13, <2>16, <2>17
  <2>22. Outstanding(k)' = Cardinality(Queued(k)') + Cardinality(Sent(k)')
    BY DEF Outstanding
  <2>23. Outstanding(k) = Cardinality(Queued(k)) + Cardinality(Sent(k))
    BY DEF Outstanding
  <2> QED BY <2>2, <2>3, <2>14, <2>16, <2>19, <2>20, <2>21, <2>22, <2>23
<1>7. CopiesAccounted'
  BY <1>1, <1>6 DEF CountInv, CopiesAccounted, Started
<1> QED BY <1>5, <1>7 DEF CountInv

\* The callbacks of a write count the copies that were in flight with it.
LEMMA PutsHandledCounts ==
    ASSUME DhtInv, CountInv, NEW r \in flight, NEW status, HandlePuts(r, status)
    PROVE  CountInv'
<1>1. /\ r.kind = "WRITE"
      /\ flight' = flight \ {r}
      /\ phase' = [phase EXCEPT ![r.client] = "called"]
      /\ puts' = [k \in Keys |->
            IF Places(r.entries, k) # {}
            THEN Counted(puts[k], Cardinality(Places(r.entries, k)), status)
            ELSE puts[k]]
      /\ pending_puts' = pending_puts
  BY DEF HandlePuts
<1>2. ClientTypes
  BY DEF DhtInv
<1>3. r \in WriteRequest
  BY <1>1, <1>2, RequestKinds
<1>4. r.entries \in Seq(Keys) /\ PutRightly(r.entries, r.gateway)
  BY <1>3 DEF DhtInv, RequestsRight, WriteRequest
<1>5. OutOfWait'
  <2>1. \A d \in Clients : phase'[d] = "idle" => phase[d] = "idle"
    BY <1>1, <1>2 DEF ClientTypes
  <2> QED BY <1>1, <2>1 DEF CountInv, OutOfWait
<1>6. ASSUME NEW k \in Keys
      PROVE  /\ IsFiniteSet(Queued(k)') /\ IsFiniteSet(Sent(k)')
             /\ puts'[k].result # "none" => puts'[k].answered + Outstanding(k)' = replication
  <2> DEFINE P == Places(r.entries, k)
             T == {<<r, i>> : i \in P}
             n == Cardinality(P)
  <2>1. Queued(k)' = Queued(k)
    BY <1>1 DEF Queued, Places
  <2>2. Sent(k)' = Sent(k) \ T /\ T \in SUBSET Sent(k)
    <3>1. \A x : x \in Sent(k)' <=> x \in Sent(k) \ T
      <4>1. ASSUME NEW x \in Sent(k)' PROVE x \in Sent(k) \ T
        <5>1. PICK q \in flight' : q.kind = "WRITE" /\ \E i \in Places(q.entries, k) : x = <<q, i>>
          BY <4>1, SentMembersNext
        <5>2. q \in flight /\ q # r
          BY <1>1, <5>1
        <5>3. x \notin T
          BY <5>1, <5>2
        <5> QED BY <5>1, <5>2, <5>3, SentMembers
      <4>2. ASSUME NEW x \in Sent(k) \ T PROVE x \in Sent(k)'
        <5>1. PICK q \in flight : q.kind = "WRITE" /\ \E i \in Places(q.entries, k) : x = <<q, i>>
          BY <4>2, SentMembers
        <5>2. q # r
          BY <4>2, <5>1
        <5> QED BY <1>1, <5>1, <5>2, SentMembersNext
      <4> QED BY <4>1, <4>2
    <3>2. T \subseteq Sent(k)
      BY <1>1, SentMembers
    <3> QED BY <3>1, <3>2
  <2>3. IsFiniteSet(P) /\ n \in Nat
    BY <1>4, PlacesFinite DEF Places
  <2>4. IsFiniteSet(T) /\ Cardinality(T) = n
    BY <2>3, Tagged
  <2>5. IsFiniteSet(Queued(k)) /\ IsFiniteSet(Sent(k))
    BY DEF CountInv, CopiesAccounted
  <2> HIDE DEF T
  <2>6. /\ IsFiniteSet(Sent(k) \ T)
        /\ Cardinality(Sent(k) \ T) = Cardinality(Sent(k)) - Cardinality(Sent(k) \cap T)
    BY <2>5, FS_Difference
  <2>7. Sent(k) \cap T = T
    BY <2>2
  <2>8. Cardinality(Queued(k)) \in Nat /\ Cardinality(Sent(k)) \in Nat
    BY <2>5, FS_CardinalityType
  <2>9. Outstanding(k)' = Cardinality(Queued(k)') + Cardinality(Sent(k)')
    BY DEF Outstanding
  <2>10. Outstanding(k) = Cardinality(Queued(k)) + Cardinality(Sent(k))
    BY DEF Outstanding
  <2>11. Outstanding(k)' = Cardinality(Queued(k)) + (Cardinality(Sent(k)) - n)
    BY <2>1, <2>2, <2>4, <2>6, <2>7, <2>9
  <2>12. puts[k] \in PutStates /\ puts[k].answered \in Nat
    BY <1>2 DEF ClientTypes, PutStates
  <2>13. Started(k) => puts[k].answered + Outstanding(k) = replication
    BY DEF CountInv, CopiesAccounted
  <2>14. CASE P = {}
    <3>1. puts'[k] = puts[k] /\ n = 0
      BY <1>1, <2>14, FS_EmptySet
    <3>2. Outstanding(k)' = Outstanding(k)
      BY <2>8, <2>10, <2>11, <3>1
    <3> QED BY <2>1, <2>2, <2>5, <2>6, <2>13, <3>1, <3>2 DEF Started
  <2>15. CASE P # {}
    <3>1. puts'[k] = Counted(puts[k], n, status)
      BY <1>1, <2>15
    <3> HIDE DEF n
    <3>2. puts'[k].answered = puts[k].answered + n
      BY <2>3, <2>12, <3>1, CountedProps
    <3>3. Started(k)
      <4>1. PICK i \in DOMAIN r.entries : r.entries[i] = k
        BY <2>15 DEF Places
      <4> QED BY <1>4, <4>1 DEF PutRightly
    <3>4. puts[k].answered + (Cardinality(Queued(k)) + Cardinality(Sent(k))) = replication
      BY <2>10, <2>13, <3>3
    <3>5. puts'[k].answered + Outstanding(k)' = replication
      BY <2>3, <2>8, <2>11, <2>12, <3>2, <3>4
    <3> QED BY <2>1, <2>2, <2>5, <2>6, <3>5
  <2> QED BY <2>14, <2>15
<1>7. CopiesAccounted'
  BY <1>6 DEF CopiesAccounted, Started
<1> QED BY <1>5, <1>7 DEF CountInv

\* The callbacks of a read count nothing.
LEMMA GetsHandledCounts ==
    ASSUME DhtInv, CountInv, NEW r \in flight, r.kind = "READ", NEW status, NEW result, NEW found,
           HandleGets(r, status, result, found)
    PROVE  CountInv'
<1>1. /\ flight' = flight \ {r}
      /\ phase' = [phase EXCEPT ![r.client] = "called"]
      /\ puts' = puts /\ pending_puts' = pending_puts
  BY DEF HandleGets
<1>2. OutOfWait'
  <2>1. \A d \in Clients : phase'[d] = "idle" => phase[d] = "idle"
    BY <1>1 DEF DhtInv, ClientTypes
  <2> QED BY <1>1, <2>1 DEF CountInv, OutOfWait
<1>3. \A q : q.kind = "WRITE" => (q \in flight' <=> q \in flight)
  BY <1>1
<1>4. CopiesAccounted'
  BY <1>1, <1>3, CountsSame DEF CountInv
<1> QED BY <1>2, <1>4 DEF CountInv

\* Initially nothing is put, and no step miscounts.
LEMMA InitCounts == Init => CountInv
<1> SUFFICES ASSUME Init PROVE CountInv
  OBVIOUS
<1>1. OutOfWait
  BY DEF Init, OutOfWait
<1>2. DhtInv
  BY InitDht
<1>3. \A k \in Keys : ~Started(k)
  BY DEF Init, Started, NotPut
<1>4. \A k \in Keys : Queued(k) = {} /\ Sent(k) = {}
  BY <1>2, <1>3, NotStartedNoCopies
<1>5. CopiesAccounted
  BY <1>3, <1>4, FS_EmptySet DEF CopiesAccounted
<1> QED BY <1>1, <1>5 DEF CountInv

\* Every step accounts for the copies of a put it queues, sends or answers.
LEMMA NextCounts == DhtInv /\ CountInv /\ [Next]_vars => CountInv'
<1> SUFFICES ASSUME DhtInv, CountInv, [Next]_vars PROVE CountInv'
  OBVIOUS
<1>1. ASSUME NEW c \in Clients, NEW k \in Keys, Put(c, k) PROVE CountInv'
  BY <1>1, PutCounts
<1>2. ASSUME pending_puts' = pending_puts, puts' = puts, flight' = flight,
             phase' = phase \/ \E c \in Clients : WaitReturns(c)
      PROVE  CountInv'
  <2>1. CopiesAccounted'
    BY <1>2, CountsSame DEF CountInv
  <2>2. OutOfWait'
    <3>1. CASE phase' = phase
      BY <1>2, <3>1 DEF CountInv, OutOfWait
    <3>2. CASE \E c \in Clients : WaitReturns(c)
      <4>1. PICK c \in Clients : WaitReturns(c)
        BY <3>2
      <4>2. phase' = [phase EXCEPT ![c] = "idle"] /\ \A r \in flight : r.client # c
        BY <4>1 DEF WaitReturns, RunReturned
      <4>3. \A d \in Clients : d # c => phase'[d] = phase[d]
        BY <4>2 DEF DhtInv, ClientTypes
      <4> QED BY <1>2, <4>2, <4>3 DEF CountInv, OutOfWait
    <3> QED BY <1>2, <3>1, <3>2
  <2> QED BY <2>1, <2>2 DEF CountInv
<1>3. CASE \E c \in Clients, k \in Keys : Put(c, k) \/ GetCached(c, k) \/ Get(c, k)
  BY <1>1, <1>2, <1>3 DEF GetCached, Get
<1>4. CASE \E c \in Clients : Progress(c)
  BY <1>2, <1>4, RoundCounts DEF Progress, WaitReturns
<1>5. CASE \E r \in flight : Answer(r) \/ WriteFails(r) \/ ReadFails(r)
  BY <1>5, PutsHandledCounts, GetsHandledCounts DEF Answer, WriteAnswered, ReadAnswered, WriteFails, ReadFails
<1>6. CASE \E r \in late : ServeLate(r)
  BY <1>2, <1>6 DEF ServeLate, client
<1>7. CASE UNCHANGED vars
  BY <1>2, <1>7 DEF vars, client
<1> QED BY <1>3, <1>4, <1>5, <1>6, <1>7 DEF Next

\* For any hash, no copy of a put is counted twice or forgotten, and no more
\* answers are counted than there are copies.
THEOREM CopiesAlwaysCounted == Spec => []CopiesCounted
<1>1. DhtInv /\ CountInv => CopiesCounted
  <2> SUFFICES ASSUME DhtInv, CountInv PROVE CopiesCounted
    OBVIOUS
  <2>1. \A k \in Keys : Started(k) => puts[k].answered + Outstanding(k) = replication
    BY DEF CountInv, CopiesAccounted
  <2>2. ASSUME NEW k \in Keys
        PROVE  puts[k].answered \in 0..replication /\ puts[k].ok \in 0..puts[k].answered
    <3>1. /\ puts[k].answered \in Nat /\ puts[k].ok \in Nat /\ puts[k].ok <= puts[k].answered
          /\ ~Started(k) => puts[k].answered = 0
      BY DEF DhtInv, ClientTypes, PutStates, PutsRight
    <3>2. Outstanding(k) \in Nat
      <4>1. Cardinality(Queued(k)) \in Nat /\ Cardinality(Sent(k)) \in Nat
        BY FS_CardinalityType DEF CountInv, CopiesAccounted
      <4> QED BY <4>1 DEF Outstanding
    <3>3. puts[k].answered <= replication
      BY <2>1, <3>1, <3>2, DhtAssumption
    <3> QED BY <3>1, <3>3, DhtAssumption
  <2>3. DhtTypeOK
    <3>1. \A k \in Keys : puts[k].result \in {"none", "pending", "ok", "eobj"}
      BY DEF DhtInv, ClientTypes, PutStates
    <3>2. \A c \in Clients, k \in Keys : gets[c][k].result \in Keys \cup {"none", "pending", Empty}
      BY DEF DhtInv, ClientTypes, GetStates
    <3>3. \A c \in Clients, g \in Gateways :
             pending_puts[c][g] \in Seq(Keys) /\ pending_gets[c][g] \in Seq([key : Keys, copy : Copies])
      BY DEF DhtInv, ClientTypes, Entry
    <3>4. /\ phase \in [Clients -> {"idle", "run", "called"}] /\ cache \in [Clients -> SUBSET Keys]
          /\ stored \in [Gateways -> SUBSET Keys] /\ space_left \in [Gateways -> Nat]
      BY DEF DhtInv, ClientTypes, ServerTypes
    <3> QED BY <2>2, <3>1, <3>2, <3>3, <3>4 DEF DhtTypeOK
  <2> QED BY <2>1, <2>3 DEF CopiesCounted, Started
<1>2. Init => CountInv
  BY InitCounts
<1>3. DhtInv /\ CountInv /\ [Next]_vars => CountInv'
  BY NextCounts
<1> QED BY <1>1, <1>2, <1>3, DhtAlways, PTL DEF Spec

=============================================================================
