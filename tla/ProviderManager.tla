--------------------------- MODULE ProviderManager ---------------------------
(***************************************************************************)
(* The provider manager (pmanager/adv_manager.cpp): a table of providers   *)
(* with an index ordered by score, from which writers are given the        *)
(* providers to store their pages on.  Handlers run in the one thread of   *)
(* the RPC server; the watchdog runs in a thread of its own and the lock   *)
(* both take is a null_lock, so it may erase entries while get is between  *)
(* two rounds of its loop.  The read statistics are stored and never used, *)
(* and are left out.                                                       *)
(***************************************************************************)
EXTENDS Integers, Sequences, FiniteSets

CONSTANTS
    Providers,
    FreeSpaces,    \* values of free space providers report
    PageCounts,    \* numbers of pages writers store
    ReplicaCounts, \* and of replicas of each
    Timeout,       \* WATCHDOG_TIMEOUT, in ticks
    MaxScore       \* bound: score of a provider

ASSUME ManagerAssumption ==
    /\ FreeSpaces \subseteq Nat
    /\ PageCounts \subseteq Nat \ {0}
    /\ ReplicaCounts \subseteq Nat \ {0}
    /\ Timeout \in Nat
    /\ MaxScore \in Nat

VARIABLES
    adv_table,     \* provider -> table_entry
    info_index,    \* the table's index by score_entry
    request,       \* the PUBLISHER_GET being served, or the last one
    overtaken      \* history: a full provider's score was once the lower one

vars == <<adv_table, info_index, request, overtaken>>

\* life is timestamp - now: negative once the timestamp has passed.
table_entry == [score : Nat, free : Nat, life : -1..Timeout]

request_t == [no_providers : Nat, replica_no : Nat, adv_list : Seq(Providers),
              status : {"serving", "ok", "eres"}]

-----------------------------------------------------------------------------
(* The order of the index. *)

\* Mutants: a full provider is not put after the others; the provider with
\* less free space wins.
Less_ScoreOnly(a, b) == a.score < b.score

Less_FullerFirst(a, b) ==
    \/ a.free = 0 /\ b.free = 0 /\ a.score < b.score
    \/ a.free > 0 /\ (a.score < b.score \/ (a.score = b.score /\ a.free < b.free))

\* score_entry::operator<
Less(a, b) ==
    \/ a.free = 0 /\ b.free = 0 /\ a.score < b.score
    \/ /\ a.free > 0 /\ a.score <= b.score
       /\ b.free = 0 \/ a.score < b.score \/ a.free > b.free

Without(index, p) ==
    LET i == CHOOSE i \in DOMAIN index : index[i] = p
    IN  [j \in 1..(Len(index) - 1) |-> IF j < i THEN index[j] ELSE index[j + 1]]

InsertAfter(index, i, p) == SubSeq(index, 1, i) \o <<p>> \o SubSeq(index, i + 1, Len(index))

\* Where the search tree may link an entry e: descending to the right means
\* that e is not less than the node passed, to the left that it is.
Linked(index, table, p, e) ==
    {InsertAfter(index, i, p) : i \in
        {i \in 0..Len(index) : /\ i = 0 \/ ~Less(e, table[index[i]])
                               /\ i = Len(index) \/ Less(e, table[index[i + 1]])}}

\* Mutants: the entry is linked again without being unlinked; it is changed
\* and not moved.
Replaced_NotUnlinked(index, table, p, e) ==
    IF p \in DOMAIN table THEN Linked(index, table, p, e) ELSE {index}

Replaced_NotMoved(index, table, p, e) == {index}

\* multi_index's replace: an entry that is not out of order with its
\* neighbours stays, any other is linked again.
Replaced(index, table, p, e) ==
    LET i == CHOOSE i \in DOMAIN index : index[i] = p
        in_place == /\ i = 1 \/ ~Less(e, table[index[i - 1]])
                    /\ i = Len(index) \/ ~Less(table[index[i + 1]], e)
    IN  IF in_place THEN {index} ELSE Linked(Without(index, p), table, p, e)

With(table, p, e) == [q \in DOMAIN table \cup {p} |-> IF q = p THEN e ELSE table[q]]

\* A full provider has a lower score than one with free space.  No code keeps
\* this: of two such entries neither is operator< the other, while either may
\* be less than, or after, a third, so the order of the index means nothing
\* any more.  The properties about the order end there.
Overtaken(table) ==
    \E p, q \in DOMAIN table :
        table[p].free = 0 /\ table[q].free > 0 /\ table[p].score < table[q].score

-----------------------------------------------------------------------------
Init ==
    /\ overtaken = FALSE
    /\ adv_table = << >>
    /\ info_index = << >>
    /\ request = [no_providers |-> 0, replica_no |-> 1, adv_list |-> << >>, status |-> "ok"]

Serving == request.status = "serving"

\* A provider that is not in the table enters it with score 0.
update(p, free_space) ==
    /\ ~Serving
    /\ LET fresh == [score |-> 0, free |-> 0, life |-> Timeout]
           known == p \in DOMAIN adv_table
           e == [(IF known THEN adv_table[p] ELSE fresh) EXCEPT !.free = free_space, !.life = Timeout]
       IN  \E index \in IF known THEN {info_index} ELSE Linked(info_index, adv_table, p, fresh) :
              /\ info_index' \in Replaced(index, adv_table, p, e)
              /\ adv_table' = With(adv_table, p, e)
    /\ overtaken' = (overtaken \/ Overtaken(adv_table'))
    /\ UNCHANGED request

\* exec_write asks for whole groups of replicas.
get(pages, replica_no) ==
    /\ ~Serving
    /\ \A p \in DOMAIN adv_table : adv_table[p].score + pages <= MaxScore
    /\ request' = [no_providers |-> pages * replica_no, replica_no |-> replica_no,
                   adv_list |-> << >>, status |-> "serving"]
    /\ UNCHANGED <<adv_table, info_index, overtaken>>

\* Mutant: the scan over the replicas already allocated ends one short.
Allocated_OneShort ==
    LET n == Len(request.adv_list)
        i == n % request.replica_no
    IN  {request.adv_list[j] : j \in (n - i + 2)..n}

\* The providers that already have a replica of the page being placed.
Allocated ==
    LET n == Len(request.adv_list)
        i == n % request.replica_no
    IN  {request.adv_list[j] : j \in (n - i + 1)..n}

\* The scan over the index stops at the first provider without free space.
Suitable(k) ==
    /\ \A j \in 1..k : adv_table[info_index[j]].free > 0
    /\ info_index[k] \notin Allocated
    /\ \A j \in 1..(k - 1) : info_index[j] \in Allocated

\* One round of get's loop: the first suitable provider is allocated.
get_next ==
    /\ Serving /\ Len(request.adv_list) < request.no_providers
    /\ \E k \in DOMAIN info_index :
          LET p == info_index[k]
              e == [adv_table[p] EXCEPT !.score = @ + 1]
          IN  /\ Suitable(k)
              /\ adv_table' = With(adv_table, p, e)
              /\ info_index' \in Replaced(info_index, adv_table, p, e)
              /\ request' = [request EXCEPT !.adv_list = Append(@, p)]
    /\ overtaken' = (overtaken \/ Overtaken(adv_table'))

get_fails ==
    /\ Serving /\ Len(request.adv_list) < request.no_providers
    /\ \A k \in DOMAIN info_index : ~Suitable(k)
    /\ request' = [request EXCEPT !.status = "eres"]
    /\ UNCHANGED <<adv_table, info_index, overtaken>>

get_succeeds ==
    /\ Serving /\ Len(request.adv_list) >= request.no_providers
    /\ request' = [request EXCEPT !.status = "ok"]
    /\ UNCHANGED <<adv_table, info_index, overtaken>>

\* Mutant: the comparison of the timestamp is the wrong way round.
Expired_Inverted(p) == adv_table[p].life > 0

Expired(p) == adv_table[p].life < 0

\* One round of watchdog_exec's loop.
watchdog_exec(p) ==
    /\ p \in DOMAIN adv_table
    /\ Expired(p)
    /\ adv_table' = [q \in DOMAIN adv_table \ {p} |-> adv_table[q]]
    /\ info_index' = Without(info_index, p)
    /\ UNCHANGED <<request, overtaken>>

\* Time passes.
Tick ==
    /\ adv_table' = [p \in DOMAIN adv_table |->
                        [adv_table[p] EXCEPT !.life = IF @ < 0 THEN @ ELSE @ - 1]]
    /\ UNCHANGED <<info_index, request, overtaken>>

Next ==
    \/ \E p \in Providers, free_space \in FreeSpaces : update(p, free_space)
    \/ \E pages \in PageCounts, replica_no \in ReplicaCounts : get(pages, replica_no)
    \/ get_next
    \/ get_fails
    \/ get_succeeds
    \/ \E p \in Providers : watchdog_exec(p)
    \/ Tick

Spec == Init /\ [][Next]_vars

\* Time passes and the watchdog thread runs.
LiveSpec == Spec /\ WF_vars(Tick) /\ \A p \in Providers : WF_vars(watchdog_exec(p))

-----------------------------------------------------------------------------
(* Properties *)

\* Every variable has its type in adv_manager.hpp, and the index by info
\* lists the providers in the table, each once.
TypeOK ==
    /\ adv_table \in [DOMAIN adv_table -> table_entry]
    /\ DOMAIN adv_table \subseteq Providers
    /\ info_index \in Seq(Providers)
    /\ {info_index[i] : i \in DOMAIN info_index} = DOMAIN adv_table
    /\ Len(info_index) = Cardinality(DOMAIN adv_table)
    /\ request \in request_t
    /\ overtaken \in BOOLEAN

\* Until a full provider is overtaken, the index is in order: no entry is
\* less than one before it, although entries are changed and moved one at a
\* time (update, get), erased in between (watchdog_exec), and providers fill
\* up and get space again.
IndexOrdered ==
    ~overtaken =>
        \A i, j \in DOMAIN info_index :
            i < j => ~Less(adv_table[info_index[j]], adv_table[info_index[i]])

\* The replicas of one page are on different providers, in every reply and
\* while it is put together, even if the watchdog erases some of them
\* meanwhile (get's scan over the last entries of adv_list).
ReplicasApart ==
    LET page(i) == (i - 1) \div request.replica_no
    IN  \A i, j \in DOMAIN request.adv_list :
           (i # j /\ page(i) = page(j)) => request.adv_list[i] # request.adv_list[j]

\* A provider is allocated only if no provider with free space that has no
\* replica of the page yet has a lower score, or the same score and more
\* free space ("The winning provider is the one with the lowest score",
\* adv_manager.hpp:35).
Wins(p) ==
    \A q \in DOMAIN adv_table \ (Allocated \cup {p}) :
        \/ adv_table[q].free = 0
        \/ adv_table[p].score < adv_table[q].score
        \/ adv_table[p].score = adv_table[q].score /\ adv_table[p].free >= adv_table[q].free

\* The above for every allocation until a full provider is overtaken.
LowestScoreWins ==
    [][(~overtaken /\ Len(request'.adv_list) > Len(request.adv_list)) =>
          Wins(request'.adv_list[Len(request'.adv_list)])]_vars

\* get fails only if every provider that has free space already has a
\* replica of the page ("but only if free space is still available on it",
\* adv_manager.hpp:35), although it ends its scan at the first full provider;
\* until a full provider is overtaken, which may then come first in the index
\* and hide the ones with space behind it.
FailsOnlyWhenFull ==
    [][(~overtaken /\ Serving /\ request'.status = "eres") =>
          \A p \in DOMAIN adv_table \ Allocated : adv_table[p].free = 0]_vars

\* A provider that stops reporting is eventually blacklisted: for ever and
\* again it is out of the table, unless it keeps reporting.
SilentProvidersBlacklisted ==
    \A p \in Providers :
        \/ []<>(p \notin DOMAIN adv_table)
        \/ []<><<\E free_space \in FreeSpaces : update(p, free_space)>>_vars
=============================================================================
