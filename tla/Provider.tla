------------------------------ MODULE Provider -------------------------------
(***************************************************************************)
(* A provider: its page store and the listener that tells the provider     *)
(* manager how much space is left (provider/pmgr_listener.cpp).  A report  *)
(* is sent when the provider starts, when a timer goes off, which the      *)
(* answer to a report arms again, and at once when a write takes the last  *)
(* page, whatever the timer is doing.  The manager keeps the value of the  *)
(* last report it receives (adv_manager::update).  The counters of reads,  *)
(* which it never uses, are left out.                                      *)
(***************************************************************************)
EXTENDS PageStore

CONSTANT MaxLost    \* bound: reports whose answer does not come in time

ASSUME ProviderAssumption == MaxLost \in Nat

VARIABLES
    free_space,     \* what the listener last heard from page_manager
    updates,        \* the PUBLISHER_UPDATEs in flight
    late,           \* reports given up that may still be received
    armed,          \* is timeout_timer waiting?
    expired,        \* calls of timeout_callback that it has queued
    known,          \* the free space the manager has for it; -1 if none
    lost            \* reports that got no answer

listenerVars == <<free_space, updates, late, armed, expired, known, lost>>
providerVars == <<vars, listenerVars>>

ProviderInit ==
    /\ Init
    /\ free_space = TotalSpace
    /\ updates = <<TotalSpace>>
    /\ late = {}
    /\ armed = FALSE
    /\ expired = 0
    /\ known = -1
    /\ lost = 0

\* timeout_callback, unless it was aborted: one more report with the free
\* space s is dispatched.
Reported(s) == Append(updates, s)

\* The reports left when the i-th has come to its end, in any order.
Ended(i) == [j \in 1..(Len(updates) - 1) |-> IF j < i THEN updates[j] ELSE updates[j + 1]]

\* update_event: a full provider does not wait for its timer.
AtZero(s) == IF s = 0 THEN Reported(0) ELSE updates

\* Mutant: the hook is called before the page is stored.
FreeInHook_Before(k) == space_left

\* exec_hooks: the store's get_free when write_page has written page k.
FreeInHook(k) == space_left'

\* page_manager::write_page with its hook.
WritePage(k) ==
    /\ write_page(k)
    /\ free_space' = FreeInHook(k)
    /\ updates' = AtZero(free_space')
    /\ UNCHANGED <<late, armed, expired, known, lost>>

\* Reads and the thread of the store, which do not concern the listener.
StoreStep ==
    /\ \/ \E k \in Keys : read_hit(k) \/ read_miss(k)
       \/ write_exec_take \/ write_exec_put \/ write_exec_fails
    /\ UNCHANGED listenerVars

\* The timer expires and queues timeout_callback; a timer that is set again
\* from now on does not take it back.
TimerExpires ==
    /\ armed
    /\ armed' = FALSE
    /\ expired' = expired + 1
    /\ UNCHANGED <<vars, free_space, updates, late, known, lost>>

TimeoutCallback ==
    /\ expired > 0
    /\ expired' = expired - 1
    /\ updates' = Reported(free_space)
    /\ UNCHANGED <<vars, free_space, late, armed, known, lost>>

\* Mutant: the timer is set only after a report that was answered.
Rearmed_IfOk(answered) == armed \/ answered

\* provider_callback, whatever the status: a wait that was set before is
\* aborted, and its timeout_callback does nothing.
Rearmed(answered) == TRUE

\* adv_manager::update and the answer.
UpdateReceived(i) ==
    /\ known' = updates[i]
    /\ updates' = Ended(i)
    /\ armed' = Rearmed(TRUE)
    /\ UNCHANGED <<vars, free_space, late, expired, lost>>

\* The exchange fails; the manager may have received the report, or receive
\* it later.
UpdateFails(i) ==
    /\ lost < MaxLost
    /\ lost' = lost + 1
    /\ late' \in {late, late \cup {updates[i]}}
    /\ updates' = Ended(i)
    /\ armed' = Rearmed(FALSE)
    /\ UNCHANGED <<vars, free_space, expired, known>>

LateReceived(r) ==
    /\ known' = r
    /\ late' = late \ {r}
    /\ UNCHANGED <<vars, free_space, updates, armed, expired, lost>>

\* The provider is restarted; its new listener reports at once.  A report
\* that was in flight is received or lost.
Restart ==
    /\ restart
    /\ free_space' = TotalSpace
    /\ updates' = <<TotalSpace>>
    /\ known' \in {known} \cup Elements(updates)
    /\ armed' = FALSE
    /\ expired' = 0
    /\ UNCHANGED <<late, lost>>

ProviderNext ==
    \/ \E k \in Keys : WritePage(k)
    \/ StoreStep
    \/ TimerExpires
    \/ TimeoutCallback
    \/ \E i \in DOMAIN updates : UpdateReceived(i) \/ UpdateFails(i)
    \/ \E r \in late : LateReceived(r)
    \/ Restart

\* The writer thread and the io_service run for ever, time passes, and
\* rpc_client answers or gives up every request.
ProviderSpec ==
    /\ ProviderInit /\ [][ProviderNext]_providerVars
    /\ WF_providerVars(write_exec_take /\ UNCHANGED listenerVars)
    /\ WF_providerVars(write_exec_put /\ UNCHANGED listenerVars)
    /\ WF_providerVars(TimerExpires)
    /\ WF_providerVars(TimeoutCallback)
    /\ WF_providerVars(\E i \in DOMAIN updates : UpdateReceived(i))
    /\ WF_providerVars(\E r \in late : LateReceived(r))

-----------------------------------------------------------------------------
(* Properties *)

\* How many reports are under way or will come from the timer.
Chains == Len(updates) + expired + (IF armed THEN 1 ELSE 0)

\* The provider never stops reporting, whatever reports fail and however the
\* report of the last page overlaps the timer's, and nothing adds to this one
\* extra report: timeout_callback sets no timer itself, and provider_callback
\* takes over from the wait it aborts.
ReportingAlive == Chains \in 1..(IF space_left = 0 THEN 2 ELSE 1)

\* Once the provider takes no more writes, the manager's figure becomes right
\* and stays right, although reports overtake each other and failed ones are
\* received late: a full provider is not allocated for ever.
ReportsCatchUp == <>[](known = space_left)
=============================================================================
