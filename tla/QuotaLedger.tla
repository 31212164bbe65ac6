---------------------------- MODULE QuotaLedger ----------------------------
(***************************************************************************)
(* Virtual keys of a gateway that keeps them in SQLite (quotas.py,          *)
(* SQLiteQuotaStorage under VirtualKeyManager): the accounts in memory, the *)
(* rows of virtual_keys, and the increments of a row that wait in the       *)
(* write-behind queue between the two, under calls that are authorised      *)
(* before the upstream request and charged after it.                        *)
(*                                                                         *)
(* Registration and upgrade write their row at once, past the queue.       *)
(* SnapshotStore models the queue itself; here its worker commits or loses  *)
(* one increment at a time, which is a batch seen increment by increment.   *)
(***************************************************************************)
EXTENDS Integers, Sequences, FiniteSets

CONSTANTS
    Keys,        \* virtual keys
    Admin,       \* the key configured as ADMIN_API_KEY
    Plans,       \* what a key may be registered with or upgraded to: [budget, rate]
    AdminPlan,   \* what _seed_default_keys gives the administrator
    Slots,       \* requests the gateway can have in flight
    MaxCost,     \* the most an upstream call costs
    Reserves,    \* what callers reserve when they ask for authorisation
    RequireAuth, \* config.REQUIRE_AUTH
    DbFaults,    \* whether a transaction may fail
    Crashes,     \* whether the process may stop and start again
    QueueMax,    \* bound: increments of one key in the queue
    MaxOps,      \* bound: requests, registrations, upgrades and restarts
    NoKey        \* no account, or no row, for a key

(* monthly_budget_usd and rate_limit_rpm are the plan, current_spend_usd the spend, *)
(* and the window counts request_timestamps.                                      *)
Account   == [plan : Plans, spend : Int, window : Nat]
Row       == [plan : Plans, spend : Int]
Increment == [amount : Int, after : Int]
Call      == [key : Keys, reserved : Nat]

ASSUME QuotaAssumption ==
    /\ Admin \in Keys
    /\ Plans \subseteq [budget : Nat, rate : Nat]
    /\ AdminPlan \in Plans
    /\ IsFiniteSet(Slots) /\ MaxCost \in Nat
    /\ Reserves \subseteq Nat
    /\ RequireAuth \in BOOLEAN /\ DbFaults \in BOOLEAN /\ Crashes \in BOOLEAN
    /\ QueueMax \in Nat /\ MaxOps \in Nat
    /\ NoKey \notin Account /\ NoKey \notin Row /\ NoKey \notin Call

VARIABLES
    info,    \* _keys: the account of each key in memory
    row,     \* virtual_keys: the row of each key in SQLite
    queue,   \* each key's increments in the write-behind queue; "after" is history:
             \* what the key had spent once the increment was made
    call,    \* for each slot, the key it runs for and what it reserved
    cap,     \* history: the largest budget of the key since it was registered
    under,   \* history: a call of the key was let in with less than it may cost reserved
    muddled, \* history: the row was written past queued increments, or a write or the
             \* load of it failed
    ops      \* how much of MaxOps is used

vars == <<info, row, queue, call, cap, under, muddled, ops>>

TypeOK ==
    /\ info \in [Keys -> Account \cup {NoKey}]
    /\ row \in [Keys -> Row \cup {NoKey}]
    /\ queue \in [Keys -> Seq(Increment)]
    /\ call \in [Slots -> Call \cup {NoKey}]
    /\ cap \in [Keys -> Nat]
    /\ under \in [Keys -> BOOLEAN] /\ muddled \in [Keys -> BOOLEAN]
    /\ ops \in 0..MaxOps

(* A fresh database, on which _seed_default_keys registers the administrator. *)
Init ==
    /\ info = [k \in Keys |-> IF k = Admin THEN [plan |-> AdminPlan, spend |-> 0, window |-> 0] ELSE NoKey]
    /\ row = [k \in Keys |-> IF k = Admin THEN [plan |-> AdminPlan, spend |-> 0] ELSE NoKey]
    /\ queue = [k \in Keys |-> <<>>]
    /\ call = [s \in Slots |-> NoKey]
    /\ cap = [k \in Keys |-> IF k = Admin THEN AdminPlan.budget ELSE 0]
    /\ under = [k \in Keys |-> FALSE] /\ muddled = [k \in Keys |-> FALSE]
    /\ ops = 0

Counts == ops < MaxOps /\ ops' = ops + 1

Registered(k) == info[k] # NoKey

-----------------------------------------------------------------------------
(* Registration and upgrade. *)

(* save_virtual_key replaces the row in a transaction of its own, whose failure *)
(* _process_batch swallows; what it writes knows nothing of the queue.          *)
Save(k, plan, spend, saved) ==
    /\ saved \/ DbFaults
    /\ row' = IF saved THEN [row EXCEPT ![k] = [plan |-> plan, spend |-> spend]] ELSE row

PassesQueue(k, saved) == ~saved \/ queue[k] # <<>>

(* register_key starts the account from nothing, also that of a key it knows. *)
Register(k, plan, saved) ==
    /\ Counts
    /\ info' = [info EXCEPT ![k] = [plan |-> plan, spend |-> 0, window |-> 0]]
    /\ Save(k, plan, 0, saved)
    /\ cap' = [cap EXCEPT ![k] = plan.budget]
    /\ muddled' = [muddled EXCEPT ![k] = PassesQueue(k, saved)]
    /\ UNCHANGED <<queue, call, under>>

(* upgrade_key, which handlers call for a key that is in memory: the budget may *)
(* also shrink, and the row takes the spend in memory, queued increments included. *)
Upgrade(k, plan, saved) ==
    /\ Registered(k)
    /\ Counts
    /\ info' = [info EXCEPT ![k].plan = plan]
    /\ Save(k, plan, info[k].spend, saved)
    /\ cap' = [cap EXCEPT ![k] = IF plan.budget > @ THEN plan.budget ELSE @]
    /\ muddled' = [muddled EXCEPT ![k] = @ \/ PassesQueue(k, saved)]
    /\ UNCHANGED <<queue, call, under>>

-----------------------------------------------------------------------------
(* Requests. *)

\* Mutant: a refund is not queued for the row.
Book_KeepsRefunds(k, account, amount) ==
    LET after == account.spend + amount
    IN  /\ info' = [info EXCEPT ![k] = [account EXCEPT !.spend = after]]
        /\ IF amount <= 0
             THEN queue' = queue
             ELSE /\ Len(queue[k]) < QueueMax
                  /\ queue' = [queue EXCEPT ![k] = Append(@, [amount |-> amount, after |-> after])]

(* Adds to the spend in memory and queues the same increment for the row. *)
Book(k, account, amount) ==
    LET after == account.spend + amount
    IN  /\ info' = [info EXCEPT ![k] = [account EXCEPT !.spend = after]]
        /\ IF amount = 0
             THEN queue' = queue
             ELSE /\ Len(queue[k]) < QueueMax
                  /\ queue' = [queue EXCEPT ![k] = Append(@, [amount |-> amount, after |-> after])]

(* One more request in the sliding window. *)
Counted(k) == [info[k] EXCEPT !.window = @ + 1]

\* Mutant: the budget is compared before the reservation is added.
InBudget_Before(k, a) == info[k].spend <= info[k].plan.budget

InRate(k)      == info[k].window < info[k].plan.rate
InBudget(k, a) == info[k].spend + a <= info[k].plan.budget

Begin(s, k, a) ==
    /\ call[s] = NoKey
    /\ Counts
    /\ call' = [call EXCEPT ![s] = [key |-> k, reserved |-> a]]
    /\ under' = [under EXCEPT ![k] = @ \/ a < MaxCost]

(* check_authorization of a tenant: the rate limit, then the budget. *)
Admit(s, k, a) ==
    /\ Registered(k) /\ k # Admin
    /\ InRate(k) /\ InBudget(k, a)
    /\ Book(k, Counted(k), a)
    /\ Begin(s, k, a)
    /\ UNCHANGED <<row, cap, muddled>>

(* A request refused for its budget has used up a place in the window. *)
Refuse(k, a) ==
    /\ Registered(k) /\ k # Admin
    /\ InRate(k) /\ ~InBudget(k, a)
    /\ Counts
    /\ info' = [info EXCEPT ![k] = Counted(k)]
    /\ UNCHANGED <<row, queue, call, cap, under, muddled>>

(* Nobody checks the administrator or, without REQUIRE_AUTH, an unknown key. *)
Bypass(s, k) ==
    /\ k = Admin \/ (~Registered(k) /\ ~RequireAuth)
    /\ Begin(s, k, 0)
    /\ UNCHANGED <<info, row, queue, cap, muddled>>

\* Mutant: the call stays, so that a retry charges it again.
Charge_KeepsCall(s, cost) ==
    LET k == call[s].key
    IN  /\ call[s] # NoKey
        /\ Registered(k)
        /\ Book(k, info[k], cost - call[s].reserved)
        /\ UNCHANGED <<row, call, cap, under, muddled, ops>>

(* The upstream answers: record_spend, or reconcile_spend after a reservation. *)
(* A key that is not registered is charged nothing.                            *)
Charge(s, cost) ==
    LET k == call[s].key
    IN  /\ call[s] # NoKey
        /\ IF Registered(k)
             THEN Book(k, info[k], cost - call[s].reserved)
             ELSE UNCHANGED <<info, queue>>
        /\ call' = [call EXCEPT ![s] = NoKey]
        /\ UNCHANGED <<row, cap, under, muddled, ops>>

\* Mutant: nothing says the window holds a request.
Slide_Anyhow(k) ==
    /\ Registered(k)
    /\ info' = [info EXCEPT ![k].window = @ - 1]
    /\ UNCHANGED <<row, queue, call, cap, under, muddled, ops>>

(* A request leaves the sliding window of 60 seconds. *)
Slide(k) ==
    /\ Registered(k) /\ info[k].window > 0
    /\ info' = [info EXCEPT ![k].window = @ - 1]
    /\ UNCHANGED <<row, queue, call, cap, under, muddled, ops>>

-----------------------------------------------------------------------------
(* The worker of the store, and restarts. *)

(* UPDATE virtual_keys SET current_spend_usd = current_spend_usd + ? *)
Commit(k) ==
    /\ queue[k] # <<>>
    /\ queue' = [queue EXCEPT ![k] = Tail(@)]
    /\ row' = IF row[k] = NoKey THEN row
              ELSE [row EXCEPT ![k].spend = @ + Head(queue[k]).amount]
    /\ UNCHANGED <<info, call, cap, under, muddled, ops>>

(* The transaction fails and the worker goes on without the increment. *)
Lose(k) ==
    /\ DbFaults
    /\ queue[k] # <<>>
    /\ queue' = [queue EXCEPT ![k] = Tail(@)]
    /\ muddled' = [muddled EXCEPT ![k] = TRUE]
    /\ UNCHANGED <<info, row, call, cap, under, ops>>

(* The process stops, with its queue, its windows and its calls, and starts on *)
(* the rows: _load_from_db, then _seed_default_keys, which registers the       *)
(* administrator anew. Rows that cannot be loaded are taken for none. Nothing  *)
(* closes the store when the gateway stops.                                    *)
Restart(loaded) ==
    /\ Crashes
    /\ loaded \/ DbFaults
    /\ Counts
    /\ row' = [row EXCEPT ![Admin] = [plan |-> AdminPlan, spend |-> 0]]
    /\ info' = [k \in Keys |-> IF row'[k] = NoKey \/ ~(loaded \/ k = Admin) THEN NoKey
                               ELSE [plan |-> row'[k].plan, spend |-> row'[k].spend, window |-> 0]]
    /\ queue' = [k \in Keys |-> <<>>]
    /\ call' = [s \in Slots |-> NoKey]
    /\ muddled' = [k \in Keys |-> muddled[k] \/ (row'[k] # NoKey /\ info'[k] = NoKey)]
    /\ UNCHANGED <<cap, under>>

Next ==
    \/ \E k \in Keys, p \in Plans, saved \in BOOLEAN : Register(k, p, saved) \/ Upgrade(k, p, saved)
    \/ \E s \in Slots, k \in Keys, a \in Reserves : Admit(s, k, a)
    \/ \E k \in Keys, a \in Reserves : Refuse(k, a)
    \/ \E s \in Slots, k \in Keys : Bypass(s, k)
    \/ \E s \in Slots, cost \in 0..MaxCost : Charge(s, cost)
    \/ \E k \in Keys : Slide(k) \/ Commit(k) \/ Lose(k)
    \/ \E loaded \in BOOLEAN : Restart(loaded)

Spec == Init /\ [][Next]_vars

-----------------------------------------------------------------------------
(* Properties. *)

Tenant(k) == Registered(k) /\ k # Admin

(* A key all of whose calls reserve what they may cost never passes its budget, *)
(* over reservations and refunds of concurrent calls, upgrades, registrations   *)
(* and restarts on a ledger that lags: check-and-reserve is one step, and       *)
(* reconcile_spend only gives back. Keys whose row was muddled are left out:    *)
(* they may restart on a spend nobody made.                                     *)
BudgetHolds ==
    \A k \in Keys : Tenant(k) /\ ~under[k] /\ ~muddled[k] => info[k].spend <= cap[k]

(* However little its calls reserve (the gateway's reserve nothing), a key       *)
(* passes its budget by no more than the calls that can be in flight together    *)
(* cost: check_authorization closes the door before the next ones.               *)
OvershootBounded ==
    \A k \in Keys : Tenant(k) /\ ~muddled[k] =>
        info[k].spend <= cap[k] + Cardinality(Slots) * MaxCost

(* Once the worker has caught up, the row of a key holds what memory says it has *)
(* spent, so that a restart then changes no spend: each change of the one queued *)
(* the same change of the other.                                                 *)
DurableWhenDrained ==
    \A k \in Keys : Registered(k) /\ ~muddled[k] /\ queue[k] = <<>> =>
        row[k] # NoKey /\ row[k].spend = info[k].spend

(* "check-and-reserve spend protection against TOCTOU races": no key spends more *)
(* than its budget.                                                              *)
BudgetIsACap == \A k \in Keys : Tenant(k) => info[k].spend <= cap[k]

(* "Ensures virtual key registrations and spend survive restarts": once nothing  *)
(* is queued, the row of each key holds the spend in memory.                     *)
SpendSurvivesRestart ==
    \A k \in Keys : Tenant(k) /\ queue[k] = <<>> =>
        row[k] # NoKey /\ row[k].spend = info[k].spend

=============================================================================
