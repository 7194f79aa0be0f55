---------------------------- MODULE BudgetLedger ----------------------------
(***************************************************************************)
(* The LLM budget of device-service: budget_ledger.py (the ledger rows,    *)
(* budget_reserve, budget_settle) and classify_under_budget of             *)
(* discovery_pipeline.py, run by several calls at once, with the part of   *)
(* Classifier.classify that costs money.                                   *)
(*                                                                         *)
(* Every database transaction is one step: the advisory lock               *)
(* "budget:<provider>:<period>" is its first statement, so the read, the   *)
(* decision and the upsert of a transaction are not interleaved with those *)
(* of another one on the same row.  Costs are multiples of one unit.       *)
(*                                                                         *)
(* held, leaked, spent and billed are history variables: the program does  *)
(* not have them.  A definition marked "Faulty" is no part of the model: it *)
(* is a plausible bug that the properties are shown to notice.             *)
(***************************************************************************)
EXTENDS Naturals, FiniteSets

CONSTANTS
  Calls,        \* slots for concurrent classify_under_budget calls
  Metered,      \* the providers that are not "mock"
  Budget,       \* [Providers -> Nat] monthly cap, 0 means "no cap"
  CallEst,      \* [Providers -> Nat] reserve_estimate of one model call
  CallCosts,    \* [Providers -> SUBSET Nat] what one model call may cost
  CallExcess,   \* [Providers -> Nat] how far that may exceed the estimate
  Retries,      \* llm_retries
  LastMonth,    \* bound: the calendar stops here
  MaxStarts,    \* bound: classifications started in a behaviour
  Faults        \* the faults the environment may produce

Providers == {"l1", "guardrail"}
Months    == 0..LastMonth
Accounts  == Providers \X Months         \* UNIQUE (period_start, provider)

FaultKinds == {
  "raise",        \* an exception or a cancellation outside the ledger
  "abort",        \* a ledger transaction fails and rolls back
  "reserve_ack",  \* a reserve commits, its acknowledgement is lost
  "settle_ack",   \* a settle commits, its acknowledgement is lost
  "crash" }       \* a process dies and is restarted

ASSUME ConstantsAssumption ==
  /\ IsFiniteSet(Calls)
  /\ Metered \subseteq Providers
  /\ Budget  \in [Providers -> Nat]
  /\ CallEst \in [Providers -> Nat]
  /\ CallCosts \in [Providers -> SUBSET Nat]
  /\ CallExcess \in [Providers -> Nat]
  /\ Retries \in Nat \ {0}
  /\ LastMonth \in Nat
  /\ MaxStarts \in Nat
  /\ Faults \subseteq FaultKinds

(* The estimate is a fixed number of tokens, the prompt is not: a call may *)
(* cost more, though no more than the context window of the model allows.  *)
ASSUME CostsAreBounded ==
  \A p \in Providers : \A b \in CallCosts[p] : b <= CallEst[p] + CallExcess[p]

VARIABLES
  month,        \* the current calendar month
  starts,       \* classifications started so far
  cost,         \* cost_usd of each ledger row (0 where there is no row)
  pc,           \* where each call is
  period,       \* period_start, computed once per call
  reserved,     \* reserved_l1 / reserved_g
  denied,       \* not budget_ok / not guardrail_ok
  settled,      \* settled / g_settled
  used,         \* token cost each layer reported to the call
  result,       \* what Classifier.classify returned
  tries,        \* L1 attempts made by the call
  held,         \* history: reservations of the call the ledger holds
  leaked,       \* history: reservations the ledger holds for no call
  spent,        \* history: settled actual costs
  billed        \* history: what the model APIs charged

flags   == <<reserved, denied, settled>>
answer  == <<used, result, tries>>
books   == <<cost, held, spent>>
vars    == <<month, starts, cost, pc, period, reserved, denied, settled,
             used, result, tries, held, leaked, spent, billed>>

-----------------------------------------------------------------------------
(* Stages of a call, in the order of the code.                             *)

ReserveAt == [l1 |-> "reserve_l1", guardrail |-> "reserve_g"]
SettleAt  == [l1 |-> "settle_l1",  guardrail |-> "settle_g"]
RefundAt  == [l1 |-> "refund_l1",  guardrail |-> "refund_g"]

(* L1 comes before the guardrail in each of the three blocks.              *)
UpTo == [l1 |-> {"l1"}, guardrail |-> Providers]

(* The stage of the first provider of S, or the stage after the block.     *)
FirstOf(At, S, after) ==
  IF "l1" \in S THEN At["l1"]
  ELSE IF "guardrail" \in S THEN At["guardrail"] ELSE after

(* Faulty: the finally block is missing.                                    *)
Finally_Missing(unsettled) == "exit"

(* The finally block: a refund for each reservation not marked settled.    *)
Finally(unsettled) == FirstOf(RefundAt, unsettled, "exit")

Labels == {"idle", "reserve_l1", "reserve_g", "classify", "l1", "post",
           "persist", "settle_l1", "settle_g", "refund_l1", "refund_g", "exit"}

(* The code between the reserves and the settles, where nothing is caught. *)
Unprotected == {"classify", "l1", "post", "persist"}

(* Faulty: one guardrail call is reserved, two are made.                    *)
Est_OneCheck(p) == CallEst[p]

(* The guardrail is reserved for its two calls, before and after L1.       *)
Est(p) == IF p = "guardrail" THEN 2 * CallEst[p] ELSE CallEst[p]

(* How far the cost of a classification may exceed what is reserved.       *)
Excess(p) == IF p = "guardrail" THEN 2 * CallExcess[p] ELSE CallExcess[p]

NoUsage == [p \in Providers |-> 0]

(* What one model call may cost; a mock provider is free.                  *)
Price(p) == IF p \in Metered THEN CallCosts[p] ELSE {0}

(* Faulty: the month is looked up again at every ledger access.             *)
Row_Today(c, p) == <<p, month>>

Row(c, p) == <<p, period[c]>>

Holders(a) == {c \in Calls : a[1] \in held[c] /\ period[c] = a[2]}

Goto(c, label) == pc' = [pc EXCEPT ![c] = label]

Charge(c, p, amount) == billed' = [billed EXCEPT ![Row(c, p)] = @ + amount]

-----------------------------------------------------------------------------
Init ==
  /\ month = 0
  /\ starts = 0
  /\ cost     = [a \in Accounts |-> 0]
  /\ pc       = [c \in Calls |-> "idle"]
  /\ period   = [c \in Calls |-> 0]
  /\ reserved = [c \in Calls |-> {}]
  /\ denied   = [c \in Calls |-> {}]
  /\ settled  = [c \in Calls |-> {}]
  /\ used     = [c \in Calls |-> NoUsage]
  /\ result   = [c \in Calls |-> "none"]
  /\ tries    = [c \in Calls |-> 0]
  /\ held     = [c \in Calls |-> {}]
  /\ leaked   = [a \in Accounts |-> 0]
  /\ spent    = [a \in Accounts |-> 0]
  /\ billed   = [a \in Accounts |-> 0]

(* classify_under_budget is entered: the period is computed once.          *)
Start(c) ==
  /\ pc[c] = "idle"
  /\ starts < MaxStarts
  /\ starts' = starts + 1
  /\ period' = [period EXCEPT ![c] = month]
  /\ Goto(c, FirstOf(ReserveAt, Metered, "classify"))
  /\ UNCHANGED <<month, flags, answer, books, leaked, billed>>

-----------------------------------------------------------------------------
(* budget_reserve                                                          *)

(* Faulty: the estimate is left out of the comparison.                      *)
OverBudget_NoEstimate(c, p) == Budget[p] > 0 /\ cost[Row(c, p)] >= Budget[p]

OverBudget(c, p) ==
  Budget[p] > 0 /\ cost[Row(c, p)] + Est(p) > Budget[p]

(* The upsert of a granted reservation.                                    *)
Hold(c, p) ==
  /\ cost' = [cost EXCEPT ![Row(c, p)] = @ + Est(p)]
  /\ held' = [held EXCEPT ![c] = @ \cup {p}]
  /\ UNCHANGED spent

ReserveGranted(c, p) ==
  /\ pc[c] = ReserveAt[p]
  /\ ~OverBudget(c, p)
  /\ Hold(c, p)
  /\ reserved' = [reserved EXCEPT ![c] = @ \cup {p}]
  /\ Goto(c, FirstOf(ReserveAt, Metered \ UpTo[p], "classify"))
  /\ UNCHANGED <<month, starts, period, denied, settled, answer, leaked, billed>>

(* Faulty: wait until the budget allows it.                                 *)
ReserveDenied_Waits(c, p) ==
  pc[c] = ReserveAt[p] /\ OverBudget(c, p) /\ UNCHANGED vars

ReserveDenied(c, p) ==
  /\ pc[c] = ReserveAt[p]
  /\ OverBudget(c, p)
  /\ denied' = [denied EXCEPT ![c] = @ \cup {p}]
  /\ Goto(c, FirstOf(ReserveAt, Metered \ UpTo[p], "classify"))
  /\ UNCHANGED <<month, starts, period, reserved, settled, answer, books,
                 leaked, billed>>

(* The reserve transaction raises: rolled back, or committed without the   *)
(* service hearing of it.  reserved_* stays False either way.              *)
ReserveRaises(c, p) ==
  /\ pc[c] = ReserveAt[p]
  /\ \/ "abort" \in Faults /\ UNCHANGED books
     \/ "reserve_ack" \in Faults /\ ~OverBudget(c, p) /\ Hold(c, p)
  /\ Goto(c, Finally(reserved[c] \ settled[c]))
  /\ UNCHANGED <<month, starts, period, flags, answer, leaked, billed>>

-----------------------------------------------------------------------------
(* Classifier.classify, as far as it costs money.                          *)

Fallback(c) ==
  /\ result' = [result EXCEPT ![c] = "fallback"]
  /\ Goto(c, "persist")

(* budget_exhausted, guardrail_budget_exhausted: neither layer is called.  *)
BudgetFallback(c) ==
  /\ pc[c] = "classify"
  /\ denied[c] # {}
  /\ Fallback(c)
  /\ UNCHANGED <<month, starts, period, flags, used, tries, books, leaked, billed>>

(* The cached outcome still carries the usage of the call that filled it.  *)
CacheHit(c) ==
  /\ pc[c] = "classify"
  /\ denied[c] = {}
  /\ \E u \in [Providers -> UNION {Price(p) : p \in Providers}] :
       /\ \A p \in Providers : u[p] \in Price(p)
       /\ used' = [used EXCEPT ![c] = u]
  /\ result' = [result EXCEPT ![c] = "cache"]
  /\ Goto(c, "persist")
  /\ UNCHANGED <<month, starts, period, flags, tries, books, leaked, billed>>

(* One guardrail check.  A verdict carries the usage of its model call; a   *)
(* block by the token-free rules, an error and an answer that cannot be    *)
(* parsed carry none, although the last one was charged.                   *)
Judge(c, onPass) ==
  \/ \E b \in Price("guardrail") :
       /\ Charge(c, "guardrail", b)
       /\ used' = [used EXCEPT ![c]["guardrail"] = @ + b]
       /\ onPass \/ Fallback(c)
  \/ \E b \in Price("guardrail") \cup {0} :
       /\ Charge(c, "guardrail", b)
       /\ used' = used
       /\ Fallback(c)

(* Faulty: only the L1 budget stops the classification.                     *)
PreCheck_L1Only(c) ==
  /\ pc[c] = "classify"
  /\ "l1" \notin denied[c]
  /\ Judge(c, result' = result /\ Goto(c, "l1"))
  /\ UNCHANGED <<month, starts, period, flags, tries, books, leaked>>

PreCheck(c) ==
  /\ pc[c] = "classify"
  /\ denied[c] = {}
  /\ Judge(c, result' = result /\ Goto(c, "l1"))
  /\ UNCHANGED <<month, starts, period, flags, tries, books, leaked>>

L1Answers(c) ==
  /\ pc[c] = "l1"
  /\ \E b \in Price("l1") :
       /\ Charge(c, "l1", b)
       /\ used' = [used EXCEPT ![c]["l1"] = b]
  /\ tries' = [tries EXCEPT ![c] = @ + 1]
  /\ Goto(c, "post")
  /\ UNCHANGED <<month, starts, period, flags, result, books, leaked>>

(* Faulty: one attempt too many.                                            *)
GivesUp_Late(c) == tries[c] + 1 > Retries

(* for _ in range(retries): the attempts are used up.                       *)
GivesUp(c) == tries[c] + 1 >= Retries

(* A ProviderError: the request may have been billed all the same.         *)
L1Fails(c) ==
  /\ pc[c] = "l1"
  /\ \E b \in Price("l1") \cup {0} : Charge(c, "l1", b)
  /\ tries' = [tries EXCEPT ![c] = @ + 1]
  /\ IF GivesUp(c) THEN Fallback(c) ELSE UNCHANGED <<pc, result>>
  /\ UNCHANGED <<month, starts, period, flags, used, books, leaked>>

(* The post-check passes and the output validator accepts, or not.         *)
PostCheck(c) ==
  /\ pc[c] = "post"
  /\ Judge(c, \/ Fallback(c)
              \/ result' = [result EXCEPT ![c] = "llm"] /\ Goto(c, "persist"))
  /\ UNCHANGED <<month, starts, period, flags, tries, books, leaked>>

(* persist_outcome, in a transaction of its own under the device lock.     *)
Persist(c) ==
  /\ pc[c] = "persist"
  /\ Goto(c, FirstOf(SettleAt, reserved[c],
                     Finally(reserved[c] \ settled[c])))
  /\ UNCHANGED <<month, starts, period, flags, answer, books, leaked, billed>>

(* Anything between the reserves and the settles may raise.                *)
Raise(c) ==
  /\ "raise" \in Faults
  /\ pc[c] \in Unprotected
  /\ Goto(c, Finally(reserved[c] \ settled[c]))
  /\ UNCHANGED <<month, starts, period, flags, answer, books, leaked, billed>>

-----------------------------------------------------------------------------
(* budget_settle                                                           *)

(* Faulty: the usage a cached outcome carries is settled again.             *)
Actual_CachedUsage(c, p) ==
  IF result[c] = "fallback" /\ p = "l1" THEN 0 ELSE used[c][p]

(* The token cost handed to budget_settle on the normal path.              *)
Actual(c, p) ==
  CASE result[c] = "cache"                  -> 0
    [] result[c] = "fallback" /\ p = "l1"   -> 0
    [] OTHER                                -> used[c][p]

(* GREATEST(0, cost_usd + actual - reserved_est)                           *)
Reconcile(row, p, actual) ==
  IF cost[row] + actual >= Est(p) THEN (cost[row] + actual) - Est(p) ELSE 0

Settle(c, p, actual) ==
  /\ cost'  = [cost EXCEPT ![Row(c, p)] = Reconcile(Row(c, p), p, actual)]
  /\ held'  = [held EXCEPT ![c] = @ \ {p}]
  /\ spent' = [spent EXCEPT ![Row(c, p)] = @ + actual]

(* Faulty: the settled flag is not set.                                     *)
SettleCall_NotMarked(c, p) ==
  /\ pc[c] = SettleAt[p]
  /\ Settle(c, p, Actual(c, p))
  /\ Goto(c, FirstOf(SettleAt, reserved[c] \ UpTo[p],
                     Finally(reserved[c] \ settled[c])))
  /\ UNCHANGED <<month, starts, period, flags, answer, leaked, billed>>

SettleCall(c, p) ==
  /\ pc[c] = SettleAt[p]
  /\ Settle(c, p, Actual(c, p))
  /\ settled' = [settled EXCEPT ![c] = @ \cup {p}]
  /\ Goto(c, FirstOf(SettleAt, reserved[c] \ UpTo[p],
                     Finally(reserved[c] \ settled'[c])))
  /\ UNCHANGED <<month, starts, period, reserved, denied, answer, leaked, billed>>

SettleRaises(c, p) ==
  /\ pc[c] = SettleAt[p]
  /\ \/ "abort" \in Faults /\ UNCHANGED books
     \/ "settle_ack" \in Faults /\ Settle(c, p, Actual(c, p))
  /\ Goto(c, Finally(reserved[c] \ settled[c]))
  /\ UNCHANGED <<month, starts, period, flags, answer, leaked, billed>>

(* The finally block.  A failing refund is suppressed, so it goes on with  *)
(* or without having committed.                                            *)
Refund(c, p) ==
  /\ pc[c] = RefundAt[p]
  /\ \/ Settle(c, p, 0)
     \/ "abort" \in Faults /\ UNCHANGED books
  /\ Goto(c, Finally((reserved[c] \ settled[c]) \ UpTo[p]))
  /\ UNCHANGED <<month, starts, period, flags, answer, leaked, billed>>

(* The calls of S are over: their local variables are gone, and what the   *)
(* ledger still holds for them no one will release.                        *)
Over(S) ==
  LET Cleared(f, default) == [c \in Calls |-> IF c \in S THEN default ELSE f[c]]
  IN /\ leaked' = [a \in Accounts |->
                     leaked[a] + Cardinality(Holders(a) \cap S)]
     /\ pc'       = Cleared(pc, "idle")
     /\ period'   = Cleared(period, 0)
     /\ reserved' = Cleared(reserved, {})
     /\ denied'   = Cleared(denied, {})
     /\ settled'  = Cleared(settled, {})
     /\ used'     = Cleared(used, NoUsage)
     /\ result'   = Cleared(result, "none")
     /\ tries'    = Cleared(tries, 0)
     /\ held'     = Cleared(held, {})
     /\ UNCHANGED <<month, starts, cost, spent, billed>>

Exit(c) == pc[c] = "exit" /\ Over({c})

(* A process dies with every call in it; the ledger survives.  The MCP      *)
(* server and device-service are two processes on one ledger.              *)
Crash ==
  /\ "crash" \in Faults
  /\ \E S \in SUBSET Calls : (\E c \in S : pc[c] # "idle") /\ Over(S)

(* A new calendar month begins, calls in flight or not.                    *)
NextMonth ==
  /\ month < LastMonth
  /\ month' = month + 1
  /\ UNCHANGED <<starts, cost, pc, period, flags, answer, held, leaked, spent,
                 billed>>

-----------------------------------------------------------------------------
(* The steps the event loop takes by itself once a call is running.        *)
Progress(c) ==
  \/ BudgetFallback(c) \/ CacheHit(c) \/ PreCheck(c)
  \/ L1Answers(c) \/ L1Fails(c) \/ PostCheck(c) \/ Persist(c) \/ Exit(c)
  \/ \E p \in Providers :
       \/ ReserveGranted(c, p) \/ ReserveDenied(c, p)
       \/ SettleCall(c, p) \/ Refund(c, p)

Failure(c) ==
  \/ Raise(c)
  \/ \E p \in Providers : ReserveRaises(c, p) \/ SettleRaises(c, p)

Next ==
  \/ \E c \in Calls : Start(c) \/ Progress(c) \/ Failure(c)
  \/ Crash
  \/ NextMonth

Spec == Init /\ [][Next]_vars

(* Every await of a running call returns: the SDKs and the database driver *)
(* time out, and the event loop is fair to its tasks.                      *)
FairSpec == Spec /\ \A c \in Calls : WF_vars(Progress(c))

-----------------------------------------------------------------------------
(* Properties.                                                             *)

TypeOK ==
  /\ month \in Months
  /\ starts \in 0..MaxStarts
  /\ cost     \in [Accounts -> Nat]
  /\ pc       \in [Calls -> Labels]
  /\ period   \in [Calls -> Months]
  /\ reserved \in [Calls -> SUBSET Metered]
  /\ denied   \in [Calls -> SUBSET Metered]
  /\ settled  \in [Calls -> SUBSET Metered]
  /\ used     \in [Calls -> [Providers -> Nat]]
  /\ result   \in [Calls -> {"none", "cache", "llm", "fallback"}]
  /\ tries    \in [Calls -> 0..Retries]
  /\ held     \in [Calls -> SUBSET Metered]
  /\ leaked   \in [Accounts -> Nat]
  /\ spent    \in [Accounts -> Nat]
  /\ billed   \in [Accounts -> Nat]

(* Reservations an account's row still carries.                            *)
Outstanding(a) == Cardinality(Holders(a)) + leaked[a]

(* A ledger row is exactly the settled actual costs plus one estimate per  *)
(* outstanding reservation: reserve, settle and refund of concurrent calls *)
(* lose no update, hit the month they reserved in and never clamp at 0.    *)
Conservation ==
  \A a \in Accounts : cost[a] = spent[a] + Est(a[1]) * Outstanding(a)

(* FR-329 / ADR-014: a capped row passes its cap by what the calls that    *)
(* settled cost more than their estimates, and at most one per slot: while *)
(* the row is over its cap nothing is granted, in whatever order reserves, *)
(* settles, refunds and crashes come.                                      *)
OverrunBounded ==
  \A a \in Accounts : Budget[a[1]] > 0 =>
    cost[a] <= Budget[a[1]]
                 + Excess(a[1]) * (Cardinality(Calls) - Cardinality(Holders(a)))

(* "Hard cap": cost_usd of a capped row never exceeds the cap.  The code   *)
(* keeps this only as long as no call costs more than its estimate.        *)
LedgerWithinBudget ==
  \A a \in Accounts : Budget[a[1]] > 0 => cost[a] <= Budget[a[1]]

(* The refund of the finally block takes back a reservation the ledger     *)
(* holds, never one that was settled already.                              *)
RefundsOnlyHeld ==
  \A c \in Calls, p \in Providers :
    pc[c] = RefundAt[p] => p \in held[c]

(* While a model call may be made, each metered layer has its estimate     *)
(* set aside; when one budget is exhausted neither layer is called.        *)
CallsAreCovered ==
  \A c \in Calls : pc[c] \in {"l1", "post"} => held[c] = Metered

(* The ledger records no cost that no model API charged: an outcome from   *)
(* the cache, a fallback and a refund settle at zero.                      *)
NeverOvercharged == \A a \in Accounts : spent[a] <= billed[a]

(* "No leak": a reservation is always that of a running call.              *)
NoLeak == \A a \in Accounts : leaked[a] = 0

(* What the model APIs charged stays under the cap.                        *)
BilledWithinBudget ==
  \A a \in Accounts : Budget[a[1]] > 0 => billed[a] <= Budget[a[1]]

(* When no call is running, every guardrail call that consumed tokens has  *)
(* been metered.                                                           *)
GuardrailMetered ==
  (\A c \in Calls : pc[c] = "idle") =>
    \A m \in Months : spent[<<"guardrail", m>>] = billed[<<"guardrail", m>>]

(* Every reservation is released or replaced by its actual cost.           *)
ReservationsEnd ==
  \A c \in Calls, p \in Providers : p \in held[c] ~> p \notin held[c]

(* BudgetLedger implements SpendingCap, one account per (provider, month). *)
Promise == INSTANCE SpendingCap WITH
  Account   <- Accounts,
  Cap       <- [a \in Accounts |-> Budget[a[1]]],
  Allowance <- [a \in Accounts |-> Est(a[1])],
  Overrun   <- [a \in Accounts |-> Excess(a[1])],
  spent     <- spent,
  open      <- [a \in Accounts |-> Outstanding(a)]

PromiseKept == Promise!Spec

(* The spend exceeds the cap by no greater factor than a call exceeds its  *)
(* estimate.                                                               *)
SpendBounded == Promise!OverspendBounded
=============================================================================
