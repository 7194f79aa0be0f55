# TLA+ verification of EMS device-service

The repository is an energy-management stack: Modbus and MQTT sources, Telegraf
pipelines, TimescaleDB, PostgREST and Grafana. Its own program logic is almost all in
`services/device-service`, which discovers devices from MQTT topics, classifies
them with a language model under a monthly budget, and lets people confirm,
override, reject and correct the result. This directory models that logic in TLA+,
checks it with TLC on small instances and proves the central properties with TLAPS.

Paths below are relative to `services/device-service/device_service/` unless they
start with `doc/` or `infra/`.

## 1. The system

| Part | State | Operations | Interacts with |
|---|---|---|---|
| Budget ledger (`budget_ledger.py`) | one row per (month, provider): `cost_usd` | `budget_reserve`, `budget_settle`, each one transaction under the advisory lock `budget:<provider>:<period>` | called by `classify_under_budget` |
| Classification under budget (`discovery_pipeline.py`) | local flags of each call: reserved, settled | reserve L1, reserve L2, classify, persist, settle L1, settle L2, refund in `finally` | ledger, classifier, registry |
| Classifier (`classifier.py`) | in-memory cache | gates, pre-check, L1 with retries, post-check, validator, conflict, threshold | model APIs |
| Guardrail (`llm/llm_guardrail.py`) | none | two checks per classification, fail-closed | model API |
| Registry (`routes/devices.py`, `repositories/device_repo.py`) | `devices`, `device_review_digests` | create, PATCH, DELETE, confirm, override, reject, `apply_outcome` | every part |
| Freeze triggers (`infra/timescaledb/migrations/010`, `011`) | none | refuse an UPDATE of a human-owned row, or of its signals, without an override token | fire under every UPDATE of `devices`, every INSERT and UPDATE of `device_signals` |
| Signals (`routes/signals.py`, `repositories/signal_repo.py`) | `device_signals` | add, retire, replaced by override | registry, signals trigger, unique index |
| Corrections (`correction_service.py`, `repositories/correction_repo.py`) | `device_corrections`, audit rows | feedback, demotion, deactivation, retrieval, marking | registry, prompt, advisory locks |
| Prompt cap (`correction_context.py`) | none | longest prefix of corrections that fits in 32 KB | pipeline |
| Discovery (`discovery.py`, `mqtt_subscriber.py`, `topic_parser.py`) | admission gate in memory | one message at a time: parse, admit, create candidate, classify | broker, registry, pipeline |
| MCP server (`mcp_server.py`, `mcp_tools.py`) | rate windows and a key in memory | two reads, one rerun with a hint | a second process on the same database |
| Validators, auth, config, sanitising, rendering | none | pure functions | |
| Simulator, Telegraf, Mosquitto, Grafana | outside device-service | | |

What is hard in it:

* **Concurrency.** Two processes run classifications concurrently (asyncio tasks).
  A classification is a chain of separate transactions with model calls in between;
  OPS requests commit at any point of it. Some requests take a device lock, some a
  key lock, some rows, some none.
* **Partial failure.** Two reservations, one persist and two settles cannot be one
  transaction. Any of them may raise, may commit and lose its acknowledgement, or
  the process may die between two of them.
* **Time.** The month may change inside a call; rate and deduplication windows
  slide, and the time that is compared was taken some awaits ago; a restart
  forgets them.
* **Authority.** A human decision must survive whatever a classification that
  started earlier wants to write.

What makes each part correct: for the ledger, that reservations and costs balance
and pass the cap by no more than calls exceed their estimates; for the pipeline, that nothing is called without cover and
nothing stays reserved; for the registry, that human-owned rows change only by
audited overrides and AI verdicts have the digest that explains them; for signals,
that there is one active version and that a freeze holds; for corrections, that an
automatic confirmation does not contradict them, that the limits hold under
contention and nothing deadlocks; for the prompt, that it holds as many of them as fit and
that every answer to it is accounted for; for discovery, that bursts are bounded and a device that keeps
publishing is discovered and reaches a reviewer; for the MCP server, that only key
holders get tools and nobody is limited for the requests of others.
`PROJECT.json` lists the hazards line by line with the properties that cover them.

## 2. Modules

| Module | Models | Proofs |
|---|---|---|
| `SpendingCap` | abstract: a spending cap | |
| `BudgetLedger` | ledger and `classify_under_budget` | `BudgetLedgerProofs` |
| `DeviceRegistry` | devices, digests, corrections' content, classifications | `DeviceRegistryProofs` |
| `RateBound` | abstract: a rate limit | |
| `SlidingWindow` | a deque of times | `SlidingWindowTheorems` |
| `Discovery` | MQTT loop, admission gate, topic matrix | `DiscoveryProofs` |
| `Corrections` | locks, limits and alerts of corrections | `CorrectionsProofs` |
| `PromptCorrections` | retrieval, 32 KB cap, marking | `PromptCorrectionsProofs` |
| `Signals` | signals of a device under the freeze | `SignalsProofs` |
| `McpServer` | middleware and tools | `McpServerProofs` |

`MC...` modules give the constants their values. Definitions marked *Faulty* are
bugs of the kind one could write; each property of a passing run is violated when one
of them replaces the definition it stands before.

### `SpendingCap` (abstract)

What ADR-014 and FR-329 promise, without ledger, calls or order: an allowance is
opened only if everything spent and everything allowed still fits under the cap, and
closed at what was really spent, which is at most `Overrun` more than the allowance. With an
`Overrun` of 0 this is the literal hard cap; in general the spend passes the cap by no greater factor
than a cost passes its allowance (`OverspendBounded`).

### `BudgetLedger`

`classify_under_budget` for several concurrent calls, with the transactions of
`budget_reserve` and `budget_settle`, and the part of `Classifier.classify` that
costs money. Each locked ledger transaction is one step: the lock is the
transaction's first statement, and the lock key is the row's key.

| Model | Code |
|---|---|
| `cost` | `cost_usd` of the rows of `llm_budget_ledger` |
| `pc`, `period`, `reserved`, `denied`, `settled` | program point and locals of `classify_under_budget` |
| `used`, `result`, `tries` | usage in the `Outcome`, `summary_source` / `from_cache`, the retry loop |
| `held`, `leaked`, `spent`, `billed` | history: whose reservations a row carries, reservations of finished calls, settled costs, what the model APIs charged |
| `ReserveGranted`, `ReserveDenied`, `ReserveRaises` | `discovery_pipeline.py:143-156` with `budget_reserve` |
| `BudgetFallback`, `CacheHit`, `PreCheck`, `L1Answers`, `L1Fails`, `PostCheck` | `classifier.py:113-195` |
| `Persist`, `SettleCall`, `SettleRaises`, `Refund`, `Exit` | `discovery_pipeline.py:164-194` |
| `Raise`, `Crash`, `NextMonth` | exceptions, process death, the calendar |

Costs are multiples of an abstract unit. The guardrail reserves twice the estimate
of one call (`Est`). That estimate is a fixed number of tokens, and a prompt may be 32 KB, so a call may
cost up to `CallExcess` more (`CostsAreBounded`: a context window is finite, nothing else is assumed);
settlement is `GREATEST(0, cost + actual - est)`
(`Reconcile`). `Faults` selects what the environment may do: `raise` (between the
reserves and the settles), `abort` (a ledger transaction rolls back), `reserve_ack` /
`settle_ack` (it commits and the caller sees an exception), `crash`. A second
model request inside one attempt (JSON mode refused, retried plain) is part of that
attempt and charged once with it; a cache hit is a choice the model may always make.

### `DeviceRegistry`

Rows, digests and corrections of several devices under all OPS endpoints of
`routes/devices.py`, the freeze trigger, and the classifications in flight: the MQTT
loop (`Subscriber`, one at a time) and reruns (`Requests`).

| Model | Code |
|---|---|
| `devices` (`status`, `device_type`, `classified_by`, `gateway_id`, `source_topic`) | `public.devices` |
| `digest` | `summary_source` and type of `device_review_digests` |
| `corrections`, `last_id` | `device_corrections`, its sequence |
| `lifecycle_audit` | number of `freeze_override` and `demote` audit rows per device |
| `run[w]` | locals of one classification: device, type, gateway and topic read first, corrections in the prompt, latest corrected type |
| `Create` ... `Deactivate` | the endpoints, one transaction each; refusals (404, 409) change nothing |
| `FreezeRaises` | `enforce_freeze_rule` of migration 011 |
| `Discover`, `Reclassify` | `process_message` up to the candidate's commit, `reclassify_device` |
| `Retrieve`, `ReadOwn`, `ReadMate` | the three SELECTs of `load_correction_context`, each on its own snapshot |
| `Persist` | `persist_outcome`: `apply_outcome` and `mark_applied` under the device lock |
| `Raise`, `Crash` | the exception handler of the MQTT loop / a failed request; a process that dies |

One `FREEZE_SET` stands for the two lists of human owners, in `device_repo.py:25-26` and in the
trigger (`011:15`), which are equal. `device_type` and `gateway_id` stand for all eight protected columns. What budget,
guardrail, model and validator decide is a choice among `Outcomes`: a fallback with
the type read first, or any type, confirmed only without a conflict. `outdated` is a
history variable: some correction or gateway changed since the worker read it.
`last_seen_at` and other timestamps are left out. `active` and `maintenance` are
legal in the table, but no code sets them. Correction ids follow commit order,
which stands for `ORDER BY created_at DESC, id DESC`.

### `RateBound` (abstract), `SlidingWindow`, `Discovery`

`RateBound` says what a rate limit promises: of any `Bound + 1` consecutive events
the first and the last are a window apart. `SlidingWindow` is the deque both limiters
keep. Times are ages that stop growing at a horizon, so the clock never ends and
liveness can be checked.

| Model | Code |
|---|---|
| `Admissible`, `Identity`, `ResolveSensor` | `topic_parser.parse`, `_resolve_factory_sensor`: names are values, those that match `ID_RE` a set |
| `last`, `times`; `is_duplicate`, `allow_rate`, `record_candidate` | `AdmissionGate` |
| `message`, `lag` | the message in work, time since `now=time.monotonic()` was taken for it |
| `Receive`, `Existing`, `Admit`, `CreateCandidate`, `Classify` | `process_message` between its awaits |
| `Raise` | `except Exception` of the loop; also an INSERT that commits and raises |
| `Publish`, `Disconnect`, `Connect`, `Restart` | broker (a clean session), reconnect loop, a new process with an empty gate |
| `CreateDevice` | `POST /devices` meanwhile |
| `births` | history: when the candidates the gate knows of were really created |

The check and the record use the time of receipt, so the code's limit is
`RATE_LIMIT + 1` candidates per window, not `RATE_LIMIT`: `RateBound` is instantiated with that
bound, and the proof needs no bound on the delay relative to the window. The
classification is one long step here; what it may do is in the two modules above.

### `Corrections`

The transactions of `create_feedback`, `deactivate` and `persist_outcome`, lock by lock, under
READ COMMITTED: a statement sees what is committed, now() is the time of BEGIN.

| Model | Code |
|---|---|
| `corrections`, `audit` | `device_corrections` and the `deactivate` rows of `device_audit_log`, in the order of commits |
| `tx[s]`, `holder` | a request with its transaction; advisory and row locks |
| `CreateFeedback`, `Deactivate`, `PersistOutcome` | a request up to its transaction; `since` is taken here |
| `Begin`, `Acquire`, `Count`, `Commit...`, `RecordRefusal` | connection and BEGIN, one lock, the counts, the writes and COMMIT, the 429's own transaction |
| `Gone` | 409 of an UPDATE that waited for a row and found it inactive |
| `Fail`, `DeadlockAbort` | any other end (404, 409, errors); PostgreSQL's deadlock detector |

The service's `datetime.now` and PostgreSQL's `now()` are one clock: both run in containers of one
host. Without `AUDIT_HASH_SALT` a deactivation has no key (`None`) and takes no key lock.

### `PromptCorrections`

`load_correction_context` with `retrieve_relevant`'s order and the binary search of
`cap_to_prompt_size`, one step per probe; then what becomes of the prompt; `mark_applied` in
`persist_outcome`. Lengths are any function that grows with the set of contexts (`RenderedGrows`). Two workers
stand for the two processes; `create` and `deactivate` run meanwhile.

| Model | Code |
|---|---|
| `Load`, `cap_to_prompt_size` | `load_correction_context`, `cap_to_prompt_size` |
| `L1Answers` | `classifier.py:157-163`: the model has answered the prompt |
| `Accept` | `classifier.py:167-195`: guardrail and validator let the answer pass |
| `Fallback` | `classifier.py:141-176`: before an answer or after one (`guardrail_blocked_output`, `output_validator_rejected`) |
| `Persist`, `Raise` | `persist_outcome`, which marks for `summary_source == "llm"` only; an exception or a rollback |

`shown` (how often a correction was in a prompt that was answered, counted when the model answers) and
`discarded` (how often that answer was thrown away by a fallback or an exception) are history variables.

### `Signals`

One device. Each request is a list of names to retire and one of names to add, taken
statement by statement: `Find` is the snapshot of an UPDATE, `retire` its lock,
re-check and trigger, `Trigger` and `add` the trigger and the unique index of an
INSERT, which waits for whoever inserts or retires that name. Rows name the open
transaction that inserts or retires them (`born`, `dying`). `confirm_device` and
`demote_to_candidate` are the locked transactions that freeze and unfreeze; `stale`
is a history variable (who was under way at the last freeze).

### `McpServer`

`AuthRateLimitMiddleware` (atomic: no await between the check and the append),
`_run_tool` and the three tools between their awaits, key rotation in the environment
and restarts, and an operator who confirms and demotes the device meanwhile.
`spent` marks a request that has cost a model call. `admitted` is a history variable: the ages
of the `Limit + 1` latest requests of each peer that were let through, kept apart from the deque `hits`,
so that the properties measure the deque and do not restate it.

## 3. Runs

| Run | Checks | What it shows |
|---|---|---|
| `budget_safety` | `TypeOK`, `Conservation`, `OverrunBounded`, `RefundsOnlyHeld`, `CallsAreCovered`, `NeverOvercharged`, `PromiseKept` | two calls on two capped rows across a month boundary with every fault but a lost settle acknowledgement, where L1 calls may cost more than their estimate |
| `budget_liveness` | `NoLeak`, `ReservationsEnd` | with exceptions and retries no reservation outlives its call, and each one ends |
| `registry_lifecycle` | `TypeOK`, `CandidateNotFrozen`, `ReviewMatchesVerdict`, `HumanOwnedAudited`, `RetiredReopenedByOverride` | one device under all endpoints and two concurrent classifications, exceptions and crashes |
| `registry_gateway` | `AutoConfirmHeedsCorrections`, `DiscoveredIsReviewed` | a discovered and a backfilled device, own and gateway-wide corrections, gateway changes; without exceptions a discovered device gets a digest or a human decision |
| `discovery` | `TypeOK`, `PromiseKept`, `EventuallyDiscovered` | the gate is a rate limit of one more than `RATE_LIMIT`; whoever keeps publishing is discovered |
| `corrections` | `TypeOK`, `KeyLimitHolds`, `DeviceLimitHolds`, `CrossingMarked`, `NoOpsDeadlock`, `Answered` | limits and alert under concurrent requests; no operator deadlocks; every request ends |
| `signals` | `TypeOK`, `OneVersion`, `BodiesNeverMix`, `FreezeHolds`, `Answered` | adds, deletes and overrides at once, beside confirm and demote |
| `prompt` | `TypeOK`, `LongestPrefix`, `HintKept`, `AppliedCount`, `SearchEnds` | the search is exact and ends, hints stay, and every answered prompt is marked once, in hand, or thrown away |
| `mcp` | `TypeOK`, `BurstBounded`, `KeyedCallsOnly`, `RefusedWithoutCost`, `OnlyBusyLimited` | two peers, two requests at a time, a rotation and a restart: of three admitted requests the first is a window older, who is refused had two in the window |

Three runs expect a violation, each of a statement of the repository the code does not keep:

| Run | Property | What happens |
|---|---|---|
| `budget_settle_ack` | `RefundsOnlyHeld` | a settle that commits but raises is refunded again |
| `signals_frozen` | `FrozenSignalsStay` | a DELETE passes the trigger, a confirmation commits, the DELETE commits |
| `prompt_newest_dropped` | `OldestDropped` | a correction that was never applied sorts last (`NULLS LAST`) and is dropped while older ones stay |

**Bounds.** *Budget*: two calls suffice for every pairwise race on a row; caps of 4 and 3 with
reservations of 2 and 2 admit two L1 reservations but only one of the guardrail, so
grants and denials of each layer meet; an L1 call costs 1 or 3 where 2 are reserved, so rows do pass their cap; two months contain the boundary; one
attempt per call suffices for safety (retries do not touch the ledger) and two are
used for liveness. *Registry*: one discovery and one rerun can overlap on a
device, two types are enough for a conflict, one gateway shared or not by two devices
gives the own / mate order, and two audit rows allow override after reject and
the reverse. *Discovery*: five messages: a meter, a sensor, the legacy name with another
device's id in the payload, two devices behind one topic, an overlong id; limit 1, windows of 2 and a delay
of up to 2 let a candidate be stamped a full window before it is created; one fault of
any kind at any place. *Corrections*: limits of 1, thresholds of 2 and 3, windows of 1 and 2,
two requests at a time of three, so that each pair of the three kinds meets at each lock, and
three deactivations cross both thresholds. Both pools have room for both requests. *Signals*: two names and bodies that
are disjoint, equal, larger and repeat a name; two of three requests at once.
*Prompt*: four corrections of different lengths, one related to one device only, a device whose
prompt leaves no room for some of them, two workers and two classifications. *MCP*: two peers, two
slots, limit 2, window 2. The proofs remove these bounds or hold for every value.
`MaxStarts`, `MaxRuns`, `MaxCorrections`, `MaxAudit`, `LastMonth`, `Retries`,
`MaxLag`, `MaxInbox`, `MaxFaults`, `MaxNow`, `MaxRequests`, `MaxId`, `MaxRestarts` and
`Slots` are the only ones. Programs may stop (all messages seen, bounds
reached), so deadlock of the whole model is not an error; that requests end
is `Answered`. `Symmetry` permutes the call slots in the safety run of the budget, `Alike` the peers and the
slots of `mcp`; neither run has a liveness property.

**Fairness.** `WF(Progress(c))` and `WF(Work(w))`: an await of a running classification
returns, because the SDKs, the pool and the database driver time out and asyncio
schedules every ready task. `WF(Loop)` and `WF(Tick)` of `Discovery`: likewise, the client reconnects after a
delay, and time passes. `SF(Publish(m))`: a source that publishes goes on to, so that some of its
messages come while the client can take them; this is the premise of FR-302 and not a duty of the
code. `SF(Serve(s))` of `Corrections` and `Signals`: statements return, PostgreSQL grants locks
in the order of arrival, so a waiting request is not passed over for ever. `WF(cap_to_prompt_size(w))`:
a loop without an await runs on. Nothing else is assumed fair: not requests, exceptions, crashes or the calendar.

## 4. Known disagreements without a run

These are stated in the modules and violated when a configuration is changed as
described; the checked configurations keep to what the code does promise.

| Property | Change | What happens |
|---|---|---|
| `BudgetLedger!LedgerWithinBudget` | checked as it is in the safety instance | the reservation is a fixed 4000 input tokens, a prompt may be 32 KB: a settle raises `cost_usd` above the "hard cap" of FR-329. `OverrunBounded` says by how much |
| `BudgetLedger!NoLeak` | `Faults = {"raise", "abort"}` | a failing refund is suppressed and never retried |
| `BudgetLedger!BilledWithinBudget` | checked as it is | a failed attempt (also with `Retries = 2`) or an unparsable guardrail answer is billed and not recorded, so later calls find room that is spent |
| `BudgetLedger!GuardrailMetered` | checked as it is | the usage of an unparsable guardrail answer is dropped |
| `PromptCorrections!InjectedCount` | checked as it is | an answer that the guardrail or the validator refuses (`classifier.py:167-176`) is a fallback, and `persist_outcome` marks nothing for it (`discovery_pipeline.py:84-86`: "never reached the prompt"), although `PRD-0003:377` counts each injection into a prompt. `AppliedCount` says what is missing |
| `DeviceRegistry!AutoConfirmNeverContradicts` | checked as it is in the gateway instance | a correction committed during the model call is overruled |
| `DeviceRegistry!DiscoveredIsReviewed` | `Faults = {"raise"}` | after an exception the candidate is never classified again |

Also noticed: ADR-014 (line 32) says the budget uses a rolling 30-day
window, `current_period` is the calendar month; FR-332 asks for
`metadata.correction_conflict`, which `apply_outcome` does not write; FR-325 speaks of a queue at the
rate limit, the code drops the message; a candidate created by `POST /devices` is classified only on request; an outcome that
`apply_outcome` refuses still bumps `applied_count`, and its digest is still what an MCP client gets;
two sensors whose names or payload ids resolve to one id become one device; two classifications that mark each other's
corrections may deadlock in PostgreSQL, and the outcome of one is lost.

## 5. Proofs

Every theorem holds for every value of the constants allowed by the assumptions the modules name.

*Budget* (`BudgetLedgerProofs`).

* `TypeCorrect`, and **no call without cover** (`CoveredCalls`). The invariant is per call: `CallInv(c)`
  is the conjunction of `Control` (where the call is determines its flags),
  `Attempts`, `Pending` and `Usage`. `CallsAreCovered` alone is not inductive: it
  says nothing of the stages before `l1`, where the reservations are collected.
* **Refunds** (`RefundsHeld`), assuming `NoLostSettle` (`"settle_ack" \notin Faults`),
  which `budget_settle_ack` shows to be necessary.
* **Conservation** (`ConservationHolds`), same assumption. The books are related to
  the set of holders: each step adds or removes one member of `Holders(a)`, or moves
  members of a finished call to `leaked` (lemmas `HoldBooks`, `SettleBooks`,
  `OverBooks`).
* **The cap** (`LedgerCap`: `OverrunBounded`), with no assumption on faults and only `CostsAreBounded` on costs. A
  capped row is at most its cap plus one excess for each call slot that holds no reservation of it. The
  invariant is inductive: a grant checks the row against the cap itself, and a settle raises it by one
  excess while it frees a slot. The corollary `HardCap` is the literal cap, for costs that
  never exceed their estimates.
* **Nothing overcharged** (`NothingOvercharged`), under all faults. `NeverOvercharged` compares two totals and
  is not inductive: what an unfinished call will still settle (`Owed`) must be billed already. `Charged`
  adds these shares to `spent`; a charge raises `billed` by what the share grows, a settle moves a share to
  `spent`. The sum over the calls is the cardinality of a set of tokens (`Total`), because the
  provers have no induction over data. `Fresh` says that a call that has not used anything owes nothing.
* **No leak** (`NothingLeaked`), assuming `NoLostBooks`: no transaction fails, no reserve loses its acknowledgement and the
  process does not crash. The code suppresses a failing refund and never repeats it (section 4), forgets
  a reserve whose `COMMIT` raised, and cannot refund after a crash, so each of the three is necessary. Exceptions of the
  classification and lost acknowledgements of a settle are allowed. `Kept(c)`: the ledger holds nothing that is not
  on the call's list of what to refund, and nothing for a provider whose refund lies behind it.
* **Refinement** (`Implements`): `Init` maps to `Init` of `SpendingCap`, and each step opens or closes one
  allowance or stutters; from conservation, so under `NoLostSettle`. `SpendCap` is what that promises of the spend
  (`SpendBounded`), under the same assumption.

*Registry* (`DeviceRegistryProofs`). `TypeCorrect`, **candidates** (`CandidatesUnowned`),
**reviews** (`VerdictsReviewed`), **freeze** (`FreezeHolds`), **retirement** (`RetiredIsFinal`).
One lemma, `RowSteps`, says that a step leaves a device row alone or changes it in one of seven
named ways (`Opened`, `Edited`, `Retired`, `Confirmed`, `Overridden`, `Reopened`,
`Classified`); each theorem is a walk through them. `CandidateNotFrozen`
is part of the argument for `FreezeHolds` and is inductive with `TypeOK`.
**Corrections** (`CorrectionsHeeded`): `Heeding` says that a classification that is not marked outdated still has what it
read: the gateway of its device, at `mate` that the device has no correction of its own, at `persist`
the newest correction (`Right`); and that corrections and classifications belong to devices that exist (`Anchored`).

*Discovery* (`DiscoveryProofs`, with `SlidingWindowTheorems`). `TypeCorrect`, `BurstsBounded` and
the **refinement** of `RateBound` (`Implements`). `BurstBounded` is not inductive. `GateInv` relates the
deque to the births: what was trimmed is old (`DroppedOld`), the i-th stamp is no younger than
the i-th birth (`DequeFollows`), and a message that is admitted was received after the latest birth
(`LagFollows`, because the loop is sequential). That last part is what limits the excess to one.

*Corrections*. `CorrectionsProofs`: `TypeCorrect` and **no deadlock** (`NoDeadlock`). `Ordered` says
of each kind of transaction which locks it holds when a given number of them are still to take.
A waiting operator holds at most a device (waiting for a key) or a key (waiting for a row), so a circle through
it would have to come back from a row to a device or a key, which nobody waits for who holds a row, except classifications; these
hold rows and wait for rows. Also `KeysAreLimited`, `DevicesAreLimited`, `CrossingsAreMarked`. Who has
counted holds the lock of what was counted until it commits (`Ordered`), and its transaction began after its window
ended (`Times`), so a verdict is still true when it is acted on (`Verdicts`, `Alarms`).

*Signals* (`SignalsProofs`). `TypeCorrect`; `OneActiveVersion`: of two rows of a name one is being
replaced by the transaction that inserts the other (`Versions`); `FreezeIsKept`: while the device is
frozen, a request without the token that is not stale has no rows (`Held`); `BodiesAreWhole`: an override holds
the lock of the device from its list of old rows to its commit, and each active row that an override has set is
dying or still on that list (`Replacing`, `Owned`).

*Prompt* (`PromptCorrectionsProofs`). `TypeCorrect`, `SearchIsExact`, `HintsAreKept`, `CountsAreExact`.
`Bracket` is the loop invariant of the binary search (what is left lies between a prefix that
fits and one that does not); its use of `RenderedGrows` is the docstring's "monotonic
non-decreasing". `AppliedAreKept` shows the offset of the hint to be right. `CountsAreExact` is an equation of four
counters of a correction: an answer enters `InHand` and `shown` together (`HandStep`) and
leaves `InHand` for `applied_count` or for `discarded` (`CountStep`), whatever other workers and endpoints do.

*MCP* (`McpServerProofs`, with `SlidingWindowTheorems`). `TypeCorrect`; **the rate** (`BurstsAreBounded`, `OnlyTheBusyAreLimited`).
Neither is inductive, both follow from `EndOf`: the deque of a peer is the end of what was let through, what is
missing has left the window, and the ages are in order. `TrimmedEnds`, `AppendedEnds`, `LatestEnds` and `AgedEnds` say
that each operation on a window keeps this. The **refinement** of `RateBound` (`Implements`), one for each peer, with
the limit itself as its bound: without the delay between receipt and append that the loop of `Discovery` has, there is no excess.
`CallsAreKeyed` and `RefusalsAreFree` rest on `RequestStep`,
which lists what a step can make of a request.

Only model-checked: liveness (`ReservationsEnd`, `DiscoveredIsReviewed`, `EventuallyDiscovered`, `Answered`,
`SearchEnds`), which is out of the prover's reach. Every invariant and action property of a passing run is a theorem.
`SpendBounded` and `Discovery!BurstBounded` are proved and have no
run of their own: `PromiseKept`, which says more, is run in their place.

## 6. Not modelled

* Sanitising, rendering, digests and validators are string work whose result is a choice, a length or a
  constant; authentication is a comparison, a key id a hash.
* Keys and eviction of the classifier cache: a call may hit or miss at any time, and the only cost of a miss is a call.
* Prices are integers, so the rounding of `NUMERIC(10,4)` (at most 0.0001 per statement) is not seen.
* The ledger's lock, read and write are one step in `BudgetLedger`. Locks one by one are modelled where they
  meet locks of another kind, in `Corrections` and `Signals`.
* Pool sizes are in `Corrections` (and its proofs hold for any); health checks keep no state.
* The simulator's devices are independent and random; Telegraf, Mosquitto, Grafana and PostgREST are configuration or
  third-party code.
