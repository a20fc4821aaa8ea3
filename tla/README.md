# Verification of the execution kernel of us-dual-asset-quant-starter

TLA+ models of the part of the repository that decides whether, when and how often an
order reaches IBKR, and of what has to be true of the books, the limits and the strategies
around it.  Paths below are relative to the repository's root; `sdk/` is
`platform_core/sdk/`.

Contents: 1 the system, 2 hard behaviours, 3 modules, 4 runs and bounds, 5 fairness,
6 proofs, 7 disagreements between code and documents, 8 what is not modelled, 9 plan.

## 1. The system

A strategy (plugin runtime, through `sdk/client.py`) or an operator (HTTP) asks the
execution service (`platform_apps/exec_svc/main.py`) for orders.  The service keeps one
account.  Its parts share a database, which other processes also open.

| component | state | operations | talks to |
| --- | --- | --- | --- |
| order ledger, `sdk/ledger.py` | `broker_orders`, `broker_executions`, `broker_order_events`, positions, leases, kill switch (database) | create intent, transition, claims (submission, group, replacement, cancellation), apply status, upsert execution, record event, lease, kill switch | every process, one transaction per operation |
| execution, `sdk/execution.py` | `_submit_lock`, reconciliation state | submit, cancel, replace, bracket, OCA, kill, clear, recover, audit, start | ledger, risk, safety, pacing, adapter |
| reconciliation, `IBKRReconciliationSDK` | its lock, last report | snapshot, match, store, judge, adopt positions | adapter, ledger |
| order supervision, `sdk/lifecycle.py` | none | TTL expiry, flatten | execution, ledger |
| safety controller, `sdk/safety.py` | kill reason, live arm, liquidation arm | arm, disarm, kill, clear, assert | - |
| session supervisor, `sdk/session.py` | a thread | sync, connect, recover, audit, heartbeat | execution, adapter |
| IBKR adapter, `infra/ibkr.py` | session state, socket, request tables, order records and ids | connect, place, modify, cancel, requests, callbacks | IBKR, execution (callbacks on a reader thread) |
| risk gateway, `sdk/risk.py` | none | authorize against limits | quotes, account snapshot, ledger |
| risk policies, `sdk/risk_control.py` | versions (database) | propose, approve, activate, roll back, resolve | execution |
| pacing, `sdk/pacing.py` | sliding window, counts | acquire, check, record execution | execution |
| statement, `sdk/statement.py`, `sdk/flex.py` | end-of-day results | fetch, compare, set kill switch | ledger |
| strategy runtime, `plugins/runtime.py` | status, plugin state, cursor; checkpoint (database) | start, pause, resume, close, heartbeat, stop, process bar, poll order events | client |
| simulated trading, `runtime/`, `execution/`, `backtest/` | event queue, OMS orders | deterministic replay | - |
| strategies, portfolio, data, calibration, reporting | - | numeric and I/O code | - |

Interaction: `submit()` runs under `_submit_lock`; it writes the intent, checks session,
kill switch and lease, asks risk, records AUTHORIZED, claims the row
(AUTHORIZED -> SUBMITTING by compare-and-set), waits for the pacing window and only then
calls the adapter.  Brackets, OCA groups and replacements take the same way with a claim of
their own.  Callbacks arrive on IBKR's reader thread, which writes the journal, then the
ledger, and may kill; the supervisor thread reads the kill switch, reconnects, reconciles
and audits; TTL scans and operator requests come from other threads; other processes share
the database only.

What makes each part correct: an order is sent at most once and never without a durable
claim (ledger, submission); final states are the broker's and stay (ledger,
reconciliation); fills are counted once (ledger); what the broker decided is learned, crash
or not (reconciliation); nothing opens risk under a kill, after a connection loss, or
without a reconciliation (session, safety); a kill reaches every process; the legs of a
group are sent, protected and withdrawn together (bracket, OCA); a READY session knows the
executions behind its positions, and a trade nobody ordered surfaces (reconciliation,
statement); an answer reaches the call it belongs to, is complete, and no order id is used
twice (adapter); two persons change a limit
and one version is in force (risk policies); no order exceeds the limits it was judged by,
and no second sends too many messages (risk, pacing); no checkpoint is ahead of its
decisions and events, and no completed bar trades again (strategy runtime).

## 2. Hard behaviours

`PROJECT.json` lists them at their lines under "hazards".  The main families: two
processes, a replay and a TTL scan around one row; callbacks, timeouts and snapshots of
different ages for one order; crashes between a claim and the call it permits, between two
placements of a bracket, between a journal entry and its application, between two decisions
of a bar; four kinds of actors that change safety controller, database and session state
without a common lock; state checked early and used late (lease, session, arm, policy,
account snapshot, positions); late answers to requests that timed out, unrequested messages
in shared tables, and counters that start anew with a connection; concurrent database
transactions; deduplication of events that did happen again.

## 3. Modules

| module | models | state |
| --- | --- | --- |
| OrderLifecycle | states, `_ALLOWED_TRANSITIONS`, regression rank, reading of broker statuses | none (constant level) |
| OrderLedger | `SQLAlchemyOrderLedger`, one action per operation that changes a row | `rows`, `executions`, `executed`, `claims` |
| TransmissionPermit | abstract: permission to transmit | `phase`, `permits` |
| OrderSubmission, EXTENDS OrderLedger | `submit`, `cancel`, TTL expiry, reconciliation, crash; several processes and a broker | `lease`, `session`, `call`, `due`, `recon`, `book`, `inbox`, `heard` |
| LinkedOrders, EXTENDS OrderLedger | `submit_bracket`, `submit_oca`, `replace`, adapter records, the broker's linked orders | `call`, `record`, `refused`, `journal`, `requests`, `reports`, `book`, `recovering` |
| SessionControl | safety controller, kill, clear, arm, flatten, session state, supervisor, connection events | `safety`, `control`, `session`, `at`, `lock`, ... |
| BrokerBooks | event journal, execution and commission storage, position baseline, adoption, statement | `journal`, `unapplied`, `execRow`, `run`, `baseline`, ... |
| AdapterRequests | `_IBApiClient`: keyed requests, orders, ids, errors, reconnections | `caller`, `table`, `orders`, `requestErrors`, `nextOrderId`, `accepted`, `wire`, ... |
| AdapterQueries | `_IBApiClient`: open orders, completed orders, positions, which share a table each | `reader`, `rows`, `done`, `asked`, `inbox`, `subscribed`, ... |
| StrategyRuntime | `StrategyRuntime` and its checkpoint | `memory`, `work`, `cursor`, `last`, `saved`, `placed`, `journal` |
| RiskPolicies | `RiskLimitControlSDK`, as transactions with row locks | `policies`, `request` |
| PolicyInForce | abstract: what governance promises | `approved`, `inForce` |
| PreTradeRisk, INSTANCE of PolicyInForce | the gates of `submit()`, the account snapshot, verdict, pacing | `inForce`, `row`, `broker`, `call`, `messageTimes`, `sent`, `withdrawn`, ... |

Composition.  OrderSubmission and LinkedOrders change rows only by actions of OrderLedger.
PreTradeRisk composes the risk gateway, pacing and a small ledger with the *abstract*
PolicyInForce, which RiskPolicies is proved to implement.  StrategyRuntime takes of the
service what OrderLedger and BrokerBooks offer it: idempotent intents and a journal.

**OrderLedger.**  An action is one database transaction.  `executions` are the execution
roots with the versions seen and the live quantity, `executed` the sum the ledger computes,
`claims` a history of granted permissions.  Terms (quantity, price) are members of a set
with a quantity each.  Every argument a caller can give is enumerated, so that the
properties hold for any caller.

**OrderSubmission.**  In each process there are four threads: the call under `_submit_lock`
(`call`), a TTL scan (`due`), a reconciliation (`recon`), and the reader of callbacks
(`inbox`).  A thread gives way where the code ends a transaction or waits.  `seen`,
`revision`, `due` and `recon` carry what a thread has read and may be stale.  Execution and
status of a fill arrive in either order; a crash loses the inbox and the adapter's records.
Reconciliation reads open orders and executions in two steps, so that a fill can fall
between them.

**LinkedOrders.**  One process.  A call works through its legs in the order of the code:
`PersistLeg` per transaction, `DecideGroup`, `RejectLeg` or `AuthorizeLeg` per leg,
`ClaimGroup`, `PlaceLeg` per `placeOrder`, `AwaitLeg`, then `ApplyLeg`, or `WithdrawLeg` and
`UnknownLeg` (`_mark_unknown_unless_terminal`).  A replacement is `Replace`, `ClaimReplace`,
`ModifyOrder`, `AwaitLeg`.  `record` is the adapter's record, which a modification already
overwrites with the new terms and which `orderStatus` acknowledges without showing terms.
`journal` drops an event that equals an earlier one, as `record_event` does.  Requests and
reports cross the socket in order; a crash cuts off the tail of the requests.  The broker
holds a leg until the one that transmits arrives, executes exits after their entry, cancels
what a fill or a cancellation of the parent makes superfluous, refuses placements and
modifications.

**SessionControl.**  One process in LIVE mode.  Actors: the killer, the clearer, the armer
(operator requests), the operator's recover, the supervisor thread, the reader thread, a
submission, a flatten.  `at` is the step an actor has reached, `why` the kill reason it
handles.  `lock` is `_submit_lock`, `reconciling` the lock of the reconciliation.  Kill,
clear and arm are the separate steps of the code: controller, database, session state.
`journal` holds the connection events in `broker_order_events`, since an equal event is
dropped.  `during` and `armAge` are histories for properties.

**BrokerBooks.**  Every trade buys one unit; a moment is the number of trades made so far,
so that a position read at a moment and the executions before it can be compared.  The
reader commits a callback to the journal (`RecordEvent`) before it applies it
(`ApplyEvent`), and a crash may fall between.  A reconciliation makes IBKR repeat the
executions, waits for the end of the answer, reads the positions, dates them, stores
execution by execution (read of the journal and write of the row in two steps) and judges.

**AdapterRequests.**  A message is a row, an end, a status, an error or a nextValidId, and
carries the call it answers, which the client cannot see and the properties compare.
Request ids and order ids come from two counters that nothing keeps apart; the run starts
them at 1 and 2, so that they meet.  `Connect` is `IBKRAdapter.connect`: a new client with
counters, tables and errors of its own, whose order id is `None` until the first nextValidId;
what was on its way to IBKR is lost, or an order of it may just have arrived.  `accepted`
is what IBKR has taken up, over all connections.  What IBKR announces is external: an id
greater than those of all orders it has taken up by then.

**AdapterQueries.**  The requests without a number.  One lock, one table and one event per
kind; the table takes what the reader thread receives: an openOrder that nobody asked for is
taken while a query of the open orders waits, positions are a subscription that goes on
sending rows after positionEnd until cancelPositions has arrived, and positionEnd is always
taken.  Two threads read, a reconciliation all three kinds in their order and an account
snapshot two of them, while orders open and end and positions change.  An order has no
state but being open or completed, a position the number of its changes.  `clean` says of a
reading that none of its queries was asked while the answer to a timed-out one was still to
come; the properties are about those, and section 7 shows the others.

**StrategyRuntime.**  A plugin is what it has been shown: how often each bar, and which
events.  `process_bar` and `poll_order_events` are divided where they call the service, where
a request, or its answer, may be lost, and the process may die.  A plugin may raise before or
after it took a bar or an event in (`ProcessBarFails`, `ReadEventFails`), and every save may
fail (`TryCheckpoint`, `CompleteBarFails`, and the save in the exception handler, `FailBar`).
With `Stateful` the decisions, and so the order numbers, depend on what the plugin was shown.

**RiskPolicies.**  `propose` is a read and an insert; an activation locks its row, scans the
ACTIVE rows, waits for their locks, and commits under the partial unique index.

**PreTradeRisk.**  One call at a time, but every read of it is a step of its own: two
resolutions of the policy, four pieces of the snapshot, the local orders; meanwhile the
broker accepts, fills and ends orders and policies change.  `Acquire` gives a slot in
`messageTimes`; the message leaves later (`Place`, or `SendCancel` behind the round trip of
`order_status`), or not at all (`NotSent`), and is recorded in `sent` when it leaves.
`withdrawn` are the cancellations of `submit_order` for orders that were not acknowledged,
which ask for no slot.

Operators commented "Faulty variant" are not part of any specification; each is what a
plausible mistake in the code would make of the definition that follows it, and is used to
show that a property can fail.

Modules ending in `_proofs` hold theorems about the modules they extend: one per component;
**Risk_proofs** has those of RiskPolicies and PreTradeRisk, **Adapter_proofs** those of
AdapterRequests and AdapterQueries.  Modules beginning with MC are instances for TLC.

## 4. Runs and bounds

| run | checks | bounds, and why they are enough |
| --- | --- | --- |
| OrderLedgerRow | types, one claim, final rows, revisions, terms, refinement of TransmissionPermit | one row (rows are independent), also sent as a preview, two terms of quantity 1 and 2, two execution roots with two versions: a partial and a full fill, a correction, a replacement to more and to less.  `MaxRevision` 10 cuts off repetitions |
| SubmissionRace | one transmission, true outcomes | two symmetric processes, one order of one unit, one crash, one lease expiry, one row read by a TTL scan: the order can be submitted, replayed, expired, cancelled and reconciled by a process that is losing it to the other |
| SubmissionLifecycle | true outcomes, fills; the outcome is learned | one process, quantity 2, one request (a cancellation or an audit), one crash, one expiry: partial fills, in both orders of execution and status, before and after the crash and between the two reads of a reconciliation |
| SessionKillRaces | types and locks, arming ends with a kill | one kill (from operator, reader or another process), one clear, one arm, one flatten or recover |
| SessionFaults | a standing kill reaches the process; the session becomes READY again | one kill, one clear, one connection loss, one failed reconciliation or connection, one audit, in any order |
| LinkedOrders | group claimed together, entry protected, no living leg written off, failed group withdrawn, outcomes learned | a bracket of three legs of one unit, one replacement of the entry to two units, and one fault of any kind: a refusal, a repeated status, an expired leg, or a crash at any step |
| StrategyRestarts | decisions recorded, events reach the checkpoint and are read, completed bars closed, bars completed | a plugin with state, two bars, of which the first has two decisions, two quotes (so that a replay may conflict), two events in pages of one, one failure (call, plugin or save) and one crash: both can fall between any two calls, before, between or after the two decisions.  `MaxApplied` 2: a bar shown twice is told from one shown once, so that an interrupted bar is decided differently |
| BrokerBooks | complete books under READY, executions and commissions stored, foreign trades surface | one own and one foreign trade, one crash, one adoption, one statement with two polls, three callbacks under way |
| Adapter | answers and errors reach their calls, order ids are fresh; answers are complete, no order is missed | either half of the client moves, since they share no state (`part` in MCAdapter).  Requests and orders: two symmetric callers, three calls of any kind, two timeouts, one error, one repeated nextValidId or foreign order, two reconnections, answers of two rows, request ids from 1 and order ids from 2: the rows of a late answer can fall into the next request, the numbers of requests and orders overlap, and an order can be lost with one connection or taken up unseen before the next.  Queries: two symmetric threads that reconcile or take a snapshot, two symmetric orders, one instrument, one timeout, two changes: an order can open and end, or both end, within one reconciliation, a late answer can end a later query, and a position can change while subscribed |
| RiskPolicies | one ACTIVE version, two persons, refinement of PolicyInForce, every request answered | two scopes, two persons, two concurrent requests, two versions a scope: two activations of one scope, of two, or an activation and a rollback |
| PreTradeRisk | governance, exposure, order count, pacing | two symmetric entries and an exit of one unit, a position of one, two policies that differ in every limit, one change of policy, one fault (failed snapshot, failed or lost message, or restart), one message a window of two ticks: a message can be held up behind its slot over the end of the window, and a withdrawal follow |
| SessionKillCancels | section 7 | one kill and one arm: the smallest bounds that show the case |

`MaxRevision` 40 and 30 in the submission and linked runs is out of reach.  `Limit` counts
each kind of event in SessionControl.  Where a cfg says `CHECK_DEADLOCK FALSE`, the system
may stop: the bounds are used up and all orders are final, all callers idle, all trades made.
In the session runs the supervisor never stops and deadlock is checked.  Symmetry is used in
runs of safety properties only.

Type invariants that a run checks are stated in OrderLedger, SessionControl and RiskPolicies;
those of the other modules are conjuncts of the inductive invariants of section 6, which hold
for every value of the constants.  Every property of a
passing run has a mutant in `PROJECT.json` that violates it.

## 5. Fairness

Nothing is assumed anywhere of operators, of faults, or of the broker's trading; crashes and
faults are bounded.

- OrderSubmission: the reader thread drains its callbacks, a call that has begun ends (each
  wait for the broker has a timeout, `_wait_for_order`), and reconciliation goes on once
  begun; the supervisor begins one while the session is not READY (`session.py`, `_run` loops
  for ever).  A snapshot may fail (`ReconcileReadFails`), but if it can be read again and
  again it is eventually read: strong fairness of `ReconcileReadExecutions`, which says that
  IBKR answers some time.  `OutcomeIsLearned` is claimed of a process that eventually stays
  up and holds the lease, and of every outcome but a cancellation after a partial fill,
  which the code does not learn (section 7).
- SessionControl: handlers and threads that have begun go on, the supervisor loops.
  Failures are bounded by `Limit["failures"]`: a snapshot that always fails gives no READY
  session, nor should it.
- LinkedOrders: weak fairness of the call, the reader, the restart (the service is
  supervised by its container), the startup reconciliation, and of the broker taking what
  was sent to it.  Filling and refusing are not assumed.
- StrategyRuntime: weak fairness of the steps of a bar and of a page
  that was begun; strong fairness of `PollOrderEvents` and `ProcessBar`, because the host
  alternates between them and each is disabled while the other runs. The properties are
  claimed of a strategy that stays active: nothing restarts a FAILED one but the host.
- BrokerBooks: weak fairness of the reader, of a reconciliation (the supervisor loops), and
  of an adoption that has begun.
- RiskPolicies: weak fairness of every transaction that need not wait, strong fairness of
  `LockActive`: the database grants a row lock to those who wait before it goes to a later
  request.  Without it, two requests could starve a third.

## 6. Proofs

All by tlapm from the modules' named assumptions, for every set of orders, groups, terms,
executions, journals, scopes, persons, policies, processes, threads and bounds.  The
assumptions say that null values differ from real ones, quantities and bounds are in Nat,
groups are disjoint, and besides: a bracket or OCA group is a non-empty sequence of distinct
legs and there are finitely many orders (LinkedOrders, PreTradeRisk); a policy's limits are
natural numbers (PreTradeRisk); every unit of an order has an execution root and executions
come in their first version (OrderSubmission, where the broker corrects none).

The safety and action properties of the passing runs, and the refinements, are all proved,
without hypotheses but one: `ProcessedBarsAreDecided` is for bars that come in the order of
their times (below).  Conditions under which a property is claimed at all are part of the
property, where a reader sees them: a number that is shared (`CallsGetTheirAnswers`), a reading that met no late answer (`AnswersAreComplete`,
`OrdersAreNotMissed`), own orders only (`ReadyBooksAreComplete`).

`OrderLedger_proofs`: `IInv` strengthens `TypeOK` and `ClaimedOnce` (what each state says
about the claim of the row and of the members of its group); it is proved inductive with
one step per operation, from lemmas on what `RowFromStatus`, `RowFromExecution` and
`Promoted` may do to a row.  From it follow the action properties
(`TerminalRowsStay`, `RevisionsIdentify`, `TermsByReplacement`), `GroupsClaimedTogether`,
and `LedgerImplementsPermission`: initial states map to initial states, every step maps to
one step of TransmissionPermit or to a stutter.

`OrderSubmission_proofs`: `SubmissionInv` adds to `IInv` what relates the ledger to the
broker.  Facts about the broker only grow (filled never falls, a final state stays), so what
was once true of it stays true however late it arrives: `Past` says this of a status, and
`InboxInv`, `HeardInv`, `SnapshotInv` and `CallInv` say it of the callbacks, the adapter's
records, the snapshots of a reconciliation and the answer a call has copied.  Every operation
on a row therefore takes something true (`LedgerOp`), and `RowsAreTrue` is kept:
`OutcomesAreNeverGuessed`, `FillsAreNeverOverstated`.  `TransmittedAtMostOnce` needs
`SendersAlone`: whoever is about to call `placeOrder` has the claim, has not used it, and no
other process is at the same point with the same order.  `SubmissionUsesLedger`
is a refinement: every step of the four threads of every process is a step of OrderLedger
or leaves the ledger alone, so that all of its theorems hold here.

`LinkedOrders_proofs`: the same two kinds of result.  `EntriesWorkWithTheirExits`, for brackets
of any number of legs, rests on `BracketInv`: a request that lets an order work or ends it
(it transmits, or cancels) does not overtake the placements of its fellows on the socket, and
no order of a bracket works or has ended unless all have reached the broker.  A call
places legs in their order (`CallFits`), a crash cuts off a tail, and an exit is placed once
(`PlacementInv`).  `ClosedRowsAreTrue` rests on `HearsayInv`: what the adapter has recorded, and
what is on its way to it, is true of the broker.  `LinkedUsesLedger` is the refinement.

`SessionControl_proofs`: `ArmingEndsWithKill` from `SafetyInv` (an armed controller has no
kill reason and no kill in its age; reasons in flight are reasons), since every kill
disarms inside the controller and only `Arm` arms, which checks the reason itself.
`TypeCorrectness` from `SessionInv`, whose part `LockInv` says that each lock is held
exactly by the actor whose step is inside it (so that no return path of a submission, an
audit or a reconciliation keeps a lock), and `OrderInv`, that the holder of the submission
lock has an order.

`BrokerBooks_proofs`: `ReadyBooksComplete`.  A run counts stored executions to explain
positions, while the reader stores executions at the same time, so that a missing one could
be made up for by a later one.  `BooksInv` says why it cannot: for some n (the trades made
when the run asked) the run has or will store the first n (`Asked`), and past n the reader
comes to trades in the order they were made, none is known before an earlier one, and one
that is in the journal is known or about to be applied (`InOrder`).  Executions counted up to
a missing trade are then too few (`PositionsExplained`, by cardinality).

`Adapter_proofs`, requests and orders: `RequestsInv`.  `GivenInv` says which numbers the present
connection has given to which calls: one counter gives a number once, and a call has one
number.  `OrdersInv` says that every order IBKR has taken up, or may still take up, has an id
below the counter, or below the nextValidId that is under way to a client without one; a
reconnection keeps it because IBKR announces an id beyond those it has taken up.  `ErrorsInv`:
what is recorded under a number was answered to a request or an order that has it.  `KeyedInv`
follows each keyed request as asked, coming, complete or refused, and says where its rows and
its end are.  Nothing keeps the two counters apart; instead, `CallsGetTheirAnswers` excepts a
call whose number was given to a request and to an order of the same connection (`shared`).

`Adapter_proofs`, queries: the argument is the phase of a query.  As long as no answer to it
has come (`Unanswered`), its request stands in the queue of its kind and nothing that ends a
query is under way; while it is answered (`Answering`), what was due stands in the table or
before the end that is under way; then it is `Answered`.  `LocksInv` has one owner per lock, and
`DueInv` says that what was due was true (`Was`) and stays true of a position and of a completed
order, while an open order may cease to be due.  `AnswersAreComplete` is inductive with
these.  `OrdersAreFound` adds `KnownInv`: whatever the reading knew is found, or open before
the open orders are asked for, or completed before the completed ones are - which holds
because the open orders are read first.

`StrategyRuntime_proofs`: `DecisionInv` and `EventInv` say of the runtime's own position and of
the checkpoint, from which it may resume, that the bars behind it have their decisions at
the service and its plugin has seen the events before its cursor; of a page in work, that
nothing visible lies between the cursor and its events.  `SavedPluginHasSeenItsEvents`
without hypothesis; `ProcessedBarsAreDecided` under `BarsInOrder` (bars end one after
another: a second bar with the same end is skipped, section 7).  `CompletedBarsStayClosed`,
also without hypothesis, from `ClosedInv`: the bar in work is later than the checkpoint and than
the last bar, and the last bar is never earlier than the checkpoint once the runtime is active.

`Risk_proofs`, governance: `PoliciesInv` adds two facts to the types and to the two safety
properties: whoever approved a version did not propose it, and the row an activation or a
rollback holds has been approved (it is locked, so it stays so).  `StepOnRows` reduces every
step to one of three effects on the rows of one scope: nothing, grown rows with the same
ACTIVE versions, or one approved version ACTIVE and no other - the last because a commit
that leaves a second ACTIVE row is refused by the index.  `OnePolicyIsActive`,
`TwoPersonsBehindPolicy` and `GovernanceImplementsInForce` follow; the refinement says in
particular that a scope which has a policy in force is never without one again.

`Risk_proofs`, gates: `EntriesAreJudgedByPolicies` rests on that last fact (`GovernedInv`: once an
entry has passed the envelope, some scope has a policy).  `ExposureIsKept` and `CountIsKept`
rest on `SnapshotInv`, which bounds the exposure by what the reads so far have counted plus
the fills since: a fill moves an order from one summand to another between two reads, and the
bound says that it is not lost on the way; `AliveInv` says that what may still
fill is non-terminal in the ledger.  `NoSecondHasTooMany` from `PacingInv`: slots stand in the
window oldest first (`OldestFirst`), and behind each message of the last second but the newest
stands the slot of another that is still in the window (`Covered`), since a message leaves
before the next slot is given; the call holds at most one slot that no message has used yet
(`SlotsHeld`).  The same covers withdrawals, one per slot.

Only model-checked: liveness, which is out of the prover's reach - `OutcomeIsLearned`
(OrderSubmission), `KillReachesProcess` and `SessionRecovers` (SessionControl),
`FailedGroupsAreWithdrawn` and `OutcomesAreLearned` (LinkedOrders), `EventsAreRead` and
`BarsAreCompleted` (StrategyRuntime), `ExecutionsAreStored` and `ForeignTradesSurface`
(BrokerBooks), `RequestsAreAnswered` (RiskPolicies).  The properties
of section 7 are refuted, not proved.

## 7. Disagreements between code and documents

SessionKillCancels is a run that TLC ends with a counterexample: no kill cancels an order;
`cancel_all_orders` calls the adapter's `cancel_order` without the execution token and is
refused by its own boundary.  `PROJECT.json` quotes the lines.

The following are stated in the modules as properties the code violates, and TLC shows each
with the cfg of the named run, with the constants changed as noted:

| property | in | run and constants | what the code does |
| --- | --- | --- | --- |
| FlattenPassesKill | SessionControl | SessionFaults with `Limit` one kill, one request | the synchronization inside `submit()` clears the liquidation arm, so the flatten that the runbook allows under a persistent kill is refused (execution.py:1164) |
| ReadyIsReconciled | SessionControl | SessionFaults with `Limit` one each of clears, losses, requests, audits | a reconciliation that is running when the connection is lost or the kill cleared sets READY at its end |
| LossEndsArming | SessionControl | SessionFaults with `Earlier` {"LOST"}, `Limit` one each of losses, audits, arms | a connection loss that equals an earlier one is dropped as a duplicate, and the arming survives it (execution.py:1199) |
| PartialCancelIsLearned | OrderSubmission | SubmissionLifecycle | an order cancelled after a partial fill stays PARTIAL_FILL (execution.py:1632) |
| CorrectionsCountOnce | OrderLedger | OrderLedgerRow | a repetition of a superseded execution version is counted again (ledger.py:599; tests/test_execution_lifecycle.py:597) |
| OwnTradesNeverKill | BrokerBooks | BrokerBooks | an audit whose position snapshot and execution snapshot have a trade between them kills an account that traded only its own orders (execution.py:298; tests/test_execution_lifecycle.py:683) |
| LinkedTermsAgree | LinkedOrders | LinkedOrders | the entry of a bracket has neither parent nor OCA group and may be replaced alone (execution.py:562; runbook line 100) |
| OneOrderPerDecision | StrategyRuntime | StrategyRestarts | a plugin whose decision depends on its state sees an interrupted bar a second time and decides differently; the order number is a hash of the decision (runtime.py:568), so the bar gets a second order (README.md:180).  What such a plugin does keep is `CompletedBarsAreClosed` |
| ErrorsAreForTheCall | AdapterRequests | Adapter | request 2 is refused while order 2 waits; the error is recorded under the number (ibkr.py:2453), the order's caller fails with it and withdraws the order (tests/test_ibkr_adapter.py:102) |
| OpenOrderSnapshotsAreFull | AdapterQueries | Adapter | a query of the open orders times out, the rows of its answer come, the orders are queried again, which empties the table, and the end of the late answer completes the second query before any row of its own (ibkr.py:2223; runbook line 96) |
| EnvelopeIsHard | PreTradeRisk | PreTradeRisk | the envelope is checked on the first resolution of the policy, the verdict uses the second (execution.py:1502) |
| ExitsOnlyReduce | PreTradeRisk | PreTradeRisk with `Exits` {x1, x2} | two exits, each within the position, together turn it round: working exits are not reckoned with |
| OpenOrdersAreReckoned | PreTradeRisk | PreTradeRisk | a working order without a price ends every later authorization with an exception instead of being reckoned with (ledger.py:777) |

More follows from the same models and is not a formula:

- a TTL scan can record an order as expired "before broker submission" while it is at the
  broker (lifecycle.py:55); the lease is not checked again before `placeOrder`
  (execution.py:471); a crash between the claim and the transmission leaves SUBMITTING, which
  nothing takes up (execution.py:517); CANCEL_PENDING is not sent again (execution.py:705);
- an execution turns REPLACE_PENDING into PARTIAL_FILL while the pending request is not
  settled (ledger.py:657), which the comment at ledger.py:927 rules out for statuses; a
  replacement that times out and is refused later rejects the row of an order that works
  (execution.py:1283); a stale `orderStatus` is taken for the acknowledgement of a
  replacement (ibkr.py:2145);
- the withdrawal of a failed bracket also takes the protective stop of an entry that was
  filled meanwhile (execution.py:957); every member of an OCA group transmits
  (ibkr.py:986), where the runbook (line 97) says that only the last one does;
- an older version of an execution that arrives after a newer one supersedes it; a commission
  journaled before its execution stays unlinked for the strategy cursor;
- the bar of a second instrument with the same end is skipped (runtime.py:446); `resume()`
  after `close_trading_day()` runs without a trading date; a replay with another quote is an
  idempotency conflict and fails the strategy again;
- the symbol and traded-notional limits do not count working orders
  (boundary document, lines 87 and 90), and the gross limit is judged by a position read
  before the open orders: `ExposureIsLimited` therefore allows for what filled between;
- the authorization may expire while the call waits for the pacing window
  (execution.py:522); a restart forgets the window and the efficiency counts;
- a slot is given before the round trips behind which its message leaves, so that one message
  more than the limit may fall into a second (execution.py:723, ibkr.py:1009); the withdrawals
  of orders that were not acknowledged ask for no slot (ibkr.py:2157, 2204), and neither
  would the cancellations of a kill (execution.py:980) if the adapter let them pass;
- an error also emits a REJECTION event with the `order_ref` of the order that has its number
  (ibkr.py:1410), whichever call was meant;
- a position that changes while it is subscribed to may be twice in the rows of a query, and
  the account snapshot adds up the quantities of equal instruments (ibkr.py:828);
- `stop()` of a runtime that has not been started since a crash stores a checkpoint with
  cursor and time zero (runtime.py:402), so that all bars are open again; `CompletedBarsAreClosed`
  speaks of the checkpoint there is.

## 8. What is abstracted or not modelled

- SessionControl: `start()` under a persistent kill, PAPER and READ_ONLY mode, the
  market-data farm flag; the execution lease (OrderSubmission has it).
- OrderSubmission: the kill switch, quotes and risk limits (both outcomes are taken; see
  PreTradeRisk); a broker status after a crash is taken to carry the order's terms.
- LinkedOrders: partial fills (OrderLedger and OrderSubmission have them), executions, lease,
  a second process; the run has a bracket and no OCA group, which differs in `Transmits` and
  in the absence of an entry.
- BrokerBooks: corrections of executions, several instruments, sales; prices and commissions
  of a statement, the parsing of its XML.
- AdapterRequests: contents of answers; account summary, PnL, quotes and their subscriptions,
  the connection handshake; cancellations and batches of orders, which take their numbers the
  same way.  IBKR's nextValidId is assumed to exceed the ids of the orders it has taken up, and
  messages of an old connection to be received or lost before the new one.  The branch of
  `_allocate_order_id` for a missing id is not reachable once `connect()` has returned.
  `_ensure_client` may run `connect()` in two threads at once (ibkr.py:1273): the model has one
  connection at a time.  An order of another client with the same id overwrites the record of
  an own one (ibkr.py:1606); `_order_record_matches` keeps it from being taken for the
  acknowledgement.
- AdapterQueries: one connection; rows of an answer are contiguous on the wire; managed
  accounts and market rules, which are asked for once, and the executions, which are keyed.
- StrategyRuntime: what plugins compute; the registry.
- PreTradeRisk: quotes, collars, halts, PnL, funds and shortability are one refusal that may
  come at any time; the contingent exits of a bracket; the order efficiency ratio is a refusal
  that may come; several instruments; groups, which take several slots at once.
- Time: every deadline is an event that may happen at any moment; in PreTradeRisk the pacing
  window is counted in ticks.
- Option life cycle, contract rules, HTTP and authentication, numeric strategy code,
  ingestion, reporting, migrations, the deterministic backtest: no concurrent control that
  the order path depends on.  See "components".

## 9. Plan

1. (done) OrderLifecycle, OrderLedger, TransmissionPermit, OrderSubmission,
   SessionControl; proofs of the ledger and of the session's safety invariants.
2. (done) LinkedOrders, BrokerBooks, AdapterRequests, AdapterQueries, StrategyRuntime,
   RiskPolicies with PolicyInForce, PreTradeRisk; proof of the governance and of its refinement.
3. (done) Proofs of all safety and action properties that the runs check, and of the
   refinements of OrderLedger by OrderSubmission and LinkedOrders.
4. Prove the safety part of the kill paths in SessionControl beyond arming: no submission
   passes its gate after a kill it could have seen.
5. An OCA group in a run of LinkedOrders, and corrections of executions in BrokerBooks.
