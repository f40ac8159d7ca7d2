# SyncHook: TLA+ models, checks and proofs

SyncHook keeps liquidity pools on several chains in step. Contracts on each
chain (a Uniswap v4 hook, an AVS with its validation middleware and task
manager, a bridge contract) are driven by Go processes (aggregator, operator,
rebalancer, monitor). This directory holds TLA+ models of the parts that keep
state, the TLC runs that check them on small instances, and TLAPS proofs for
every instance. Paths below are those of the repository under `src/`.

## 1. Inventory

| Part | State it keeps | Operations | Correct when |
|---|---|---|---|
| Task manager, `src/avs/SyncTaskManager.sol` | tasks, active-task counter per operator, index arrays, fees, two pause flags | create, assign, start, complete, fail, cancel, sweep, configure | counters equal tasks held, capacity is kept, deadlines decide, ended tasks stay ended |
| Validation middleware, `src/avs/StateValidationMiddleware.sol` | votes and verdict per state hash, operator registry and statistics | register, unregister, vote, answer, record, configure | one vote each, verdict supported and current, slashing justified |
| AVS manager, `src/avs/SimplifiedSyncAVS.sol` | tasks, answers, per-chain pool states, pool metrics, requests, operators | create, respond, request, execute, register, slash | metrics follow the states, credit given once |
| Hook, `src/hooks/SyncHook.sol` | tracked liquidity per pool, chain list, breaker | swap, add and remove liquidity, emergency | tracked liquidity is the pool's |
| Bridge, `src/integration/AcrossIntegration.sol` | requests, cooldowns, chains, tokens, limits | request (and execute), configure | each request paid once, cooldown and limits kept |
| SyncAVS, `src/avs/SyncAVS.sol` | states per key, tasks, operators | submit, initiate, update, register | not modelled yet |
| Chain registry, state oracles, `src/integration/` | chain configurations; oracle prices and authorisations | add, remove, update | not modelled yet |
| Aggregator process, `AVS/aggregator/aggregator.go` | tasks with responses, pool states, counters | three timed loops, stop | consensus counted once, tasks settle, stale pools go |
| Pool state store, `AVS/pkg/state/aggregator.go` | global state per pool behind a read/write lock | update, read metrics, hand out records | fields belong together |
| Validator, predictor, `AVS/pkg/state/` | none; they read the store's records through pointers | validate a report; predict price, liquidity, need | old and future reports refused, predictions within their limits, also across an update |
| Alert manager, `AVS/pkg/monitoring/alerts.go` | alerts under a mutex, two bounded channels, handlers | create, check thresholds, resolve, process, clean up | news told once, lost only at a full channel, open alerts kept |
| Monitor and metrics, `AVS/pkg/monitoring/` | Prometheus registry, unprotected counters, alerts | construct, record, resolve, expire, reset, health check | nothing invented, every failure's alert accounted for, alerts expire |
| Operator process, `AVS/cmd/operator`, `AVS/internal/` | configuration, open clients, three groups of goroutines, transfers | start up, run, tick, transfer, stop, shut down | clients outlive their use, transfers keep the pace of the ticks, shutdown ends |

**Interaction.** The hook reads the AVS's global state before a swap, reports to
it after every callback and asks the bridge to rebalance. The middleware takes
votes from operators and records of the AVS. The AVS manager asks a validation
contract for the verdict on an answer. The Go aggregator turns operator
responses and pool reports into consensus and metrics; the store does the same
arithmetic for library users under a lock, and the predictor and the validator
read its records without the lock. The operator process polls its chains,
submits their states to EigenLayer and starts transfers through Across. The
alert manager and the monitor are libraries that any process may use.

**What is hard here.** Contract calls are atomic but arrive in any order, from
several parties, around deadline blocks; hand-kept counters and swap-and-pop
arrays must survive every order. Go loops meet the same task or pool again and
again; readers share records with a writer that changes them field by field; a
failing update leaves half of its writes; channels fill up, handlers fail,
increments race with resets, and a signal finds workers in the middle of an RPC.
`PROJECT.json` lists each hazard at
its line with the properties that cover it.

## 2. Modules

| Module | Models | Notes |
|---|---|---|
| `SyncTaskManager` | task manager | one action per external call; `Mine` is the block clock |
| `TaskLifecycle` | what the task manager promises | abstract: open, take, complete, close; no counters |
| `StateValidationMiddleware` | middleware | votes as sequences, swap-and-pop registry |
| `SimplifiedSyncAVS` | AVS manager | the validation contract's verdict is an input |
| `SyncHook` | hook | an action is the before-callback, the pool's change and the after-callback of one transaction |
| `AcrossIntegration` | bridge | a request and its execution are one action, as in the code |
| `PoolMetrics` | arithmetic of both Go aggregators | total, weighted average, variance, integer root, deviation |
| `SyncHookAggregator` | aggregator process | each loop body is one action under its mutex; tickers as the set `due` |
| `PoolPredictor`, `PoolValidator` | what the predictor and the validator compute | operators only, on top of `PoolMetrics` |
| `StateAggregator` | pool state store with predictor and validator | every field write of `UpdatePoolState` is a step, and so is every reading of the record by a prediction, a rebalancing need or a validation, each entry of a range over the chains included |
| `AlertManager` | alert manager | a section under the mutex is a step; the send after it is another |
| `Monitor` | monitor and metrics collector | `x++` is a read and a write; the four resets are four steps; an alert's id, its time and its storing are three |
| `OperatorProcess` | operator, rebalancer, chain monitor, clients, configuration | main, the workers and the ticks |
| `MC*` | TLC instances | input sets, symmetry |
| `SyncTaskManagerProofs`, `StateValidationMiddlewareProofs`, `SimplifiedSyncAVSProofs`, `SyncHookProofs`, `AcrossIntegrationProofs`, `AlertManagerProofs` | proofs about one component each | section 4 |
| `AggregatorProofs` | proofs about both Go aggregators | and the arithmetic of `PoolMetrics` |
| `OperatorProofs` | proofs about the operator process and the monitor | |

State variables carry the names of the storage they model; actions carry the
names of the functions. A `require` is a conjunct, a revert is no step. Owner
checks are left out of guards: the owner may make its calls at any time. Views,
events, reason strings and metadata are left out. Definitions marked "Mutant"
are plausible bugs, each of which breaks the property it is listed for in
`PROJECT.json`; they are used by no specification.

### How state and actions correspond

* **Task manager.** `tasks`, `operatorTaskCount`, the four index arrays,
  `config` (fee, reward, penalty) and both flags are the contract's storage.
  `checkTimeouts` takes the set of ids in the caller's array; that order and
  repetition do not matter is `SweepIsTheLoop`, which runs the code's loop
  (`TimeoutLoop`) on every array of `SweepArrays` in every reachable state: TLC on
  the arrays of up to two ids, the proof on any arrays.
* **Middleware.** The percentages of the code (scaled by 1e16 in one place and
  100 in the other) are modelled on a scale of 100 with the same rounding.
  `MinSubmissions` stands for the literal 10. Valid votes are the indices of the
  array that hold one (`ValidVotes`); their number is what the loop counts.
* **AVS manager.** Request ids are hashes of the parameters and the block time:
  `Routes \X time`. The slashing call of `_handleInvalidTaskResponse` is an
  external call of the contract to its own `onlyOwner` function, hence
  `CallerIsOwner == FALSE`. The loop over the chains 1 to 5 is `SumOfFive`.
* **Hook.** `poolLiquidity` is what the pool manager holds; it is external and
  is there to be compared with `currentPoolLiquidity`. The price the hook sees
  is the constant 1 that `_getPoolState` yields. `reported` is the last total
  submitted, with no pool, as the call names none. The AVS of the model takes
  every report; `SyncAVS` would not (section 5).
* **Bridge.** `avsFunds` is what SyncAVS has and has approved. The counter
  token and the imbalance that SyncAVS reported, kept in a request for the
  properties, are not stored by the code. A chain may have the id 0, which is
  also what a search without result returns.
  `Candidates` are the positions of the chain array that would do; the first wins.
* **Aggregator.** `AddTask`, `AddResponse` and `ReportState` are external: no
  code of the repository fills these maps. `reportedAt` is a history value. A
  loop may take one more tick after `Stop`, because `select` chooses freely.
* **Store, predictor, validator.** Two kinds of readers: `ReadLocked` (metrics,
  under the lock) and those that got a pointer from `GetGlobalPoolState` or
  `GetAllPoolStates` (`GetPointer`) and read the record without the lock. One
  action is one reading of one field; a range over the chain states is a `Walk`
  whose entries are met one by one (`Visit`) while updaters go on. `Prediction`,
  `Need` and `Validation` list the readings of `PredictPoolState`,
  `PredictRebalancingNeed` and `ValidatePoolState` in their order. The
  code's floating-point strengths and confidences are integers (per cent, tenths
  and their products), in the same order of comparisons. `Word` stands for 2^64.
  A call that would dereference the nil average of a pool whose only update
  failed ends the process (`AnalysisPanic`, `MetricsPanic`).
* **Alert manager.** `todo` and `sending` are where a caller is inside
  `CheckThresholds` and `CreateAlert`; `current` is where `processAlerts` is.
  `heard`, `dropped` and `resolutions` are history. Ids (a type and the
  nanosecond) are taken to be unique, and handlers to be added before `Start`:
  the list of handlers has no lock.
* **Monitor.** Of the 31 names of `NewMetrics`, the six it shares with
  `NewMonitor` and one for the rest. `Never` is the zero time of `LastUpdate`.
  `CreateAlert` is called by `RecordRebalancingFailure` and by other code
  (`CallCreateAlert`); its id is the type and a reading of the clock
  (`TakeAlertId`) that comes before the lock, so two calls may read the same, and
  the later one then replaces the earlier in the map (`StoreAlert`). `direct` and
  `repeated` are history.
* **Operator process.** `main` is the program counter of `main`, `New` and `Run`;
  `open` and `conns` are the clients that are open, `chains` the map from ids to
  the client of an entry of the configured list, which may name an id twice. The
  unit of time is the rebalancer's minute;
  the other tickers are given the same period, since a tick of theirs only asks
  and submits. The code is modelled as written; parts of `AVS/internal` do not
  compile (argument types that differ between packages).

## 3. Runs

`tlc -config X.cfg M` with M the module named. All bounds are CONSTANTS with
"bound" in their comment.

| Run | cfg, module | Shows |
|---|---|---|
| `task` | `SyncTaskManager`, `MCSyncTaskManager` | counters, capacity, indexes, deadlines, sweep = loop; with fairness every held task is released; refinement of `TaskLifecycle` |
| `validation` | `StateValidation`, `MCStateValidationMiddleware` | registry, one vote each, supported and current verdicts, justified slashing |
| `avs` | `SimplifiedSyncAVS`, `MCSimplifiedSyncAVS` | metrics of current states, worst imbalance, credit once, settled requests |
| `across` | `AcrossIntegration`, `MCAcrossIntegration` | paid once, cooldown; requests go to another supported chain, within the limits and the imbalance reported |
| `hook` | `SyncHook`, `MCSyncHook` | the tracked liquidity follows the pool until the first optimised swap, and moves with it always |
| `aggregator` | `SyncHookAggregator`, `MCSyncHookAggregator` | consensus counted once, sound metrics, tasks settle |
| `store` | `StateAggregator`, `MCStateAggregator` | fields agree after an update; what a failed one leaves; limits of predictions and needs across updates; which reports are accepted |
| `alerts` | `AlertManager`, `MCAlertManager` | told once, nothing lost but at a full channel, open alerts kept, news arrives |
| `monitor` | `Monitor`, `MCMonitor` | counts never invented, alerts lost only to a repeated id, alerts expire |
| `operator` | `OperatorProcess`, `MCOperatorProcess` | clients outlive their use, transfers keep the pace of the ticks, shutdown completes |
| `hook_tracking` | violation | the tracked liquidity is not the pool's after a swap |
| `aggregator_stale` | violation | a pool nobody reports is never removed while it is aggregated |

The type invariant of a module is the first conjunct of one of its properties.

**Bounds.** Two tasks and two operators with room for one each give every
conflict over a slot, a deadline and an id; the proofs lift this and every
other safety claim to any number. Three validators with a minimum of two give
consensus with and without dissent, and one of them is voted for by SyncAVS.
Two chains and three pool states give empty, equal and uneven pools and an
exact square for the integer root. Deadlines and cooldowns of one or two blocks
put calls before, at and after the boundary. The bridge's chains are its own and
one with the id 0. Two updaters and one reader give every order of locked
updates around the readings of a prediction; three chains are the fewest that
have a trend other than sideways. Channels of one
place with two alerts are full as often as not; two handlers are the fewest of
which one can fail before the other. Two recorders and a reset limit that the
calls pass give every race on a counter; a clock with one nanosecond in a second
and two alert types give ids that repeat and ids that differ, and its two seconds
are one more than the expiry. Two minutes let a late tick meet the next one and
start its transfer in the same minute; the configurations are complete ones with
both chains, one, none and one chain twice, and one for each fault that start-up
tests for.

**Fairness.** `task` assumes that blocks are mined and that somebody
keeps sweeping each task: the contract schedules nothing itself, so this is what
a keeper has to provide. `aggregator` assumes that time passes and that a
goroutine whose ticker fired gets to run, which the Go scheduler guarantees;
the property excuses a stopped aggregator. `alerts` assumes that the processing
goroutine and a caller that is about to send get to run, and excuses a manager
that is not running. `monitor` assumes that time passes, that a recorder in the
middle of a call goes on and that the expiry ticks. `operator` assumes that
goroutines that can run do, that an RPC answers or fails some time, and, for the
context's branch of a `select`, strong fairness: Go chooses at random among the
ready branches, so a branch that is ready again and again is taken. That an RPC
ends is an assumption about the nodes: the calls use `context.Background()`
without a deadline, so a node that hangs keeps the process from shutting down.
The runs of Go processes switch the deadlock check off because a stopped process
stops.

## 4. Proofs

Every safety property that a passing run checks is also a theorem, for every
value of the constants, with the bounds of the runs among them. What the run
shows on a small instance comes first; the inductive invariants below were found
from failed proof steps.

**`SyncTaskManagerProofs`**, for any operators, tasks, blocks and inputs:

* `Invariance`: the inductive invariant `IInv`, which the run `task` checks too;
  `TypeCorrect`, `CountTheorem` and `CapacityTheorem` state its parts;
* `DeadlineTheorem`: `DeadlineHonoured`, by induction on top of `IInv`, whose types
  it needs: the tests of `startTask`, `completeTask` and the sweep meet in one block;
* `CompletedTheorem`, `ClosedTheorem`: a completed task is never touched again,
  and a failed, cancelled or timed-out one never becomes work again;
* `IndexTheorem`: `IndexesAgree`, an induction of its own on top of `IInv`:
  an id is pushed once because `IdsInOrder` makes the next id a new one;
* `SweepTheorem`: the loop of `checkTimeouts` over any array, in any order and
  with repetitions, leaves what the action leaves;
* `Refinement`: the contract implements `TaskLifecycle` under `PhaseOf`.

`CountIsHeld` is not inductive alone: the decrement of `cancelTask` is skipped
for a task without operator, so a held task must be known to have one
(`HolderKnown`), and `createTask` must not overwrite a held task, so ids above
the counter must be untouched (`IdsInOrder`). `IInv` adds both to `TypeOK`,
`CountIsHeld` and `CapacityRespected`. The argument for the counter reduces
every call to one of three facts about the set of held tasks: it is the same
(`SameHolders`), it loses one task (`ClosingReleases`), it gains one
(`AssignCounts`); the sweep removes a set (`SweepCounts`). The refinement proof
maps each call to one abstract step or a stutter, using `CountIsHeld` to turn
the counter check of `assignTask` into the abstract capacity check.

**`StateValidationMiddlewareProofs`**, for any validators, hashes, thresholds and
penalties: `RegistryTheorem`, `OneVoteTheorem` (which exempts the validators that
SyncAVS records votes for: `recordValidation` has no check for a second vote), `SupportTheorem` and the action
properties `RecomputedTheorem` and `SlashingTheorem`. `IInv` is the conjunction of
the three invariants and `VotesCounted` (the counter of a hash is the length of
its array of votes), without which a verdict cannot be related to the votes it
was computed from.

**`SimplifiedSyncAVSProofs`**, for any pools, chain states, operators and
requests: `MetricsTheorem`, `ImbalanceTheorem`, `CreditTheorem` and `SettleTheorem`.
What the properties say of the stored metrics follows from `MetricsFollow`, that
they are at any time what `_recalculateAggregatedMetrics` gives for the stored
states; lemmas then say what that function computes (an average between the
prices, the largest of the rounded imbalances).

**`SyncHookProofs`**, for any pools, amounts and AVS answers: `TrackedTheorem` and
`MoveTheorem` from an invariant that joins `TrackedUntilSwap` with the types of
the pools; `MayRemove` is what keeps subtraction exact.

**`AcrossIntegrationProofs`**, for any tokens, chains, settings and number of
requests: `PaidTheorem`, `CooldownTheorem` and `SaneTheorem`. The invariant has four
parts besides the types: `AllExecuted`; `TokensKept`, which carries the partial
sums of the requests as a witness, since the recursive sum `Moved` cannot be
unfolded one request further by itself; `StampsKept`, that the stamp of a
pair is not older than any of its requests, from which the cooldown follows; and
`ChainsListed`, that a supported chain is in the array, without which the 0 of a
search that found nothing could pass for a supported chain 0.

**`AggregatorProofs`**, about both Go aggregators. The arithmetic they share comes
first: what a sum over a finite set is, that a weighted average lies between two
prices, that the binary search `sqrt` returns the integer root. Then

* the store with predictor and validator, for any updaters, readers, chains and
  reports: `FieldsTheorem`, `FailureTheorem`, `PredictionTheorem`,
  `RebalancingTheorem`, `RecentTheorem`. `IInv` says that an updater is at work
  exactly while it holds the lock (`LockHeld`), that the fields it has written up
  to its program counter belong to the chain states (`FieldsFollow`), and what
  each reader has so far (`ReadersKept`): for each place in its code `ReaderGood`
  says what it has read and worked out, and `WalkGood` what a range has met. A
  reader keeps its limits because no field that was written becomes nil again,
  whatever an updater does between two readings;
* the process, for any tasks, operators, pools and rounds: `ConsensusTheorem` and
  `UpdateTheorem`. `ProcessInv` adds that the maps are finite (`MapsFinite`), that
  consensus is supported by the responses and comes only to known tasks
  (`ConsensusSupported`), and that the counter is the number of tasks with
  consensus (`CompletedCounted`): a round adds the tasks that are new in that set.

**`AlertManagerProofs`**, for any callers, handlers and channel sizes, with two
invariants. `StoreInv`, for `OpenTheorem`, relates the map to the history of
resolutions: an alert that is gone was resolved long enough ago, and open alerts
are the created ones without a resolution. `NewsInv`, for `ToldOnceTheorem` and
`NoNewsLostTheorem`, says where news is: with a caller, in a channel, in hand, or
heard by all, in one place only (`InOnePlace`, `NewsPlaced`); and that the handlers
left are the last ones of the list (`LastHandlersLeft`), so that those already
told are not told again.

**`OperatorProofs`**, about two programs:

* the operator process, for any chains, configurations and time:
  `ClientsTheorem` and `TransferTheorem`. `StagesInOrder` says what each stage of
  `main` knows of clients and workers, and `Latest` that the map has the last of
  the entries with an id, so that only the others can be left open.
  `TransfersPaidFor` counts, besides the transfers, the tick the rebalancer has in
  hand and the one that waits in its ticker (`Held`): each leads to a transfer, so
  since any transfer there was a minute for every later one and every tick held,
  but for the tick that waited at the time;
* the monitor, for any recorders and calls: `NothingInventedTheorem` and
  `AlertsTheorem`. `ReadsCovered` bounds also what a recorder has read and is about
  to write back, `StampsCounted` ties the time of the last update to a counted
  one, and `AlertsCounted` adds to `AlertsAccountedFor` that the sets it counts are
  finite.

`OperatorProcess` and `Monitor`, and `SyncHookAggregator` and `StateAggregator`, are
extended together by one module of proofs; that is why one specification of each
pair has a prefix to its names (`OperatorSpec`, `ProcessSpec`).

**Recursion.** The sums, the square root, `Moved` and the loop of `checkTimeouts`
are recursive functions or folds over sets. Their values are proved by minimal
counterexample instead of an induction rule: the arguments for which a formula
fails are a set of numbers, or of finite sets, that would have a least member
(`LeastNumber`, `MinimalSubset`), and one unfolding contradicts it. The sum over
the chains 1 to 5 of the AVS is unrolled (`SumOfFive`), as the code's bound is
literal.

**Assumptions** are the named ASSUMEs of the modules; TLC evaluates them in every
run. Most say that inputs are naturals and that nil values are not values. Those
with more content:

* `ClockAssumption` (store): seconds and timestamps fit in `Word`, the range of
  uint64. The gap a caller allows is any such number, and `AcceptedIsRecent` says what
  a gap longer than the clock has run lets in.
* `AlertAssumption` (alerts): the list of handlers has no entry twice. Code that is
  added twice is two handlers here, since each entry is called.
* `MonitorAssumption`: the zero time is before all others by more than the health
  window.

**Only model-checked**: liveness (`HeldTasksAreReleased`, `TasksSettle`,
`NewsArrives`, `AlertsExpire`, `ShutdownCompletes`), since fairness and ENABLED are
beyond the prover. `TrackedIsPool` and `StalePoolsAreRemoved` are false.

## 5. What the work found

Two disagreements are runs of their own:

* A swap overwrites the tracked liquidity of the pool with the AVS's figure for
  all chains; removals are then checked against it (`SyncHook.sol:241`).
* Aggregating a pool refreshes the time by which stale pools are found
  (`aggregator/aggregator.go:357`).

Others were met while modelling and show in the definitions:

* A rejected answer raises `slashingCount` and takes no stake: the contract is
  not its own owner and the revert is swallowed (`SimplifiedSyncAVS.sol:306`),
  while `docs/ARCHITECTURE.md:72` speaks of stake slashing (`CallerIsOwner`).
* `GetAllPoolStates` copies the map, not the records, although its comment
  promises a copy (`pkg/state/aggregator.go:116`). A prediction may therefore mix
  two updates; `PredictionBounded` and `RebalancingBounded` say what is left of
  the limits then.
* The confidence of a prediction is never fresh: `predictor.go:432` subtracts
  `LastUpdateBlock`, the number of a block, from Unix seconds, so the age is far
  above ten minutes and the factor 0.6, where the comments of `:430` to `:437`
  ("data freshness", "Less than 1 minute" for 1.0) mean the age of the data
  (`PredictConfidence`). No property bounds the confidence.
* `calculateConfidence` of the validator tests the average for zero and divides by
  a later reading of it (`pkg/state/validator.go:281`): an update in between that
  makes it zero ends the process (`DeviationPercent`).
* `chainTasks` and `typeTasks` are described as "chain ID to pending tasks" and
  "task type to pending tasks" (`SyncTaskManager.sol:80` and `:83`), but no call
  takes an id out of them: they are archives of all tasks ever created.
  `IndexesAgree` states what the code does, so it does not confirm those comments.
* The hook reports with an empty signature and no pool id
  (`SyncHook.sol:268`). `SyncAVS` refuses the empty signature
  (`SyncAVS.sol:232`, `:526`), so with it every callback that reports reverts, and
  it derives its key from price and liquidity (`:535`), so two reports of one
  pool would not meet under one key. `SyncHook` models an AVS that answers.
* A process cannot have both a `Monitor` and a `Metrics`: their names collide and
  the registry panics (`metrics.go:72`, `Register`).
* Two alerts of one type in one nanosecond have one id and the later replaces the
  earlier (`monitor.go:169`); `AlertsAccountedFor` counts those losses and excludes
  others.
* The client of a chain entry whose id comes again later in the list is replaced
  in the map and never closed (`operator.go:51`); the configuration's validation
  (`config.go:154`) does not refuse the list. `ClientsOutliveUse` names exactly
  these clients.
* Two transfers may start in one minute, when a tick is held up by a slow node
  and the next waits behind it (`rebalancer.go:86`); `TransfersArePaced` says how
  many can come in any span of minutes.
* Increments and resets of the monitor's counters are lost; `NothingInvented` is
  what does hold.
* `rebalance_cooldown` ("300s" in `AVS/config.yaml:126`) is never read: transfers
  start with every tick, finished or not (`executeRebalancing`).
* `Stop` cancels and waits but does not make `Run` return (`Stop`).
* `SignMessage` cuts the recovery byte off the signature and
  `ValidateOperatorSignature` needs it (`pkg/state/validator.go:104` and `:336`);
  not modelled.

## 6. Not modelled, and the plan

Next, in this order:

1. `SyncAVS` and the composition hook - SyncAVS - bridge: the hook sends an
   empty signature and calls the bridge as itself, so which transactions can
   succeed at all is a question about the three together.
2. `ChainRegistry` and `StateOracles`: limits, freshness, median and confidence.
3. `SyncHookL1`, `SyncHookL2`, `AVSTaskHook`.

Each with its proofs; of the modules above only liveness is left unproved.

Not planned: Solidity libraries that no contract calls; the client packages and
the second operator (`AVS/operator/operator.go`), whose constructor always
fails, so that no state of them is reachable; the validator's signatures; the
metrics collector's recorders, whose values nothing reads; parsing of
configuration, logging, deployment scripts. The operator's goroutines that watch
a transfer are modelled up to their end; the deposit id, the Unix time in
seconds, is not, since the status that is looked up by it does not depend on it.
