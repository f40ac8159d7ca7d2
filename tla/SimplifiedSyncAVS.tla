-------------------------- MODULE SimplifiedSyncAVS --------------------------
(***************************************************************************)
(* The AVS service manager, src/src/avs/SimplifiedSyncAVS.sol.  Tasks ask  *)
(* for pool states; registered operators answer before a deadline; every   *)
(* accepted answer is written to the pool's per-chain state at once and    *)
(* the pool's metrics are recomputed.  Rebalancing tasks have an id that   *)
(* is the hash of their parameters and of block.timestamp.                 *)
(*                                                                         *)
(* The verdict on an answer comes from another contract (IStateValidation),*)
(* which may accept, reject or revert.  Task hashes, metadata and events   *)
(* are left out, and of the pool state of a task only what an answer can   *)
(* carry.                                                                  *)
(***************************************************************************)
EXTENDS Integers, FiniteSetsExt

CONSTANTS
    Operators,
    Pools,
    Chains,                 \* chain ids that answers name
    PoolStates,             \* answers: [totalLiquidity, price, timestamp]
    Verdicts,               \* what stateValidation may do: subset of
                            \* {"valid", "invalid"}; a revert is no step
    Routes,                 \* parameters of rebalancing tasks
    PenaltyRates,           \* slashing rates the owner asks for
    PERCENTAGE_PRECISION,
    MAX_SLASHING_PENALTY,
    OPERATOR_STAKE_MINIMUM,
    TASK_RESPONSE_WINDOW,
    InitialPenaltyRate,     \* SLASHING_PENALTY_RATE
    MaxTasks,               \* bound: state update tasks
    MaxTime,                \* bound: block.timestamp
    MaxSlashes              \* bound: slashings counted per operator

ASSUME AVSAssumption ==
    /\ Verdicts \subseteq {"valid", "invalid"}
    /\ PoolStates \subseteq [totalLiquidity : Nat, price : Nat, timestamp : Nat]
    /\ Chains \subseteq Nat
    /\ PERCENTAGE_PRECISION \in Nat \ {0}
    /\ {MAX_SLASHING_PENALTY, OPERATOR_STAKE_MINIMUM, TASK_RESPONSE_WINDOW,
        InitialPenaltyRate, MaxTasks, MaxTime, MaxSlashes} \subseteq Nat
    /\ PenaltyRates \subseteq Nat

VARIABLES
    now,                    \* block.timestamp
    latestTaskNum,
    taskDeadline,           \* taskMetadata[index].taskDeadline, 0: no task
    taskResponses,          \* pairs <<index, operator>> that are TRUE
    rebalancingTasks,       \* request id => [deadline, status]
    operatorInfo,
    chainStates,            \* pool => chain => PoolState
    aggregatedMetrics,      \* pool => metrics
    slashingPenaltyRate,
    maxSlashingPenalty,
    paused

vars == <<now, latestTaskNum, taskDeadline, taskResponses, rebalancingTasks,
          operatorInfo, chainStates, aggregatedMetrics, slashingPenaltyRate,
          maxSlashingPenalty, paused>>

taskVars  == <<latestTaskNum, taskDeadline, taskResponses>>
poolVars  == <<chainStates, aggregatedMetrics>>
paramVars == <<slashingPenaltyRate, maxSlashingPenalty>>

-----------------------------------------------------------------------------

Tasks == 1 .. MaxTasks

\* keccak256(abi.encode(params, block.timestamp)): one id per parameters and
\* block time.
RequestIds == Routes \X (1 .. MaxTime)

NoPoolState == [totalLiquidity |-> 0, price |-> 0, timestamp |-> 0]
NoMetrics   == [totalLiquidity |-> 0, weightedAveragePrice |-> 0, maxImbalance |-> 0]
NoRequest   == [deadline |-> 0, status |-> "PENDING"]
NoOperator  == [stakeAmount |-> 0, isRegistered |-> FALSE,
                taskResponseCount |-> 0, slashingCount |-> 0]
NewOperator == [stakeAmount |-> OPERATOR_STAKE_MINIMUM, isRegistered |-> TRUE,
                taskResponseCount |-> 0, slashingCount |-> 0]

\* Mutant: only a shortage is an imbalance.
calculateShortage(actual, expected) ==
    IF expected = 0 \/ actual > expected THEN 0
    ELSE ((expected - actual) * PERCENTAGE_PRECISION) \div expected

calculateImbalance(actual, expected) ==
    IF expected = 0 THEN 0
    ELSE (Max({actual - expected, expected - actual}) * PERCENTAGE_PRECISION)
            \div expected

\* The chains 1 to 5 that have a timestamp.
LiveChains(states) == {c \in Chains \cap (1 .. 5) : states[c].timestamp > 0}

\* What a loop over the chains 1 to 5 adds up, from the chains f is defined on.
SumOfFive(f) ==
    LET term(i) == IF i \in DOMAIN f THEN f[i] ELSE 0
    IN  term(1) + term(2) + term(3) + term(4) + term(5)

TotalOf(states) ==
    SumOfFive([c \in LiveChains(states) |-> states[c].totalLiquidity])
WeightedOf(states) ==
    SumOfFive([c \in LiveChains(states) |-> states[c].price * states[c].totalLiquidity])

\* The imbalances that _recalculateAggregatedMetrics takes the largest of.
ImbalancesOf(states) ==
    {0} \cup {calculateImbalance(states[c].totalLiquidity,
                                 TotalOf(states) \div Cardinality(LiveChains(states))) :
                  c \in LiveChains(states)}

\* _recalculateAggregatedMetrics
recalculateAggregatedMetrics(states) ==
    IF TotalOf(states) > 0
    THEN [totalLiquidity |-> TotalOf(states),
          weightedAveragePrice |-> WeightedOf(states) \div TotalOf(states),
          maxImbalance |-> Max(ImbalancesOf(states))]
    ELSE [totalLiquidity |-> TotalOf(states),
          weightedAveragePrice |-> WeightedOf(states), maxImbalance |-> 0]

\* slashOperator's effect; it is onlyOwner.
Slashed(info, amount) ==
    [info EXCEPT !.stakeAmount = @ - amount, !.slashingCount = @ + 1]

SlashAllowed(info, amount) == info.isRegistered /\ amount <= info.stakeAmount

\* The amount that _handleInvalidTaskResponse works out ...
SlashAmount(info) ==
    Min({(info.stakeAmount * slashingPenaltyRate) \div PERCENTAGE_PRECISION,
         maxSlashingPenalty})

\* ... and what its "try this.slashOperator(...) {} catch {}" does with it:
\* the external call comes from the contract itself, which is never the
\* owner, so onlyOwner reverts and the revert is swallowed.
CallerIsOwner == FALSE

handleInvalidTaskResponse(info) ==
    LET counted == [info EXCEPT !.slashingCount = @ + 1]
        amount  == SlashAmount(info)
    IN  IF amount > 0 /\ CallerIsOwner /\ SlashAllowed(counted, amount)
        THEN Slashed(counted, amount) ELSE counted

-----------------------------------------------------------------------------

Init ==
    /\ now = 1
    /\ latestTaskNum = 0
    /\ taskDeadline = [t \in Tasks |-> 0]
    /\ taskResponses = {}
    /\ rebalancingTasks = [r \in RequestIds |-> NoRequest]
    /\ operatorInfo = [o \in Operators |-> NoOperator]
    /\ chainStates = [p \in Pools |-> [c \in Chains |-> NoPoolState]]
    /\ aggregatedMetrics = [p \in Pools |-> NoMetrics]
    /\ slashingPenaltyRate = InitialPenaltyRate
    /\ maxSlashingPenalty = MAX_SLASHING_PENALTY
    /\ paused = FALSE

\* By anybody.
createStateUpdateTask ==
    /\ latestTaskNum < MaxTasks                                 \* bound
    /\ ~paused
    /\ latestTaskNum' = latestTaskNum + 1
    /\ taskDeadline' = [taskDeadline EXCEPT ![latestTaskNum + 1] =
                           now + TASK_RESPONSE_WINDOW]
    /\ UNCHANGED <<now, taskResponses, rebalancingTasks, operatorInfo,
                   poolVars, paramVars, paused>>

\* Mutant: a second answer.
MayRespondAgain(t, o) ==
    /\ operatorInfo[o].isRegistered
    /\ ~paused
    /\ taskDeadline[t] # 0
    /\ now <= taskDeadline[t]

MayRespond(t, o) ==
    /\ operatorInfo[o].isRegistered
    /\ ~paused
    /\ taskDeadline[t] # 0
    /\ now <= taskDeadline[t]
    /\ <<t, o>> \notin taskResponses

\* Mutant: the metrics are recomputed before the state is stored.
updateGlobalPoolStateLate(pool, chain, state) ==
    /\ chainStates' = [chainStates EXCEPT ![pool] = [@ EXCEPT ![chain] = state]]
    /\ aggregatedMetrics' = [aggregatedMetrics EXCEPT ![pool] =
                                recalculateAggregatedMetrics(chainStates[pool])]

updateGlobalPoolState(pool, chain, state) ==
    LET states == [chainStates[pool] EXCEPT ![chain] = state] IN
    /\ chainStates' = [chainStates EXCEPT ![pool] = states]
    /\ aggregatedMetrics' = [aggregatedMetrics EXCEPT ![pool] =
                                recalculateAggregatedMetrics(states)]

\* An accepted answer; it names the pool and the chain itself.
respondValid(t, o, pool, chain, state) ==
    /\ "valid" \in Verdicts
    /\ MayRespond(t, o)
    /\ taskResponses' = taskResponses \cup {<<t, o>>}
    /\ operatorInfo' = [operatorInfo EXCEPT ![o].taskResponseCount = @ + 1]
    /\ updateGlobalPoolState(pool, chain, state)
    /\ UNCHANGED <<now, latestTaskNum, taskDeadline, rebalancingTasks,
                   paramVars, paused>>

\* A rejected answer is not marked as given: the operator may answer again.
respondInvalid(t, o) ==
    /\ operatorInfo[o].slashingCount < MaxSlashes               \* bound
    /\ "invalid" \in Verdicts
    /\ MayRespond(t, o)
    /\ operatorInfo' = [operatorInfo EXCEPT ![o] = handleInvalidTaskResponse(@)]
    /\ UNCHANGED <<now, taskVars, rebalancingTasks, poolVars, paramVars, paused>>

\* By anybody.  Whatever is stored under the id is overwritten.
createRebalancingTask(route) ==
    /\ ~paused
    /\ rebalancingTasks' = [rebalancingTasks EXCEPT ![<<route, now>>] =
          [deadline |-> now + TASK_RESPONSE_WINDOW, status |-> "PENDING"]]
    /\ UNCHANGED <<now, taskVars, operatorInfo, poolVars, paramVars, paused>>

\* Mutant: executed requests are executed again.
MayExecuteAgain(o, r) == operatorInfo[o].isRegistered /\ ~paused

MayExecute(o, r) ==
    /\ operatorInfo[o].isRegistered
    /\ ~paused
    /\ rebalancingTasks[r].status = "PENDING"

\* An id never created reads as PENDING with deadline 0 and expires.
executeRebalancingTask(o, r) ==
    /\ MayExecute(o, r)
    /\ rebalancingTasks' = [rebalancingTasks EXCEPT ![r].status =
          IF now > rebalancingTasks[r].deadline THEN "EXPIRED" ELSE "COMPLETED"]
    /\ UNCHANGED <<now, taskVars, operatorInfo, poolVars, paramVars, paused>>

\* By anybody, for anybody, registered or not.
registerOperator(o) ==
    /\ operatorInfo' = [operatorInfo EXCEPT ![o] = NewOperator]
    /\ UNCHANGED <<now, taskVars, rebalancingTasks, poolVars, paramVars, paused>>

\* By the operator or the owner.
deregisterOperator(o) ==
    /\ operatorInfo' = [operatorInfo EXCEPT ![o].isRegistered = FALSE]
    /\ UNCHANGED <<now, taskVars, rebalancingTasks, poolVars, paramVars, paused>>

\* By the owner.
slashOperator(o, amount) ==
    /\ operatorInfo[o].slashingCount < MaxSlashes               \* bound
    /\ SlashAllowed(operatorInfo[o], amount)
    /\ operatorInfo' = [operatorInfo EXCEPT ![o] = Slashed(@, amount)]
    /\ UNCHANGED <<now, taskVars, rebalancingTasks, poolVars, paramVars, paused>>

updateSlashingParameters(rate, max) ==
    /\ rate <= MAX_SLASHING_PENALTY
    /\ slashingPenaltyRate' = rate
    /\ maxSlashingPenalty' = max
    /\ UNCHANGED <<now, taskVars, rebalancingTasks, operatorInfo, poolVars, paused>>

\* pauseAVS and unpauseAVS.
setPaused(b) ==
    /\ paused # b
    /\ paused' = b
    /\ UNCHANGED <<now, taskVars, rebalancingTasks, operatorInfo, poolVars, paramVars>>

Tick ==
    /\ now < MaxTime                                            \* bound
    /\ now' = now + 1
    /\ UNCHANGED <<taskVars, rebalancingTasks, operatorInfo, poolVars, paramVars, paused>>

Next ==
    \/ createStateUpdateTask
    \/ \E t \in Tasks, o \in Operators :
          \/ \E p \in Pools, c \in Chains, s \in PoolStates : respondValid(t, o, p, c, s)
          \/ respondInvalid(t, o)
    \/ \E r \in Routes : createRebalancingTask(r)
    \/ \E o \in Operators :
          \/ \E r \in RequestIds : executeRebalancingTask(o, r)
          \/ registerOperator(o)
          \/ deregisterOperator(o)
          \/ \E a \in 0 .. OPERATOR_STAKE_MINIMUM + 1 : slashOperator(o, a)
    \/ \E rate \in PenaltyRates, max \in PenaltyRates : updateSlashingParameters(rate, max)
    \/ \E b \in BOOLEAN : setPaused(b)
    \/ Tick

Spec == Init /\ [][Next]_vars

-----------------------------------------------------------------------------
(* Properties *)

TypeOK ==
    /\ now \in Nat
    /\ latestTaskNum \in 0 .. MaxTasks
    /\ taskDeadline \in [Tasks -> Nat]
    /\ taskResponses \subseteq Tasks \X Operators
    /\ rebalancingTasks \in
          [RequestIds -> [deadline : Nat, status : {"PENDING", "COMPLETED", "EXPIRED"}]]
    /\ operatorInfo \in [Operators -> [stakeAmount : Nat, isRegistered : BOOLEAN,
                                       taskResponseCount : Nat, slashingCount : Nat]]
    /\ chainStates \in [Pools -> [Chains -> PoolStates \cup {NoPoolState}]]
    /\ aggregatedMetrics \in [Pools -> [totalLiquidity : Nat,
                                        weightedAveragePrice : Nat, maxImbalance : Nat]]
    /\ slashingPenaltyRate \in Nat /\ maxSlashingPenalty \in Nat
    /\ paused \in BOOLEAN

\* The chains of a pool that have a state.
Live(p) == LiveChains(chainStates[p])

\* After any sequence of answers, from any operators and overwriting each
\* other, the stored metrics of a pool are those of its current chain
\* states: the average lies between the prices of the chains that have
\* liquidity, and the total covers every one of them.
MetricsAreCurrent ==
    /\ TypeOK
    /\ \A p \in Pools :
          LET m      == aggregatedMetrics[p]
              priced == {c \in Live(p) : chainStates[p][c].totalLiquidity > 0}
          IN  /\ priced = {} => m.totalLiquidity = 0 /\ m.weightedAveragePrice = 0
              /\ priced # {} =>
                   /\ \E c \in priced : chainStates[p][c].price <= m.weightedAveragePrice
                   /\ \E c \in priced : chainStates[p][c].price >= m.weightedAveragePrice
                   /\ \A c \in priced : chainStates[p][c].totalLiquidity <= m.totalLiquidity

\* The imbalance of a pool is that of its furthest chain, above or below an
\* even split, rounded down: no chain is further away, and one is that far.
ImbalanceIsWorst ==
    \A p \in Pools :
        LET m        == aggregatedMetrics[p]
            expected == m.totalLiquidity \div Cardinality(Live(p))
        IN  m.totalLiquidity > 0 /\ expected > 0 =>
               /\ \A c \in Live(p) :
                     /\ (chainStates[p][c].totalLiquidity - expected) * PERCENTAGE_PRECISION
                           < (m.maxImbalance + 1) * expected
                     /\ (expected - chainStates[p][c].totalLiquidity) * PERCENTAGE_PRECISION
                           < (m.maxImbalance + 1) * expected
               /\ \E c \in Live(p) :
                     \/ m.maxImbalance * expected
                           <= (chainStates[p][c].totalLiquidity - expected) * PERCENTAGE_PRECISION
                     \/ m.maxImbalance * expected
                           <= (expected - chainStates[p][c].totalLiquidity) * PERCENTAGE_PRECISION

\* An operator is credited for an answer at most once per task, also when it
\* leaves, registers again and meets the same task.
CreditOncePerTask ==
    \A o \in Operators :
        operatorInfo[o].taskResponseCount
            <= Cardinality({t \in Tasks : <<t, o>> \in taskResponses})

\* Once its block is over, a rebalancing request that was executed or has
\* expired keeps that status; within its block it can be created again.
RequestsSettleStep ==
    \A r \in RequestIds :
        rebalancingTasks[r].status # "PENDING" /\ now > r[2]
            => rebalancingTasks'[r].status = rebalancingTasks[r].status
RequestsSettle == [][RequestsSettleStep]_vars

=============================================================================
