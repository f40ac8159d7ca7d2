-------------------------- MODULE SyncHookAggregator --------------------------
(***************************************************************************)
(* The aggregator process, src/AVS/aggregator/aggregator.go: a loop that   *)
(* expires tasks and looks for consensus, a loop that aggregates the pool  *)
(* states and drops old ones, and a loop that counts pools in need of      *)
(* rebalancing.  Each loop body runs under a mutex, so it is one action;   *)
(* due holds the loops whose ticker has fired, and, as a ticker's channel  *)
(* holds one tick, a loop that is late runs once.                          *)
(*                                                                         *)
(* No code of the repository fills tasks and poolStates; the actions that  *)
(* do are external and write what the loops read.  Periods are equal, time *)
(* is counted in periods.  A pool is stored with all its numbers present  *)
(* (checkRebalancingNeeds would panic on a nil one).  Rebalancing is       *)
(* enabled; the health check does nothing.                                 *)
(***************************************************************************)
EXTENDS PoolMetrics

CONSTANTS
    Tasks, Operators, Pools,
    Quorums,                \* QuorumThresholdPercentage of tasks
    MaxStateAge,
    RebalancingThreshold,   \* percent
    MaxTime                 \* bound

ASSUME AggregatorAssumption ==
    /\ Quorums \subseteq Nat
    /\ MaxStateAge \in Nat /\ RebalancingThreshold \in Nat /\ MaxTime \in Nat

VARIABLES
    now,
    due,                    \* loops whose ticker has fired
    running,                \* FALSE after Stop
    alive,                  \* loops that have not returned
    tasks,                  \* task => SyncHookTask or NoTask
    poolStates,             \* pool => GlobalPoolState or NoPool
    tasksCompleted, tasksFailed, stateUpdates, rebalancingOps   \* counters

processVars == <<now, due, running, alive, tasks, poolStates, tasksCompleted, tasksFailed,
                 stateUpdates, rebalancingOps>>

-----------------------------------------------------------------------------

Loops  == {"tasks", "states", "rebalancing"}
NoTask == [status |-> 0, deadline |-> 0, quorum |-> 0, consensus |-> FALSE,
           valid |-> {}, invalid |-> {}]
Completed == 3
Failed    == 4

\* reportedAt is not in the code: when the youngest report came in.
NoPool == [chainStates |-> << >>, total |-> 0, average |-> 0, score |-> 0,
           latest |-> 0, lastUpdated |-> 0, reportedAt |-> 0]

KnownTasks == {t \in Tasks : tasks[t].status # 0}
KnownPools == {p \in Pools : poolStates[p] # NoPool}

-----------------------------------------------------------------------------
(* Tasks *)

processConsensus(task) ==
    IF ~task.consensus /\ Cardinality(task.valid) >= task.quorum
    THEN [task EXCEPT !.consensus = TRUE, !.status = Completed]
    ELSE task

\* Mutant: expiry is left to others.
ProcessedUnexpired(task) ==
    IF Cardinality(task.valid) + Cardinality(task.invalid) >= task.quorum
    THEN processConsensus(task) ELSE task

\* What one round makes of a task: an expired task fails, whatever it was.
Processed(task) ==
    IF now > task.deadline THEN [task EXCEPT !.status = Failed]
    ELSE IF Cardinality(task.valid) + Cardinality(task.invalid) >= task.quorum
    THEN processConsensus(task) ELSE task

\* Mutant: a completion is counted in every round.
NewlyCompletedAlways(old, new) == {t \in DOMAIN new : new[t].consensus}

\* The tasks for which a round calls tasksCompleted.Inc.
NewlyCompleted(old, new) ==
    {t \in DOMAIN new : new[t].consensus /\ ~old[t].consensus}

processTasks ==
    /\ "tasks" \in alive \cap due
    /\ due' = due \ {"tasks"}
    /\ tasks' = [t \in Tasks |-> IF t \in KnownTasks THEN Processed(tasks[t]) ELSE tasks[t]]
    /\ tasksFailed' = tasksFailed + Cardinality({t \in KnownTasks : now > tasks[t].deadline})
    /\ tasksCompleted' = tasksCompleted + Cardinality(NewlyCompleted(tasks, tasks'))
    /\ UNCHANGED <<now, running, alive, poolStates, stateUpdates, rebalancingOps>>

-----------------------------------------------------------------------------
(* Pool states *)

TooOld(pool) == now - pool.lastUpdated > MaxStateAge

\* aggregateChainStates gets to its end.
Aggregates(pool) == TotalLiquidity(pool.chainStates) > 0

\* Without weight it stops after the total; else everything is written, and
\* lastUpdated is now.
aggregateChainStates(pool) ==
    LET states == pool.chainStates
        summed == [pool EXCEPT !.total = TotalLiquidity(states)]
        mean   == IF summed.total = 0 THEN pool.average ELSE WeightedAveragePrice(states)
    IN  IF Aggregates(pool)
        THEN [summed EXCEPT !.average = mean, !.score = ImbalanceScore(states, mean),
                            !.latest = LatestBlock(states), !.lastUpdated = now]
        ELSE summed

aggregateStates ==
    LET fresh == {p \in KnownPools : ~TooOld(poolStates[p])} IN
    /\ "states" \in alive \cap due
    /\ due' = due \ {"states"}
    /\ poolStates' = [p \in Pools |-> IF p \in fresh
                                      THEN aggregateChainStates(poolStates[p]) ELSE NoPool]
    /\ stateUpdates' = stateUpdates + Cardinality({p \in fresh : Aggregates(poolStates[p])})
    /\ UNCHANGED <<now, running, alive, tasks, tasksCompleted, tasksFailed, rebalancingOps>>

\* calculateImbalance and calculateImbalancePercent.
ImbalancePercent(pool) ==
    IF pool.total = 0 THEN 0
    ELSE (LiquidityDeviation(pool.chainStates, pool.total) * 100) \div pool.total

checkRebalancingNeeds ==
    /\ "rebalancing" \in alive \cap due
    /\ due' = due \ {"rebalancing"}
    /\ rebalancingOps' = rebalancingOps +
          Cardinality({p \in KnownPools : ImbalancePercent(poolStates[p]) > RebalancingThreshold})
    /\ UNCHANGED <<now, running, alive, tasks, poolStates, tasksCompleted, tasksFailed, stateUpdates>>

\* The context is cancelled.
Stop ==
    /\ running
    /\ running' = FALSE
    /\ UNCHANGED <<now, due, alive, tasks, poolStates, tasksCompleted,
                   tasksFailed, stateUpdates, rebalancingOps>>

\* A loop sees it and returns.  Its select may take a tick first, so a loop
\* can run once more after Stop.
Return(loop) ==
    /\ ~running /\ loop \in alive
    /\ alive' = alive \ {loop}
    /\ UNCHANGED <<now, due, running, tasks, poolStates, tasksCompleted,
                   tasksFailed, stateUpdates, rebalancingOps>>

-----------------------------------------------------------------------------
(* The environment, while the aggregator runs *)

AddTask(t, deadline, quorum) ==
    /\ now < MaxTime                            \* bound: a round is still to come
    /\ running /\ tasks[t].status = 0
    /\ tasks' = [tasks EXCEPT ![t].status = 1, ![t].deadline = deadline, ![t].quorum = quorum]
    /\ UNCHANGED <<now, due, running, alive, poolStates, tasksCompleted, tasksFailed,
                   stateUpdates, rebalancingOps>>

AddResponse(t, o, isValid) ==
    /\ running /\ t \in KnownTasks /\ o \notin tasks[t].valid \cup tasks[t].invalid
    /\ tasks' = IF isValid THEN [tasks EXCEPT ![t].valid = @ \cup {o}]
                ELSE [tasks EXCEPT ![t].invalid = @ \cup {o}]
    /\ UNCHANGED <<now, due, running, alive, poolStates, tasksCompleted, tasksFailed,
                   stateUpdates, rebalancingOps>>

ReportState(p, c, s) ==
    /\ running
    /\ poolStates' = [poolStates EXCEPT
          ![p].chainStates = [d \in DOMAIN @ \cup {c} |-> IF d = c THEN s ELSE @[d]],
          ![p].lastUpdated = now, ![p].reportedAt = now]
    /\ UNCHANGED <<now, due, running, alive, tasks, tasksCompleted, tasksFailed,
                   stateUpdates, rebalancingOps>>

Tick ==
    /\ now < MaxTime                                            \* bound
    /\ now' = now + 1
    /\ due' = Loops
    /\ UNCHANGED <<running, alive, tasks, poolStates, tasksCompleted, tasksFailed,
                   stateUpdates, rebalancingOps>>

ProcessInit ==
    /\ now = 0 /\ due = {} /\ running = TRUE /\ alive = Loops
    /\ tasks = [t \in Tasks |-> NoTask]
    /\ poolStates = [p \in Pools |-> NoPool]
    /\ tasksCompleted = 0 /\ tasksFailed = 0
    /\ stateUpdates = 0 /\ rebalancingOps = 0

ProcessNext ==
    \/ processTasks \/ aggregateStates \/ checkRebalancingNeeds \/ Stop \/ Tick
    \/ \E loop \in Loops : Return(loop)
    \/ \E t \in Tasks :
          \/ \E d \in 0 .. MaxTime - 1, q \in Quorums : AddTask(t, d, q)
          \/ \E o \in Operators, b \in BOOLEAN : AddResponse(t, o, b)
    \/ \E p \in Pools, c \in Chains, s \in ChainStates : ReportState(p, c, s)

ProcessSpec == ProcessInit /\ [][ProcessNext]_processVars

\* The clock runs, and a goroutine whose ticker has fired gets to run.
FairProcessSpec == ProcessSpec /\ WF_processVars(Tick) /\ WF_processVars(processTasks)

-----------------------------------------------------------------------------
(* Properties *)

TypeOK ==
    /\ now \in 0 .. MaxTime /\ due \subseteq Loops /\ running \in BOOLEAN /\ alive \subseteq Loops
    /\ tasks \in [Tasks -> [status : {0, 1, Completed, Failed}, deadline : Nat,
                            quorum : Nat, consensus : BOOLEAN,
                            valid : SUBSET Operators, invalid : SUBSET Operators]]
    /\ \A p \in Pools :
          /\ poolStates[p].chainStates \in UNION {[S -> ChainStates] : S \in SUBSET Chains}
          /\ {poolStates[p].total, poolStates[p].average, poolStates[p].score,
              poolStates[p].latest, poolStates[p].lastUpdated} \subseteq Nat
    /\ {tasksCompleted, tasksFailed, stateUpdates, rebalancingOps} \subseteq Nat

\* A task has consensus only with as many valid responses as its quorum asks
\* for, and each consensus is counted once, although the loop meets the task
\* again in every round and fails it after its deadline.
ConsensusCountedOnce ==
    /\ TypeOK
    /\ \A t \in KnownTasks : tasks[t].consensus => Cardinality(tasks[t].valid) >= tasks[t].quorum
    /\ tasksCompleted = Cardinality({t \in KnownTasks : tasks[t].consensus})

\* A pool that counts as updated has metrics of one round: an average between
\* its prices and a score that is the integer root of their variance, also
\* when reports came in since.
MetricsStep ==
    stateUpdates' > stateUpdates => \E p \in Pools :
        LET pool == poolStates'[p] IN
        /\ pool.lastUpdated = now
        /\ \E c, d \in DOMAIN pool.chainStates :
              pool.chainStates[c].price <= pool.average /\ pool.average <= pool.chainStates[d].price
        /\ LET v == PriceVariance(pool.chainStates, pool.average) IN
           Cardinality(DOMAIN pool.chainStates) > 1 =>
              pool.score * pool.score <= v /\ v < (pool.score + 1) * (pool.score + 1)
UpdatedMetricsAreSound == [][MetricsStep]_processVars

\* Every task is completed or failed in the end, unless the aggregator is
\* stopped.
TasksSettle ==
    \A t \in Tasks :
        (tasks[t].status = 1) ~> (tasks[t].status \in {Completed, Failed} \/ ~running)

\* Lines 303-305: "Check if state is too old", "Pool state too old, removing".
\* After a round of aggregateStates no pool is left whose youngest report is
\* older than MaxStateAge.
StaleStep ==
    "states" \in due /\ "states" \notin due' =>
        \A p \in Pools : poolStates'[p] # NoPool => now - poolStates'[p].reportedAt <= MaxStateAge
StalePoolsAreRemoved == [][StaleStep]_processVars

=============================================================================
