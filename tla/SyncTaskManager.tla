--------------------------- MODULE SyncTaskManager ---------------------------
(***************************************************************************)
(* The task manager contract, src/src/avs/SyncTaskManager.sol: anybody     *)
(* creates a task, the owner assigns it to an operator, the operator       *)
(* starts and then completes or fails it, the owner may cancel it, and     *)
(* anybody may sweep tasks whose deadline has passed.  Each operator has   *)
(* an active-task counter that is kept by hand at five places and limits   *)
(* how many tasks it can hold.                                             *)
(*                                                                         *)
(* A transaction is atomic, so one action is one external call that does   *)
(* not revert; a require(...) is a conjunct.  Payload, pool id, priority   *)
(* and the reason strings are left out: no control depends on them.        *)
(* Block time is measured in blocks, so updatedAt holds the block number   *)
(* of the transaction that wrote the task last.                            *)
(***************************************************************************)
EXTENDS Integers, Sequences, FiniteSets

CONSTANTS
    Operators,              \* addresses an owner may assign a task to
    NoOperator,             \* address(0)
    Chains,                 \* chain ids that tasks are created for
    TypeInputs,             \* task types callers ask for, good or bad
    Timeouts,               \* timeouts callers ask for, good or bad
    Results,                \* lengths of the results operators submit
    Configs,                \* fee/reward/penalty settings the owner uses
    Payments,               \* msg.value of a createTask call
    MAX_TASKS_PER_OPERATOR,
    MIN_TASK_TIMEOUT,
    MAX_TASK_TIMEOUT,
    MaxTasks,               \* bound: number of tasks ever created
    MaxBlock,               \* bound: the last block
    SweepArrays             \* arrays of ids whose sweep is followed step by step

ASSUME OperatorsAssumption == NoOperator \notin Operators
ASSUME CapacityAssumption  == MAX_TASKS_PER_OPERATOR \in Nat
ASSUME TimeoutAssumption ==
    /\ Timeouts \subseteq Nat
    /\ MIN_TASK_TIMEOUT \in Nat
    /\ MAX_TASK_TIMEOUT \in Nat
ASSUME InputAssumption ==
    /\ TypeInputs \subseteq Nat
    /\ Results \subseteq Nat
    /\ Payments \subseteq Nat
    /\ Chains \subseteq Nat
    /\ Configs \subseteq [fee : Nat, reward : Nat, penalty : Nat]
ASSUME BoundAssumption == MaxTasks \in Nat /\ MaxBlock \in Nat
ASSUME ArrayAssumption == SweepArrays \subseteq Seq(1 .. MaxTasks)

VARIABLES
    blockNumber,            \* block.number
    tasks,                  \* mapping taskId => Task
    operatorTaskCount,      \* mapping operator => active tasks
    operatorTasks,          \* mapping operator => task ids ever assigned
    chainTasks,             \* mapping chain => task ids
    typeTasks,              \* mapping type => task ids
    allTasks,               \* array of all task ids
    taskCounter,
    config,                 \* taskCreationFee, -CompletionReward, -FailurePenalty
    taskCreationPaused,
    paused,                 \* OpenZeppelin Pausable
    balance                 \* ether held by the contract

vars == <<blockNumber, tasks, operatorTaskCount, operatorTasks, chainTasks,
          typeTasks, allTasks, taskCounter, config, taskCreationPaused,
          paused, balance>>

-----------------------------------------------------------------------------
(* Types *)

TaskIds   == 1 .. MaxTasks
TaskTypes == 1 .. 3

Status == {"Pending", "Assigned", "InProgress", "Completed", "Failed",
           "Cancelled", "Timeout"}

\* The statuses that take up a place in operatorTaskCount.
ActiveStatus == {"Assigned", "InProgress"}

\* What a mapping read of an id that was never written returns.
EmptyTask ==
    [taskId |-> 0, taskType |-> 0, assignedOperator |-> NoOperator,
     chainId |-> 0, deadline |-> 0, status |-> "Pending", updatedAt |-> 0,
     result |-> 0, reward |-> 0, penalty |-> 0]

Task ==
    [taskId : Nat, taskType : Nat, assignedOperator : Operators \cup {NoOperator},
     chainId : Nat, deadline : Nat, status : Status, updatedAt : Nat,
     result : Nat, reward : Nat, penalty : Nat]

-----------------------------------------------------------------------------
(* Helpers *)

\* require(tasks[taskId].taskId != 0, "Task not found")
Exists(id) == tasks[id].taskId # 0

\* The ids of the tasks that operator o holds in the task table ts.
Held(ts, o) == {id \in TaskIds : /\ ts[id].assignedOperator = o
                                 /\ ts[id].status \in ActiveStatus}

\* Shortest result accepted for each type of task.
MinResult(type) == CASE type = 1 -> 32 [] type = 2 -> 64 [] type = 3 -> 16

validateTaskResult(id, result) ==
    /\ tasks[id].taskType \in TaskTypes
    /\ result >= MinResult(tasks[id].taskType)

\* status, updatedAt := s, block.timestamp
WithStatus(task, s) == [task EXCEPT !.status = s, !.updatedAt = blockNumber]

\* Mutant: the decrement is forgotten.
ReleaseSlotNever(o) == UNCHANGED operatorTaskCount

\* operatorTaskCount[operator]--; checked arithmetic reverts below zero.
ReleaseSlot(o) ==
    /\ operatorTaskCount[o] > 0
    /\ operatorTaskCount' = [operatorTaskCount EXCEPT ![o] = @ - 1]

\* The calling operator's task, in progress.
OwnInProgress(id, sender) ==
    /\ Exists(id)
    /\ tasks[id].assignedOperator = sender
    /\ tasks[id].status = "InProgress"

-----------------------------------------------------------------------------
(* External calls *)

\* The constructor.
Init ==
    /\ blockNumber = 0
    /\ tasks = [id \in TaskIds |-> EmptyTask]
    /\ operatorTaskCount = [o \in Operators |-> 0]
    /\ operatorTasks = [o \in Operators |-> <<>>]
    /\ chainTasks = [c \in Chains |-> <<>>]
    /\ typeTasks = [t \in TaskTypes |-> <<>>]
    /\ allTasks = <<>>
    /\ taskCounter = 0
    /\ config \in Configs
    /\ taskCreationPaused = FALSE
    /\ paused = FALSE
    /\ balance = 0

\* The payload is not modelled; a call with an empty one reverts.
createTask(type, chain, timeout, value) ==
    /\ taskCounter < MaxTasks                   \* bound
    /\ blockNumber + timeout < MaxBlock         \* bound: deadlines can pass
    /\ ~taskCreationPaused
    /\ value >= config.fee
    /\ type \in TaskTypes
    /\ timeout >= MIN_TASK_TIMEOUT /\ timeout <= MAX_TASK_TIMEOUT
    /\ LET id == taskCounter + 1 IN
         /\ taskCounter' = id
         /\ tasks' = [tasks EXCEPT ![id] =
                [taskId |-> id, taskType |-> type,
                 assignedOperator |-> NoOperator, chainId |-> chain,
                 deadline |-> blockNumber + timeout, status |-> "Pending",
                 updatedAt |-> blockNumber, result |-> 0,
                 reward |-> config.reward, penalty |-> config.penalty]]
         /\ allTasks' = Append(allTasks, id)
         /\ chainTasks' = [chainTasks EXCEPT ![chain] = Append(@, id)]
         /\ typeTasks' = [typeTasks EXCEPT ![type] = Append(@, id)]
    /\ balance' = balance + value
    /\ UNCHANGED <<blockNumber, operatorTaskCount, operatorTasks, config,
                   taskCreationPaused, paused>>

\* Mutants: an operator that is full, or a task that is no longer pending.
MayAssignFull(id, o) == Exists(id) /\ tasks[id].status = "Pending"
MayAssignAgain(id, o) ==
    /\ Exists(id)
    /\ tasks[id].status # "Completed"
    /\ operatorTaskCount[o] < MAX_TASKS_PER_OPERATOR

MayAssign(id, o) ==
    /\ Exists(id)
    /\ tasks[id].status = "Pending"
    /\ operatorTaskCount[o] < MAX_TASKS_PER_OPERATOR

\* By the owner.  The deadline is not looked at.
assignTask(id, o) ==
    /\ MayAssign(id, o)
    /\ tasks' = [tasks EXCEPT ![id] =
                    [WithStatus(@, "Assigned") EXCEPT !.assignedOperator = o]]
    /\ operatorTaskCount' = [operatorTaskCount EXCEPT ![o] = @ + 1]
    /\ operatorTasks' = [operatorTasks EXCEPT ![o] = Append(@, id)]
    /\ UNCHANGED <<blockNumber, chainTasks, typeTasks, allTasks, taskCounter,
                   config, taskCreationPaused, paused, balance>>

\* Mutant: the deadline is not looked at.
MayStartLate(id, sender) ==
    /\ Exists(id)
    /\ tasks[id].assignedOperator = sender
    /\ tasks[id].status = "Assigned"

MayStart(id, sender) ==
    /\ Exists(id)
    /\ tasks[id].assignedOperator = sender
    /\ tasks[id].status = "Assigned"
    /\ blockNumber <= tasks[id].deadline

startTask(id, sender) ==
    /\ MayStart(id, sender)
    /\ tasks' = [tasks EXCEPT ![id] = WithStatus(@, "InProgress")]
    /\ UNCHANGED <<blockNumber, operatorTaskCount, operatorTasks, chainTasks,
                   typeTasks, allTasks, taskCounter, config,
                   taskCreationPaused, paused, balance>>

completeTask(id, sender, result) ==
    /\ OwnInProgress(id, sender)
    /\ blockNumber <= tasks[id].deadline
    /\ result > 0
    /\ validateTaskResult(id, result)
    /\ tasks' = [tasks EXCEPT ![id] =
                    [WithStatus(@, "Completed") EXCEPT !.result = result]]
    /\ ReleaseSlot(sender)
    /\ UNCHANGED <<blockNumber, operatorTasks, chainTasks, typeTasks, allTasks,
                   taskCounter, config, taskCreationPaused, paused, balance>>

\* Unlike completeTask, accepted after the deadline.
failTask(id, sender) ==
    /\ OwnInProgress(id, sender)
    /\ tasks' = [tasks EXCEPT ![id] = WithStatus(@, "Failed")]
    /\ ReleaseSlot(sender)
    /\ UNCHANGED <<blockNumber, operatorTasks, chainTasks, typeTasks, allTasks,
                   taskCounter, config, taskCreationPaused, paused, balance>>

MayCancel(id) == Exists(id) /\ tasks[id].status # "Completed"

\* By the owner, in any status but Completed; the slot is given back only if
\* the task still held it.
cancelTask(id) ==
    /\ MayCancel(id)
    /\ tasks' = [tasks EXCEPT ![id] = WithStatus(@, "Cancelled")]
    /\ \/ /\ tasks[id].status \in ActiveStatus
          /\ tasks[id].assignedOperator # NoOperator
          /\ ReleaseSlot(tasks[id].assignedOperator)
       \/ /\ \/ tasks[id].status \notin ActiveStatus
             \/ tasks[id].assignedOperator = NoOperator
          /\ UNCHANGED operatorTaskCount
    /\ UNCHANGED <<blockNumber, operatorTasks, chainTasks, typeTasks, allTasks,
                   taskCounter, config, taskCreationPaused, paused, balance>>

\* Mutant: assigned tasks are not swept.
ExpiredStarted(id) ==
    Exists(id) /\ tasks[id].status = "InProgress" /\ blockNumber > tasks[id].deadline

\* The condition the sweep tests for each entry of its argument.
Expired(id) ==
    /\ Exists(id)
    /\ tasks[id].status \in ActiveStatus
    /\ blockNumber > tasks[id].deadline

\* What a sweep over the ids in the set taskIds leaves in the two mappings it
\* writes.
SweptTasks(taskIds) ==
    [id \in TaskIds |-> IF id \in taskIds /\ Expired(id)
                        THEN WithStatus(tasks[id], "Timeout")
                        ELSE tasks[id]]

SweptFrom(taskIds, o) ==
    {id \in taskIds : Expired(id) /\ tasks[id].assignedOperator = o}

SweptCount(taskIds) ==
    [o \in Operators |-> operatorTaskCount[o] - Cardinality(SweptFrom(taskIds, o))]

\* By anybody, with an array of ids, of which taskIds is the set: order and
\* duplicates make no difference, because an entry is no longer active once
\* the loop has handled it (SweepIsTheLoop).
checkTimeouts(taskIds) ==
    /\ \A o \in Operators :
          operatorTaskCount[o] >= Cardinality(SweptFrom(taskIds, o))
    /\ tasks' = SweptTasks(taskIds)
    /\ operatorTaskCount' = SweptCount(taskIds)
    /\ UNCHANGED <<blockNumber, operatorTasks, chainTasks, typeTasks, allTasks,
                   taskCounter, config, taskCreationPaused, paused, balance>>

(* The loop of checkTimeouts as it is written, over an array of ids *)

\* Mutant: the test reads the tasks as they were before the loop.
TimeoutIterationStale(st, id) ==
    IF Expired(id)
    THEN [tasks |-> [st.tasks EXCEPT ![id] = WithStatus(@, "Timeout")],
          count |-> IF st.tasks[id].assignedOperator # NoOperator
                    THEN [st.count EXCEPT ![st.tasks[id].assignedOperator] = @ - 1]
                    ELSE st.count]
    ELSE st

\* One iteration: st holds the two mappings the loop writes.
TimeoutIteration(st, id) ==
    IF /\ st.tasks[id].taskId # 0
       /\ st.tasks[id].status \in ActiveStatus
       /\ blockNumber > st.tasks[id].deadline
    THEN [tasks |-> [st.tasks EXCEPT ![id] = WithStatus(@, "Timeout")],
          count |-> IF st.tasks[id].assignedOperator # NoOperator
                    THEN [st.count EXCEPT ![st.tasks[id].assignedOperator] = @ - 1]
                    ELSE st.count]
    ELSE st

\* The state of the two mappings after each iteration, and after the last.
TimeoutLoop(array) ==
    LET after[i \in 0 .. Len(array)] ==
            IF i = 0 THEN [tasks |-> tasks, count |-> operatorTaskCount]
            ELSE TimeoutIteration(after[i - 1], array[i])
    IN  after[Len(array)]

updateTaskConfig(c) ==
    /\ config' = c
    /\ UNCHANGED <<blockNumber, tasks, operatorTaskCount, operatorTasks,
                   chainTasks, typeTasks, allTasks, taskCounter,
                   taskCreationPaused, paused, balance>>

\* pauseTaskCreation and resumeTaskCreation.
setTaskCreationPaused(b) ==
    /\ taskCreationPaused' = b
    /\ UNCHANGED <<blockNumber, tasks, operatorTaskCount, operatorTasks,
                   chainTasks, typeTasks, allTasks, taskCounter, config,
                   paused, balance>>

\* pause and unpause: whenNotPaused / whenPaused guard the flag itself, and
\* nothing else in the contract reads it.
setPaused(b) ==
    /\ paused # b
    /\ paused' = b
    /\ UNCHANGED <<blockNumber, tasks, operatorTaskCount, operatorTasks,
                   chainTasks, typeTasks, allTasks, taskCounter, config,
                   taskCreationPaused, balance>>

\* A block is mined.
Mine ==
    /\ blockNumber < MaxBlock                   \* bound
    /\ blockNumber' = blockNumber + 1
    /\ UNCHANGED <<tasks, operatorTaskCount, operatorTasks, chainTasks,
                   typeTasks, allTasks, taskCounter, config,
                   taskCreationPaused, paused, balance>>

Next ==
    \/ \E type \in TypeInputs, chain \in Chains, t \in Timeouts, v \in Payments :
          createTask(type, chain, t, v)
    \/ \E id \in TaskIds, o \in Operators :
          \/ assignTask(id, o)
          \/ startTask(id, o)
          \/ \E r \in Results : completeTask(id, o, r)
          \/ failTask(id, o)
    \/ \E id \in TaskIds : cancelTask(id)
    \/ \E ids \in SUBSET TaskIds : checkTimeouts(ids)
    \/ \E c \in Configs : updateTaskConfig(c)
    \/ \E b \in BOOLEAN : setTaskCreationPaused(b) \/ setPaused(b)
    \/ Mine

Spec == Init /\ [][Next]_vars

\* Blocks keep coming, and for every task somebody keeps calling
\* checkTimeouts on it.  The contract itself schedules nothing: the sweep is
\* a public function, and this assumption is what a keeper has to provide.
Fairness ==
    /\ WF_vars(Mine)
    /\ \A id \in TaskIds : WF_vars(checkTimeouts({id}))

FairSpec == Spec /\ Fairness

-----------------------------------------------------------------------------
(* Properties *)

TypeOK ==
    /\ blockNumber \in Nat
    /\ tasks \in [TaskIds -> Task]
    /\ operatorTaskCount \in [Operators -> Nat]
    /\ operatorTasks \in [Operators -> Seq(TaskIds)]
    /\ chainTasks \in [Chains -> Seq(TaskIds)]
    /\ typeTasks \in [TaskTypes -> Seq(TaskIds)]
    /\ allTasks \in Seq(TaskIds)
    /\ taskCounter \in 0 .. MaxTasks
    /\ config \in Configs
    /\ taskCreationPaused \in BOOLEAN
    /\ paused \in BOOLEAN
    /\ balance \in Nat

\* The hand-kept counter operatorTaskCount is always the number of tasks the
\* operator holds, over every order of completions, failures, cancellations
\* (repeated ones too) and sweeps; so the checked decrements of
\* completeTask, failTask, cancelTask and checkTimeouts never revert.
CountIsHeld ==
    \A o \in Operators : operatorTaskCount[o] = Cardinality(Held(tasks, o))

\* Whatever the order and however often an id is repeated in the array, the
\* loop of checkTimeouts leaves what handling each id once leaves: a sweep
\* cannot give the same slot back twice.
SweepIsTheLoop ==
    \A array \in SweepArrays :
        LET ids == {array[i] : i \in DOMAIN array}
        IN  TimeoutLoop(array) = [tasks |-> SweptTasks(ids), count |-> SweptCount(ids)]

\* No operator ever holds more than MAX_TASKS_PER_OPERATOR tasks, which
\* assignTask enforces on the counter and not on the tasks themselves.
CapacityRespected ==
    \A o \in Operators : Cardinality(Held(tasks, o)) <= MAX_TASKS_PER_OPERATOR

\* The four index arrays agree with the task table: every created task is
\* listed once under its chain, its type and its operator, and the lists hold
\* nothing else.  They are archives: a task stays listed after it is assigned,
\* cancelled, completed or timed out, although the comments at lines 80 and 83
\* call the lists by chain and by type "pending tasks".
Lists(seq, ids) ==
    /\ {seq[i] : i \in DOMAIN seq} = ids
    /\ \A i, j \in DOMAIN seq : seq[i] = seq[j] => i = j

IndexesAgree ==
    LET created == {id \in TaskIds : Exists(id)} IN
    /\ Lists(allTasks, created)
    /\ \A c \in Chains :
          Lists(chainTasks[c], {id \in created : tasks[id].chainId = c})
    /\ \A t \in TaskTypes :
          Lists(typeTasks[t], {id \in created : tasks[id].taskType = t})
    /\ \A o \in Operators :
          Lists(operatorTasks[o],
                {id \in created : tasks[id].assignedOperator = o})

\* A task is started and completed by its deadline, and is timed out only
\* after it: completion and the sweep can never both be right for one task,
\* whatever the order in which they reach the chain.  (A started task may stay
\* InProgress past its deadline, until a sweep.)
DeadlineHonoured ==
    \A id \in TaskIds :
        /\ tasks[id].status \in {"InProgress", "Completed"}
              => tasks[id].updatedAt <= tasks[id].deadline
        /\ tasks[id].status = "Timeout"
              => tasks[id].updatedAt > tasks[id].deadline

\* A task is held or finished only through an operator it was assigned to; a
\* task that has no operator is pending or cancelled.
HolderKnown ==
    \A id \in TaskIds :
        tasks[id].assignedOperator = NoOperator
            => tasks[id].status \in {"Pending", "Cancelled"}

\* Ids are given out in order: the tasks up to taskCounter exist under their
\* own id, and the mapping is untouched above it, so createTask never
\* overwrites a task.
IdsInOrder ==
    \A id \in TaskIds :
        IF id <= taskCounter THEN tasks[id].taskId = id
                             ELSE tasks[id] = EmptyTask

\* Through every order of assignments, completions, failures, repeated cancels
\* and sweeps, each operator's counter is the number of tasks it holds and is
\* within the capacity.  This is the inductive invariant of the proofs: the
\* count is right only together with the facts that a held task has an
\* operator and that fresh ids are untouched.
IInv == TypeOK /\ IdsInOrder /\ HolderKnown /\ CountIsHeld /\ CapacityRespected

\* A completed task is never touched again: not by a late sweep, a cancel or
\* a second completion.
CompletedStep ==
    \A id \in TaskIds :
        tasks[id].status = "Completed" => tasks'[id] = tasks[id]
CompletedIsFinal == [][CompletedStep]_vars

\* A failed, cancelled or timed-out task never becomes work again: the only
\* thing that can still happen to it is another cancel.
ClosedStep ==
    \A id \in TaskIds :
        tasks[id].status \in {"Failed", "Cancelled", "Timeout"}
            => tasks'[id].status \in {tasks[id].status, "Cancelled"}
ClosedStaysClosed == [][ClosedStep]_vars

\* An operator that sits on a task loses it: under Fairness every held task
\* is given back, so no capacity is lost for good.
HeldTasksAreReleased ==
    \A id \in TaskIds :
        (tasks[id].status \in ActiveStatus) ~> (tasks[id].status \notin ActiveStatus)

-----------------------------------------------------------------------------
(* Refinement *)

\* Start is invisible, and the three ways to end without a result are one.
PhaseOf(task) ==
    CASE task.taskId = 0                        -> "none"
      [] task.taskId # 0 /\ task.status = "Pending"      -> "open"
      [] task.taskId # 0 /\ task.status \in ActiveStatus -> "held"
      [] task.taskId # 0 /\ task.status = "Completed"    -> "completed"
      [] OTHER                                  -> "closed"

Lifecycle == INSTANCE TaskLifecycle WITH
    Ids      <- TaskIds,
    Workers  <- Operators,
    Nobody   <- NoOperator,
    Capacity <- MAX_TASKS_PER_OPERATOR,
    phase    <- [id \in TaskIds |-> PhaseOf(tasks[id])],
    holder   <- [id \in TaskIds |-> tasks[id].assignedOperator]

\* The contract implements TaskLifecycle: the counter check of assignTask is
\* a check on the tasks really held, every call changes a task the way the
\* life cycle allows, and re-cancelling a closed task changes nothing in it.
LifecycleSpec == Lifecycle!Spec

=============================================================================
