------------------------ MODULE SyncTaskManagerProofs ------------------------
(***************************************************************************)
(* Theorems about the task manager, for every number of tasks, operators   *)
(* and blocks and every capacity.                                          *)
(***************************************************************************)
EXTENDS SyncTaskManager, FiniteSetTheorems, SequenceTheorems, WellFoundedInduction, TLAPS

\* The set of ids is finite, and so is every set of ids.
LEMMA IdsFinite == ASSUME NEW S \in SUBSET TaskIds
                   PROVE  IsFiniteSet(S) /\ Cardinality(S) \in Nat
<1>1. IsFiniteSet(TaskIds)
  BY FS_Interval, BoundAssumption DEF TaskIds
<1>2. QED
  BY <1>1, FS_Subset, FS_CardinalityType

\* Held and SweptFrom are sets of ids.
LEMMA HeldFinite ==
    ASSUME NEW ts, NEW o
    PROVE  IsFiniteSet(Held(ts, o)) /\ Cardinality(Held(ts, o)) \in Nat
BY IdsFinite DEF Held

\* Status changes keep a task a task.
LEMMA WithStatusType ==
    ASSUME NEW t \in Task, NEW s \in Status, blockNumber \in Nat
    PROVE  /\ WithStatus(t, s) \in Task
           /\ WithStatus(t, s).status = s
           /\ WithStatus(t, s).taskId = t.taskId
           /\ WithStatus(t, s).assignedOperator = t.assignedOperator
BY DEF WithStatus, Task

\* The initial state satisfies the inductive invariant.
LEMMA InitIInv == Init => IInv
<1> SUFFICES ASSUME Init PROVE IInv
  OBVIOUS
<1> USE DEF Init
<1>1. EmptyTask \in Task
  BY DEF EmptyTask, Task, Status
<1>2. TypeOK
  <2>1. taskCreationPaused \in BOOLEAN /\ paused \in BOOLEAN
    BY Zenon
  <2>2. tasks \in [TaskIds -> Task]
    BY <1>1
  <2>3. <<>> \in Seq(TaskIds)
    OBVIOUS
  <2>4. /\ operatorTasks \in [Operators -> Seq(TaskIds)]
        /\ chainTasks \in [Chains -> Seq(TaskIds)]
        /\ typeTasks \in [TaskTypes -> Seq(TaskIds)]
        /\ allTasks \in Seq(TaskIds)
    BY <2>3
  <2>5. QED
    BY <2>1, <2>2, <2>4, BoundAssumption DEF TypeOK
<1>3. IdsInOrder /\ HolderKnown
  BY BoundAssumption DEF IdsInOrder, HolderKnown, EmptyTask, TaskIds
<1>4. \A o \in Operators : Held(tasks, o) = {}
  BY DEF Held, EmptyTask, ActiveStatus
<1>5. \A o \in Operators : Cardinality(Held(tasks, o)) = 0
  BY <1>4, FS_EmptySet
<1>6. CountIsHeld /\ CapacityRespected
  BY <1>5, CapacityAssumption DEF CountIsHeld, CapacityRespected
<1>7. QED
  BY <1>2, <1>3, <1>6 DEF IInv

\* What an operator holds after one task was rewritten.
LEMMA HeldAfterUpdate ==
    ASSUME NEW ts \in [TaskIds -> Task], NEW id \in TaskIds, NEW t \in Task, NEW o
    PROVE  Held([ts EXCEPT ![id] = t], o) =
              IF t.assignedOperator = o /\ t.status \in ActiveStatus
              THEN Held(ts, o) \cup {id} ELSE Held(ts, o) \ {id}
BY DEF Held

\* The same for a step.
LEMMA HeldAfterStep ==
    ASSUME tasks \in [TaskIds -> Task], NEW id \in TaskIds, NEW t \in Task, NEW o,
           tasks' = [tasks EXCEPT ![id] = t]
    PROVE  Held(tasks', o) =
              IF t.assignedOperator = o /\ t.status \in ActiveStatus
              THEN Held(tasks, o) \cup {id} ELSE Held(tasks, o) \ {id}
BY HeldAfterUpdate

\* A rewrite of an existing task keeps the ids in order, every holder known
\* and the table well typed.
LEMMA UpdateKeepsTable ==
    ASSUME TypeOK, IdsInOrder, HolderKnown,
           NEW id \in TaskIds, NEW t \in Task,
           tasks' = [tasks EXCEPT ![id] = t],
           taskCounter' = taskCounter,
           tasks[id].taskId # 0, t.taskId = tasks[id].taskId,
           t.assignedOperator = NoOperator => t.status \in {"Pending", "Cancelled"}
    PROVE  /\ tasks' \in [TaskIds -> Task]
           /\ IdsInOrder'
           /\ HolderKnown'
<1>1. tasks \in [TaskIds -> Task]
  BY DEF TypeOK
<1>2. \A i \in TaskIds : tasks'[i] = IF i = id THEN t ELSE tasks[i]
  BY <1>1
<1>3. tasks' \in [TaskIds -> Task]
  BY <1>1
<1>4. id <= taskCounter /\ tasks[id].taskId = id
  <2>1. EmptyTask.taskId = 0
    BY DEF EmptyTask
  <2>2. IF id <= taskCounter THEN tasks[id].taskId = id ELSE tasks[id] = EmptyTask
    BY DEF IdsInOrder
  <2>3. QED
    BY <2>1, <2>2
<1>5. IdsInOrder'
  <2> SUFFICES ASSUME NEW i \in TaskIds
               PROVE  IF i <= taskCounter' THEN tasks'[i].taskId = i
                                           ELSE tasks'[i] = EmptyTask
    BY DEF IdsInOrder
  <2>1. IF i <= taskCounter THEN tasks[i].taskId = i ELSE tasks[i] = EmptyTask
    BY DEF IdsInOrder
  <2>2. CASE i = id
    BY <2>2, <1>2, <1>4
  <2>3. CASE i # id
    BY <2>1, <2>3, <1>2
  <2>4. QED
    BY <2>2, <2>3
<1>6. HolderKnown'
  BY <1>2 DEF HolderKnown
<1>7. QED
  BY <1>3, <1>5, <1>6

\* An update of a task that leaves it as inactive as it was, or as active
\* and with the same operator, changes nobody's count.
LEMMA SameHolders ==
    ASSUME TypeOK, CountIsHeld, CapacityRespected,
           NEW id \in TaskIds, NEW t \in Task,
           tasks' = [tasks EXCEPT ![id] = t],
           operatorTaskCount' = operatorTaskCount,
           t.status \in ActiveStatus <=> tasks[id].status \in ActiveStatus,
           t.status \in ActiveStatus
              => t.assignedOperator = tasks[id].assignedOperator
    PROVE  CountIsHeld' /\ CapacityRespected'
<1>1. tasks \in [TaskIds -> Task]
  BY DEF TypeOK
<1>2. \A o \in Operators : Held(tasks', o) = Held(tasks, o)
  <2> SUFFICES ASSUME NEW o \in Operators PROVE Held(tasks', o) = Held(tasks, o)
    OBVIOUS
  <2>1. Held(tasks', o) = IF t.assignedOperator = o /\ t.status \in ActiveStatus
                          THEN Held(tasks, o) \cup {id} ELSE Held(tasks, o) \ {id}
    BY <1>1, HeldAfterStep
  <2>2. id \in Held(tasks, o) <=> /\ tasks[id].assignedOperator = o
                                  /\ tasks[id].status \in ActiveStatus
    BY DEF Held
  <2>3. QED
    BY <2>1, <2>2
<1>3. QED
  BY <1>2 DEF CountIsHeld, CapacityRespected

\* An update that closes a held task, together with ReleaseSlot for its
\* operator, keeps the counts right.
LEMMA ClosingReleases ==
    ASSUME TypeOK, CountIsHeld, CapacityRespected,
           NEW id \in TaskIds, NEW t \in Task, NEW w \in Operators,
           tasks[id].status \in ActiveStatus, tasks[id].assignedOperator = w,
           tasks' = [tasks EXCEPT ![id] = t],
           t.status \notin ActiveStatus,
           ReleaseSlot(w)
    PROVE  CountIsHeld' /\ CapacityRespected'
<1>1. tasks \in [TaskIds -> Task] /\ operatorTaskCount \in [Operators -> Nat]
  BY DEF TypeOK
<1>2. ASSUME NEW o \in Operators PROVE Held(tasks', o) = Held(tasks, o) \ {id}
  <2>1. Held(tasks', o) = IF t.assignedOperator = o /\ t.status \in ActiveStatus
                          THEN Held(tasks, o) \cup {id} ELSE Held(tasks, o) \ {id}
    BY <1>1, HeldAfterStep
  <2>2. QED
    BY <2>1, Zenon
<1>3. \A o \in Operators : id \in Held(tasks, o) <=> o = w
  BY DEF Held
<1>4. ASSUME NEW o \in Operators
      PROVE  /\ Cardinality(Held(tasks, o)) \in Nat
             /\ Cardinality(Held(tasks', o)) =
                   IF o = w THEN Cardinality(Held(tasks, o)) - 1
                            ELSE Cardinality(Held(tasks, o))
  <2>1. IsFiniteSet(Held(tasks, o)) /\ Cardinality(Held(tasks, o)) \in Nat
    BY HeldFinite
  <2>2. Cardinality(Held(tasks, o) \ {id}) =
           IF id \in Held(tasks, o) THEN Cardinality(Held(tasks, o)) - 1
                                    ELSE Cardinality(Held(tasks, o))
    BY <2>1, FS_RemoveElement
  <2>3. QED
    BY <1>2, <1>3, <2>1, <2>2
<1>5. \A o \in Operators : operatorTaskCount'[o] =
         IF o = w THEN operatorTaskCount[o] - 1 ELSE operatorTaskCount[o]
  BY <1>1 DEF ReleaseSlot
<1>6. CountIsHeld'
  BY <1>4, <1>5 DEF CountIsHeld
<1>7. CapacityRespected'
  <2> SUFFICES ASSUME NEW o \in Operators
               PROVE  Cardinality(Held(tasks', o)) <= MAX_TASKS_PER_OPERATOR
    BY DEF CapacityRespected
  <2>1. Cardinality(Held(tasks, o)) <= MAX_TASKS_PER_OPERATOR
    BY DEF CapacityRespected
  <2>2. /\ Cardinality(Held(tasks, o)) \in Nat
        /\ \/ Cardinality(Held(tasks', o)) = Cardinality(Held(tasks, o))
           \/ Cardinality(Held(tasks', o)) = Cardinality(Held(tasks, o)) - 1
    BY <1>4, Zenon
  <2>3. QED
    BY <2>1, <2>2, CapacityAssumption
<1>8. QED
  BY <1>6, <1>7

\* assignTask adds the task to the operator's and counts it.
LEMMA AssignCounts ==
    ASSUME TypeOK, CountIsHeld, CapacityRespected,
           NEW id \in TaskIds, NEW w \in Operators, assignTask(id, w)
    PROVE  CountIsHeld' /\ CapacityRespected'
<1> DEFINE t == [WithStatus(tasks[id], "Assigned") EXCEPT !.assignedOperator = w]
<1>1. tasks \in [TaskIds -> Task] /\ operatorTaskCount \in [Operators -> Nat]
      /\ blockNumber \in Nat
  BY DEF TypeOK
<1>2. t \in Task /\ t.assignedOperator = w /\ t.status = "Assigned"
  BY <1>1 DEF WithStatus, Task, Status
<1>3. tasks' = [tasks EXCEPT ![id] = t]
  BY <1>1 DEF assignTask, MayAssign
<1> HIDE DEF t
<1>4. \A o \in Operators : id \notin Held(tasks, o)
  BY DEF assignTask, MayAssign, Held, ActiveStatus
<1>5. ASSUME NEW o \in Operators
      PROVE  Held(tasks', o) =
                IF o = w THEN Held(tasks, o) \cup {id} ELSE Held(tasks, o)
  <2>1. Held([tasks EXCEPT ![id] = t], o) =
           IF o = w THEN Held(tasks, o) \cup {id} ELSE Held(tasks, o) \ {id}
    BY <1>1, <1>2, HeldAfterUpdate DEF ActiveStatus
  <2>2. QED
    BY <1>3, <1>4, <2>1
<1>6. ASSUME NEW o \in Operators
      PROVE  /\ Cardinality(Held(tasks, o)) \in Nat
             /\ Cardinality(Held(tasks', o)) =
                   IF o = w THEN Cardinality(Held(tasks, o)) + 1
                            ELSE Cardinality(Held(tasks, o))
  <2>1. IsFiniteSet(Held(tasks, o)) /\ Cardinality(Held(tasks, o)) \in Nat
    BY HeldFinite
  <2>2. Cardinality(Held(tasks, o) \cup {id}) = Cardinality(Held(tasks, o)) + 1
    BY <1>4, <2>1, FS_AddElement
  <2>3. QED
    BY <1>5, <2>1, <2>2
<1>7. \A o \in Operators : operatorTaskCount'[o] =
         IF o = w THEN operatorTaskCount[o] + 1 ELSE operatorTaskCount[o]
  BY <1>1 DEF assignTask, MayAssign
<1>8. CountIsHeld'
  BY <1>6, <1>7 DEF CountIsHeld
<1>9. operatorTaskCount[w] < MAX_TASKS_PER_OPERATOR
  BY DEF assignTask, MayAssign
<1>10. CapacityRespected'
  BY <1>6, <1>9, CapacityAssumption DEF CapacityRespected, CountIsHeld
<1>11. QED
  BY <1>8, <1>10

\* A sweep takes from every operator exactly its expired tasks.
LEMMA SweepCounts ==
    ASSUME TypeOK, CountIsHeld, CapacityRespected,
           NEW ids \in SUBSET TaskIds, checkTimeouts(ids)
    PROVE  CountIsHeld' /\ CapacityRespected' /\ operatorTaskCount' \in [Operators -> Nat]
<1>1. tasks \in [TaskIds -> Task] /\ operatorTaskCount \in [Operators -> Nat]
      /\ blockNumber \in Nat
  BY DEF TypeOK
<1>2. \A o \in Operators : SweptFrom(ids, o) \subseteq Held(tasks, o)
  BY DEF SweptFrom, Held, Expired
<1>3. \A id \in TaskIds :
         /\ tasks'[id].assignedOperator = tasks[id].assignedOperator
         /\ tasks'[id].status =
               IF id \in ids /\ Expired(id) THEN "Timeout" ELSE tasks[id].status
  BY <1>1 DEF checkTimeouts, SweptTasks, WithStatus, Task
<1>4. \A o \in Operators : Held(tasks', o) = Held(tasks, o) \ SweptFrom(ids, o)
  BY <1>3 DEF Held, SweptFrom, ActiveStatus
<1>5. \A o \in Operators :
         /\ Cardinality(Held(tasks, o)) \in Nat
         /\ Cardinality(SweptFrom(ids, o)) \in Nat
         /\ Cardinality(Held(tasks', o)) =
               Cardinality(Held(tasks, o)) - Cardinality(SweptFrom(ids, o))
  <2> SUFFICES ASSUME NEW o \in Operators
               PROVE  /\ Cardinality(Held(tasks, o)) \in Nat
                      /\ Cardinality(SweptFrom(ids, o)) \in Nat
                      /\ Cardinality(Held(tasks', o)) =
                         Cardinality(Held(tasks, o)) - Cardinality(SweptFrom(ids, o))
    OBVIOUS
  <2>1. IsFiniteSet(Held(tasks, o)) /\ Cardinality(Held(tasks, o)) \in Nat
    BY HeldFinite
  <2>2. SweptFrom(ids, o) \in SUBSET TaskIds
    BY DEF SweptFrom
  <2>3. Held(tasks, o) \cap SweptFrom(ids, o) = SweptFrom(ids, o)
    BY <1>2
  <2>4. Cardinality(SweptFrom(ids, o)) \in Nat
    BY <2>2, IdsFinite
  <2>5. QED
    BY <1>4, <2>1, <2>3, <2>4, FS_Difference
<1>6. \A o \in Operators : /\ operatorTaskCount'[o] =
                              operatorTaskCount[o] - Cardinality(SweptFrom(ids, o))
                           /\ operatorTaskCount[o] >= Cardinality(SweptFrom(ids, o))
  BY DEF checkTimeouts, SweptCount
<1>7. CountIsHeld'
  BY <1>5, <1>6 DEF CountIsHeld
<1>8. CapacityRespected'
  BY <1>5, CapacityAssumption DEF CapacityRespected
<1>9. operatorTaskCount' \in [Operators -> Nat]
  BY <1>1, <1>5, <1>6 DEF checkTimeouts, SweptCount
<1>10. QED
  BY <1>7, <1>8, <1>9

\* Every step of the contract preserves the inductive invariant: one case
\* per external call.
LEMMA StepIInv == IInv /\ [Next]_vars => IInv'
<1> SUFFICES ASSUME IInv, [Next]_vars PROVE IInv'
  OBVIOUS
<1>t. /\ TypeOK /\ IdsInOrder /\ HolderKnown /\ CountIsHeld /\ CapacityRespected
  BY DEF IInv
<1>f. /\ blockNumber \in Nat
      /\ tasks \in [TaskIds -> Task]
      /\ operatorTaskCount \in [Operators -> Nat]
      /\ taskCounter \in 0 .. MaxTasks
  BY <1>t DEF TypeOK
<1>0. ASSUME UNCHANGED vars PROVE IInv'
  BY <1>0, <1>t DEF vars, IInv, TypeOK, IdsInOrder, HolderKnown, CountIsHeld,
                    CapacityRespected, Held
<1>1. ASSUME NEW type \in TypeInputs, NEW chain \in Chains, NEW timeout \in Timeouts,
             NEW value \in Payments, createTask(type, chain, timeout, value)
      PROVE  IInv'
  <2> DEFINE id == taskCounter + 1
             t == [taskId |-> id, taskType |-> type,
                   assignedOperator |-> NoOperator, chainId |-> chain,
                   deadline |-> blockNumber + timeout, status |-> "Pending",
                   updatedAt |-> blockNumber, result |-> 0,
                   reward |-> config.reward, penalty |-> config.penalty]
  <2>1. id \in TaskIds /\ id = taskCounter' /\ id > taskCounter
    BY <1>1, <1>f, BoundAssumption DEF createTask, TaskIds
  <2>2. config \in Configs /\ config.reward \in Nat /\ config.penalty \in Nat
    BY <1>t, InputAssumption DEF TypeOK
  <2>3. timeout \in Nat /\ chain \in Nat /\ type \in Nat /\ value \in Nat
    BY InputAssumption, TimeoutAssumption
  <2>4. t \in Task
    BY <1>f, <2>2, <2>3, <2>1 DEF Task, Status, TaskIds
  <2>5. tasks' = [tasks EXCEPT ![id] = t]
    BY <1>1 DEF createTask
  <2>6. TypeOK'
    <3>1. /\ allTasks' \in Seq(TaskIds)
          /\ chainTasks' \in [Chains -> Seq(TaskIds)]
          /\ typeTasks' \in [TaskTypes -> Seq(TaskIds)]
          /\ balance' \in Nat
      BY <1>1, <1>t, <2>1, <2>3 DEF createTask, TypeOK
    <3>2. tasks' \in [TaskIds -> Task]
      BY <1>f, <2>4, <2>5
    <3>3. taskCounter' \in 0 .. MaxTasks
      BY <1>1, <1>f, BoundAssumption DEF createTask
    <3>4. QED
      BY <1>1, <1>t, <3>1, <3>2, <3>3 DEF createTask, TypeOK
  <2>7. tasks[id].status = "Pending"
    BY <1>t, <1>f, <2>1 DEF IdsInOrder, EmptyTask
  <2>8. CountIsHeld' /\ CapacityRespected'
    <3>1. t.status = "Pending" /\ operatorTaskCount' = operatorTaskCount
      BY <1>1 DEF createTask
    <3> HIDE DEF t, id
    <3>2. QED
      BY <1>t, <2>1, <2>4, <2>5, <2>7, <3>1, SameHolders DEF ActiveStatus
  <2>9. IdsInOrder'
    <3> SUFFICES ASSUME NEW i \in TaskIds
                 PROVE  IF i <= taskCounter' THEN tasks'[i].taskId = i
                                             ELSE tasks'[i] = EmptyTask
      BY DEF IdsInOrder
    <3>1. i \in Int
      BY BoundAssumption DEF TaskIds
    <3>2. IF i <= taskCounter THEN tasks[i].taskId = i ELSE tasks[i] = EmptyTask
      BY <1>t DEF IdsInOrder
    <3>3. CASE i = id
      BY <3>3, <1>f, <2>1, <2>5
    <3>4. CASE i # id
      BY <3>1, <3>2, <3>4, <1>f, <2>1, <2>5
    <3>5. QED
      BY <3>3, <3>4
  <2>10. HolderKnown'
    BY <1>t, <1>f, <2>1, <2>5 DEF HolderKnown
  <2>11. QED
    BY <2>6, <2>8, <2>9, <2>10 DEF IInv
<1>2. ASSUME NEW id \in TaskIds, NEW o \in Operators, assignTask(id, o) PROVE IInv'
  <2> DEFINE t == [WithStatus(tasks[id], "Assigned") EXCEPT !.assignedOperator = o]
  <2>1. t \in Task /\ t.taskId = tasks[id].taskId /\ t.assignedOperator = o
    BY <1>f DEF WithStatus, Task, Status
  <2>2. tasks' = [tasks EXCEPT ![id] = t]
    BY <1>2, <1>f DEF assignTask, MayAssign
  <2>3. tasks[id].taskId # 0
    BY <1>2 DEF assignTask, MayAssign, Exists
  <2> HIDE DEF t
  <2>4. CountIsHeld' /\ CapacityRespected'
    BY <1>2, <1>t, AssignCounts
  <2>5. tasks' \in [TaskIds -> Task] /\ IdsInOrder' /\ HolderKnown'
    <3>1. taskCounter' = taskCounter
      BY <1>2 DEF assignTask, MayAssign
    <3>2. QED
      BY <1>t, <2>1, <2>2, <2>3, <3>1, OperatorsAssumption, UpdateKeepsTable
  <2>6. TypeOK'
    <3>1. /\ operatorTaskCount' \in [Operators -> Nat]
          /\ operatorTasks' \in [Operators -> Seq(TaskIds)]
      BY <1>2, <1>t DEF assignTask, MayAssign, TypeOK
    <3>2. QED
      BY <1>2, <1>t, <2>5, <3>1 DEF assignTask, MayAssign, TypeOK
  <2>7. QED
    BY <2>4, <2>5, <2>6 DEF IInv
<1>3. ASSUME NEW id \in TaskIds, NEW o \in Operators, startTask(id, o) PROVE IInv'
  <2> DEFINE t == WithStatus(tasks[id], "InProgress")
  <2>1. /\ t \in Task /\ t.status = "InProgress" /\ t.taskId = tasks[id].taskId
        /\ t.assignedOperator = tasks[id].assignedOperator
    BY <1>f, WithStatusType DEF Status
  <2>2. /\ tasks' = [tasks EXCEPT ![id] = t]
        /\ operatorTaskCount' = operatorTaskCount
        /\ taskCounter' = taskCounter
    BY <1>3 DEF startTask, MayStart
  <2>3. tasks[id].taskId # 0 /\ tasks[id].status = "Assigned"
        /\ tasks[id].assignedOperator = o
    BY <1>3 DEF startTask, MayStart, Exists
  <2> HIDE DEF t
  <2>4. CountIsHeld' /\ CapacityRespected'
    BY <1>t, <2>1, <2>2, <2>3, SameHolders DEF ActiveStatus
  <2>5. tasks' \in [TaskIds -> Task] /\ IdsInOrder' /\ HolderKnown'
    BY <1>t, <2>1, <2>2, <2>3, OperatorsAssumption, UpdateKeepsTable
  <2>6. TypeOK'
    BY <1>3, <1>t, <2>5 DEF startTask, MayStart, TypeOK
  <2>7. QED
    BY <2>4, <2>5, <2>6 DEF IInv
<1>4. ASSUME NEW id \in TaskIds, NEW o \in Operators, NEW r \in Results,
             completeTask(id, o, r)
      PROVE  IInv'
  <2> DEFINE t == [WithStatus(tasks[id], "Completed") EXCEPT !.result = r]
  <2>1. /\ t \in Task /\ t.status = "Completed" /\ t.taskId = tasks[id].taskId
        /\ t.assignedOperator = tasks[id].assignedOperator
    BY <1>f, InputAssumption DEF WithStatus, Task, Status
  <2>2. /\ tasks' = [tasks EXCEPT ![id] = t]
        /\ taskCounter' = taskCounter
        /\ ReleaseSlot(o)
    BY <1>4 DEF completeTask
  <2>3. tasks[id].taskId # 0 /\ tasks[id].status = "InProgress"
        /\ tasks[id].assignedOperator = o
    BY <1>4 DEF completeTask, OwnInProgress, Exists
  <2> HIDE DEF t
  <2>4. CountIsHeld' /\ CapacityRespected'
    BY <1>t, <2>1, <2>2, <2>3, ClosingReleases DEF ActiveStatus
  <2>5. tasks' \in [TaskIds -> Task] /\ IdsInOrder' /\ HolderKnown'
    BY <1>t, <2>1, <2>2, <2>3, OperatorsAssumption, UpdateKeepsTable
  <2>6. operatorTaskCount' \in [Operators -> Nat]
    BY <1>f, <2>2 DEF ReleaseSlot
  <2>7. TypeOK'
    BY <1>4, <1>t, <2>5, <2>6 DEF completeTask, TypeOK
  <2>8. QED
    BY <2>4, <2>5, <2>7 DEF IInv
<1>5. ASSUME NEW id \in TaskIds, NEW o \in Operators, failTask(id, o) PROVE IInv'
  <2> DEFINE t == WithStatus(tasks[id], "Failed")
  <2>1. /\ t \in Task /\ t.status = "Failed" /\ t.taskId = tasks[id].taskId
        /\ t.assignedOperator = tasks[id].assignedOperator
    BY <1>f, WithStatusType DEF Status
  <2>2. /\ tasks' = [tasks EXCEPT ![id] = t]
        /\ taskCounter' = taskCounter
        /\ ReleaseSlot(o)
    BY <1>5 DEF failTask
  <2>3. tasks[id].taskId # 0 /\ tasks[id].status = "InProgress"
        /\ tasks[id].assignedOperator = o
    BY <1>5 DEF failTask, OwnInProgress, Exists
  <2> HIDE DEF t
  <2>4. CountIsHeld' /\ CapacityRespected'
    BY <1>t, <2>1, <2>2, <2>3, ClosingReleases DEF ActiveStatus
  <2>5. tasks' \in [TaskIds -> Task] /\ IdsInOrder' /\ HolderKnown'
    BY <1>t, <2>1, <2>2, <2>3, OperatorsAssumption, UpdateKeepsTable
  <2>6. operatorTaskCount' \in [Operators -> Nat]
    BY <1>f, <2>2 DEF ReleaseSlot
  <2>7. TypeOK'
    BY <1>5, <1>t, <2>5, <2>6 DEF failTask, TypeOK
  <2>8. QED
    BY <2>4, <2>5, <2>7 DEF IInv
<1>6. ASSUME NEW id \in TaskIds, cancelTask(id) PROVE IInv'
  <2> DEFINE t == WithStatus(tasks[id], "Cancelled")
             w == tasks[id].assignedOperator
  <2>1. /\ t \in Task /\ t.status = "Cancelled" /\ t.taskId = tasks[id].taskId
        /\ t.assignedOperator = w
    BY <1>f, WithStatusType DEF Status
  <2>2. /\ tasks' = [tasks EXCEPT ![id] = t]
        /\ taskCounter' = taskCounter
    BY <1>6 DEF cancelTask, MayCancel
  <2>3. tasks[id].taskId # 0
    BY <1>6 DEF cancelTask, MayCancel, Exists
  <2>4. w \in Operators \cup {NoOperator}
    BY <1>f DEF Task
  <2>5. ASSUME tasks[id].status \in ActiveStatus
        PROVE  CountIsHeld' /\ CapacityRespected' /\ operatorTaskCount' \in [Operators -> Nat]
    <3>1. w # NoOperator
      BY <2>5, <1>t DEF HolderKnown, ActiveStatus
    <3>2. ReleaseSlot(w)
      BY <2>5, <1>6, <3>1 DEF cancelTask, MayCancel
    <3> HIDE DEF t
    <3>3. CountIsHeld' /\ CapacityRespected'
      BY <1>t, <2>1, <2>2, <2>4, <2>5, <3>1, <3>2, ClosingReleases DEF ActiveStatus
    <3>4. operatorTaskCount' \in [Operators -> Nat]
      BY <1>f, <2>4, <3>1, <3>2 DEF ReleaseSlot
    <3>5. QED
      BY <3>3, <3>4
  <2>6. ASSUME tasks[id].status \notin ActiveStatus
        PROVE  CountIsHeld' /\ CapacityRespected' /\ operatorTaskCount' \in [Operators -> Nat]
    <3>1. operatorTaskCount' = operatorTaskCount
      BY <2>6, <1>6 DEF cancelTask, MayCancel
    <3> HIDE DEF t
    <3>2. CountIsHeld' /\ CapacityRespected'
      BY <1>t, <2>1, <2>2, <2>6, <3>1, SameHolders DEF ActiveStatus
    <3>3. QED
      BY <1>f, <3>1, <3>2
  <2> HIDE DEF t
  <2>7. CountIsHeld' /\ CapacityRespected' /\ operatorTaskCount' \in [Operators -> Nat]
    BY <2>5, <2>6
  <2>8. tasks' \in [TaskIds -> Task] /\ IdsInOrder' /\ HolderKnown'
    BY <1>t, <2>1, <2>2, <2>3, UpdateKeepsTable
  <2>9. TypeOK'
    BY <1>6, <1>t, <2>7, <2>8 DEF cancelTask, MayCancel, TypeOK
  <2>10. QED
    BY <2>7, <2>8, <2>9 DEF IInv
<1>7. ASSUME NEW ids \in SUBSET TaskIds, checkTimeouts(ids) PROVE IInv'
  <2>1. CountIsHeld' /\ CapacityRespected' /\ operatorTaskCount' \in [Operators -> Nat]
    BY <1>7, <1>t, SweepCounts
  <2>2. \A id \in TaskIds :
           tasks'[id] = IF id \in ids /\ Expired(id)
                        THEN WithStatus(tasks[id], "Timeout") ELSE tasks[id]
    BY <1>7 DEF checkTimeouts, SweptTasks
  <2>3. \A id \in TaskIds : WithStatus(tasks[id], "Timeout") \in Task
    BY <1>f, WithStatusType DEF Status
  <2>4. tasks' \in [TaskIds -> Task]
    BY <1>7, <1>f, <2>3 DEF checkTimeouts, SweptTasks
  <2>5. ASSUME NEW id \in TaskIds
        PROVE  /\ tasks'[id].taskId = tasks[id].taskId
               /\ tasks'[id].assignedOperator = tasks[id].assignedOperator
               /\ tasks[id].taskId = 0 => tasks'[id] = tasks[id]
               /\ tasks[id].assignedOperator = NoOperator
                     => tasks'[id].status = tasks[id].status
    <3>1. Expired(id) => /\ tasks[id].taskId # 0
                         /\ tasks[id].assignedOperator # NoOperator
      BY <1>t DEF Expired, Exists, HolderKnown, ActiveStatus
    <3>2. /\ WithStatus(tasks[id], "Timeout").taskId = tasks[id].taskId
          /\ WithStatus(tasks[id], "Timeout").assignedOperator
                = tasks[id].assignedOperator
      BY <1>f, WithStatusType DEF Status
    <3>3. QED
      BY <2>2, <3>1, <3>2
  <2>6. taskCounter' = taskCounter
    BY <1>7 DEF checkTimeouts
  <2>7. IdsInOrder'
    <3>1. EmptyTask.taskId = 0
      BY DEF EmptyTask
    <3>2. QED
      BY <1>t, <2>5, <2>6, <3>1 DEF IdsInOrder
  <2>8. HolderKnown'
    BY <1>t, <2>5 DEF HolderKnown
  <2>9. TypeOK'
    BY <1>7, <1>t, <2>1, <2>4 DEF checkTimeouts, TypeOK
  <2>10. QED
    BY <2>1, <2>7, <2>8, <2>9 DEF IInv
<1>8. ASSUME NEW c \in Configs, updateTaskConfig(c) PROVE IInv'
  BY <1>8, <1>t DEF updateTaskConfig, IInv, TypeOK, IdsInOrder, HolderKnown,
                    CountIsHeld, CapacityRespected, Held
<1>9. ASSUME NEW b \in BOOLEAN, setTaskCreationPaused(b) \/ setPaused(b) PROVE IInv'
  <2>1. taskCreationPaused' \in BOOLEAN /\ paused' \in BOOLEAN
    BY <1>9, <1>t, Zenon DEF setTaskCreationPaused, setPaused, TypeOK
  <2>2. UNCHANGED <<blockNumber, tasks, operatorTaskCount, operatorTasks, chainTasks,
                    typeTasks, allTasks, taskCounter, config, balance>>
    BY <1>9, Zenon DEF setTaskCreationPaused, setPaused
  <2>3. QED
    BY <1>t, <2>1, <2>2 DEF IInv, TypeOK, IdsInOrder, HolderKnown, CountIsHeld,
                            CapacityRespected, Held
<1>10. ASSUME Mine PROVE IInv'
  <2>1. blockNumber' \in Nat
    BY <1>10, <1>f DEF Mine
  <2>2. UNCHANGED <<tasks, operatorTaskCount, operatorTasks, chainTasks, typeTasks,
                    allTasks, taskCounter, config, taskCreationPaused, paused, balance>>
    BY <1>10 DEF Mine
  <2>3. QED
    BY <1>t, <2>1, <2>2 DEF IInv, TypeOK, IdsInOrder, HolderKnown, CountIsHeld,
                            CapacityRespected, Held
<1>11. QED
  BY <1>0, <1>1, <1>2, <1>3, <1>4, <1>5, <1>6, <1>7, <1>8, <1>9, <1>10 DEF Next

\* The inductive invariant holds in every reachable state.
THEOREM Invariance == Spec => []IInv
BY InitIInv, StepIInv, PTL DEF Spec

\* Every variable keeps its type: no counter goes below zero.
THEOREM TypeCorrect == Spec => []TypeOK
<1>1. IInv => TypeOK
  BY DEF IInv
<1>2. QED
  BY <1>1, Invariance, PTL

\* The counter operatorTaskCount is the number of tasks the operator holds.
THEOREM CountTheorem == Spec => []CountIsHeld
<1>1. IInv => CountIsHeld
  BY DEF IInv
<1>2. QED
  BY <1>1, Invariance, PTL

\* No operator holds more than MAX_TASKS_PER_OPERATOR tasks.
THEOREM CapacityTheorem == Spec => []CapacityRespected
<1>1. IInv => CapacityRespected
  BY DEF IInv
<1>2. QED
  BY <1>1, Invariance, PTL

\* What one step can do to one task.  It is all that the action properties
\* and the refinement look at.
TaskStep(id) ==
    \/ tasks'[id] = tasks[id]
    \/ /\ tasks[id] = EmptyTask
       /\ tasks'[id].taskId # 0
       /\ tasks'[id].status = "Pending"
       /\ tasks'[id].assignedOperator = NoOperator
    \/ /\ tasks[id].taskId # 0
       /\ tasks'[id].taskId = tasks[id].taskId
       /\ \/ /\ tasks[id].status = "Pending"
             /\ tasks'[id].status = "Assigned"
          \/ /\ tasks'[id].assignedOperator = tasks[id].assignedOperator
             /\ \/ /\ tasks[id].status = "Assigned"
                   /\ tasks'[id].status = "InProgress"
                \/ /\ tasks[id].status = "InProgress"
                   /\ tasks'[id].status \in {"Completed", "Failed"}
                \/ /\ tasks[id].status # "Completed"
                   /\ tasks'[id].status = "Cancelled"
                \/ /\ tasks[id].status \in ActiveStatus
                   /\ tasks'[id].status = "Timeout"

\* Rewriting one task: the others stay as they are.
LEMMA OneTask ==
    ASSUME tasks \in [TaskIds -> Task], NEW id \in TaskIds, NEW t,
           tasks' = [tasks EXCEPT ![id] = t]
    PROVE  tasks'[id] = t /\ \A i \in TaskIds \ {id} : tasks'[i] = tasks[i]
OBVIOUS

\* The deadline rule for one task record.
OnTime(task) ==
    /\ task.status \in {"InProgress", "Completed"} => task.updatedAt <= task.deadline
    /\ task.status = "Timeout" => task.updatedAt > task.deadline

\* Every step keeps every task on time: startTask and completeTask test the
\* deadline in the block they write, and the sweep tests the opposite.
LEMMA DeadlineStep ==
    ASSUME IInv, DeadlineHonoured, [Next]_vars
    PROVE  DeadlineHonoured'
<1>f. blockNumber \in Nat /\ tasks \in [TaskIds -> Task]
  BY DEF IInv, TypeOK
<1>o. \A i \in TaskIds : OnTime(tasks[i])
  BY DEF DeadlineHonoured, OnTime
<1> SUFFICES ASSUME NEW i \in TaskIds PROVE OnTime(tasks'[i])
  BY DEF DeadlineHonoured, OnTime
<1>w. \A id \in TaskIds, s \in Status :
         /\ WithStatus(tasks[id], s).status = s
         /\ WithStatus(tasks[id], s).updatedAt = blockNumber
         /\ WithStatus(tasks[id], s).deadline = tasks[id].deadline
  BY <1>f DEF WithStatus, Task
<1>1. ASSUME NEW type \in TypeInputs, NEW chain \in Chains, NEW timeout \in Timeouts,
             NEW value \in Payments, createTask(type, chain, timeout, value)
      PROVE  OnTime(tasks'[i])
  <2>1. tasks'[i] = tasks[i] \/ tasks'[i].status = "Pending"
    BY <1>1, <1>f DEF createTask
  <2>2. QED
    BY <1>o, <2>1 DEF OnTime
<1>2. ASSUME NEW id \in TaskIds, NEW o \in Operators, assignTask(id, o)
      PROVE  OnTime(tasks'[i])
  <2>1. tasks'[i] = tasks[i] \/ tasks'[i].status = "Assigned"
    BY <1>2, <1>f DEF assignTask, WithStatus, Task
  <2>2. QED
    BY <1>o, <2>1 DEF OnTime
<1>3. ASSUME NEW id \in TaskIds, NEW o \in Operators, startTask(id, o)
      PROVE  OnTime(tasks'[i])
  BY <1>3, <1>f, <1>o, <1>w, OneTask DEF startTask, MayStart, OnTime, Status
<1>4. ASSUME NEW id \in TaskIds, NEW o \in Operators, NEW r \in Results,
             completeTask(id, o, r)
      PROVE  OnTime(tasks'[i])
  <2>1. /\ tasks'[id].status = "Completed"
        /\ tasks'[id].updatedAt = blockNumber
        /\ tasks'[id].deadline = tasks[id].deadline
        /\ i # id => tasks'[i] = tasks[i]
    BY <1>4, <1>f DEF completeTask, WithStatus, Task
  <2>2. QED
    BY <1>4, <1>o, <2>1 DEF completeTask, OnTime
<1>5. ASSUME NEW id \in TaskIds, NEW o \in Operators, failTask(id, o)
      PROVE  OnTime(tasks'[i])
  BY <1>5, <1>f, <1>o, <1>w, OneTask DEF failTask, OnTime, Status
<1>6. ASSUME NEW id \in TaskIds, cancelTask(id)
      PROVE  OnTime(tasks'[i])
  BY <1>6, <1>f, <1>o, <1>w, OneTask DEF cancelTask, OnTime, Status
<1>7. ASSUME NEW ids \in SUBSET TaskIds, checkTimeouts(ids)
      PROVE  OnTime(tasks'[i])
  <2>1. tasks'[i] = IF i \in ids /\ Expired(i)
                    THEN WithStatus(tasks[i], "Timeout") ELSE tasks[i]
    BY <1>7 DEF checkTimeouts, SweptTasks
  <2>2. Expired(i) => blockNumber > tasks[i].deadline
    BY DEF Expired
  <2>3. QED
    BY <1>o, <1>w, <2>1, <2>2 DEF OnTime, Status
<1>8. ASSUME UNCHANGED tasks PROVE OnTime(tasks'[i])
  BY <1>8, <1>o
<1>9. ASSUME \/ \E c \in Configs : updateTaskConfig(c)
             \/ \E b \in BOOLEAN : setTaskCreationPaused(b) \/ setPaused(b)
             \/ Mine
             \/ UNCHANGED vars
      PROVE  UNCHANGED tasks
  BY <1>9 DEF updateTaskConfig, setTaskCreationPaused, setPaused, Mine, vars
<1>10. QED
  BY <1>1, <1>2, <1>3, <1>4, <1>5, <1>6, <1>7, <1>8, <1>9 DEF Next

\* A task is started and completed by its deadline and timed out only after
\* it, whatever the order in which startTask, completeTask and checkTimeouts
\* reach the chain.
THEOREM DeadlineTheorem == Spec => []DeadlineHonoured
<1>1. Init => DeadlineHonoured
  BY DEF Init, DeadlineHonoured, EmptyTask
<1>2. IInv /\ DeadlineHonoured /\ [Next]_vars => DeadlineHonoured'
  BY DeadlineStep
<1>3. QED
  BY <1>1, <1>2, Invariance, PTL DEF Spec

\* Every step treats every task in one of those ways.
LEMMA EachTaskStep == IInv /\ [Next]_vars => \A i \in TaskIds : TaskStep(i)
<1> SUFFICES ASSUME IInv, [Next]_vars, NEW i \in TaskIds PROVE TaskStep(i)
  OBVIOUS
<1>f. /\ blockNumber \in Nat
      /\ tasks \in [TaskIds -> Task]
      /\ taskCounter \in 0 .. MaxTasks
      /\ IdsInOrder
  BY DEF IInv, TypeOK
<1>w. \A id \in TaskIds, s \in Status :
         /\ WithStatus(tasks[id], s).status = s
         /\ WithStatus(tasks[id], s).taskId = tasks[id].taskId
         /\ WithStatus(tasks[id], s).assignedOperator = tasks[id].assignedOperator
  BY <1>f, WithStatusType
<1>1. ASSUME NEW type \in TypeInputs, NEW chain \in Chains, NEW timeout \in Timeouts,
             NEW value \in Payments, createTask(type, chain, timeout, value)
      PROVE  TaskStep(i)
  <2>1. taskCounter + 1 \in TaskIds /\ ~(taskCounter + 1 <= taskCounter)
    BY <1>1, <1>f, BoundAssumption DEF createTask, TaskIds
  <2>2. tasks[taskCounter + 1] = EmptyTask
    BY <1>f, <2>1 DEF IdsInOrder
  <2>3. /\ tasks'[taskCounter + 1].taskId = taskCounter + 1
        /\ tasks'[taskCounter + 1].status = "Pending"
        /\ tasks'[taskCounter + 1].assignedOperator = NoOperator
    BY <1>1, <1>f, <2>1 DEF createTask
  <2>4. taskCounter + 1 # 0
    BY <1>f
  <2>5. i # taskCounter + 1 => tasks'[i] = tasks[i]
    BY <1>1, <1>f DEF createTask
  <2>6. QED
    BY <2>2, <2>3, <2>4, <2>5 DEF TaskStep
<1>2. ASSUME NEW id \in TaskIds, NEW o \in Operators, assignTask(id, o) PROVE TaskStep(i)
  <2>1. /\ tasks'[id].status = "Assigned"
        /\ tasks'[id].taskId = tasks[id].taskId
        /\ \A j \in TaskIds \ {id} : tasks'[j] = tasks[j]
    BY <1>2, <1>f DEF assignTask, MayAssign, WithStatus, Task
  <2>2. QED
    BY <1>2, <2>1 DEF assignTask, MayAssign, TaskStep, Exists
<1>3. ASSUME NEW id \in TaskIds, NEW o \in Operators, startTask(id, o) PROVE TaskStep(i)
  BY <1>3, <1>f, <1>w, OneTask DEF startTask, MayStart, TaskStep, Exists, Status
<1>4. ASSUME NEW id \in TaskIds, NEW o \in Operators, NEW r \in Results,
             completeTask(id, o, r)
      PROVE  TaskStep(i)
  <2>1. /\ tasks'[id].status = "Completed"
        /\ tasks'[id].taskId = tasks[id].taskId
        /\ tasks'[id].assignedOperator = tasks[id].assignedOperator
        /\ \A j \in TaskIds \ {id} : tasks'[j] = tasks[j]
    BY <1>4, <1>f DEF completeTask, WithStatus, Task
  <2>2. QED
    BY <1>4, <2>1 DEF completeTask, OwnInProgress, TaskStep, Exists
<1>5. ASSUME NEW id \in TaskIds, NEW o \in Operators, failTask(id, o) PROVE TaskStep(i)
  BY <1>5, <1>f, <1>w, OneTask DEF failTask, OwnInProgress, TaskStep, Exists, Status
<1>6. ASSUME NEW id \in TaskIds, cancelTask(id) PROVE TaskStep(i)
  BY <1>6, <1>f, <1>w, OneTask DEF cancelTask, MayCancel, TaskStep, Exists, Status
<1>7. ASSUME NEW ids \in SUBSET TaskIds, checkTimeouts(ids) PROVE TaskStep(i)
  <2>1. tasks'[i] = IF i \in ids /\ Expired(i)
                    THEN WithStatus(tasks[i], "Timeout") ELSE tasks[i]
    BY <1>7 DEF checkTimeouts, SweptTasks
  <2>2. Expired(i) => tasks[i].taskId # 0 /\ tasks[i].status \in ActiveStatus
    BY DEF Expired, Exists
  <2>3. QED
    BY <1>w, <2>1, <2>2 DEF TaskStep, Status
<1>8. ASSUME UNCHANGED tasks PROVE TaskStep(i)
  BY <1>8 DEF TaskStep
<1>9. ASSUME \/ \E c \in Configs : updateTaskConfig(c)
             \/ \E b \in BOOLEAN : setTaskCreationPaused(b) \/ setPaused(b)
             \/ Mine
             \/ UNCHANGED vars
      PROVE  UNCHANGED tasks
  BY <1>9 DEF updateTaskConfig, setTaskCreationPaused, setPaused, Mine, vars
<1>10. QED
  BY <1>1, <1>2, <1>3, <1>4, <1>5, <1>6, <1>7, <1>8, <1>9 DEF Next

\* A completed task is never touched again.
THEOREM CompletedTheorem == Spec => CompletedIsFinal
<1>1. ASSUME IInv, [Next]_vars PROVE [CompletedStep]_vars
  <2>1. \A i \in TaskIds : TaskStep(i)
    BY <1>1, EachTaskStep
  <2>2. QED
    BY <2>1 DEF CompletedStep, TaskStep, ActiveStatus, EmptyTask
<1>2. QED
  BY <1>1, Invariance, PTL DEF Spec, CompletedIsFinal

\* A failed, cancelled or timed-out task never becomes work again.
THEOREM ClosedTheorem == Spec => ClosedStaysClosed
<1>1. ASSUME IInv, [Next]_vars PROVE [ClosedStep]_vars
  <2>1. \A i \in TaskIds : TaskStep(i)
    BY <1>1, EachTaskStep
  <2>2. QED
    BY <2>1 DEF ClosedStep, TaskStep, ActiveStatus, EmptyTask
<1>2. QED
  BY <1>1, Invariance, PTL DEF Spec, ClosedStaysClosed

-----------------------------------------------------------------------------
(* Indexes *)

\* A task that waits for an operator has none, so that assignTask never lists
\* a task under two operators.
PendingUnowned ==
    \A id \in TaskIds :
        tasks[id].status = "Pending" => tasks[id].assignedOperator = NoOperator

IndexInv == PendingUnowned /\ IndexesAgree

\* push of an id that is not listed yet.
LEMMA PushLists ==
    ASSUME NEW S, NEW seq \in Seq(TaskIds), Lists(seq, S), NEW x \in TaskIds, x \notin S
    PROVE  Lists(Append(seq, x), S \cup {x})
<1>1. /\ DOMAIN seq = 1 .. Len(seq) /\ Len(seq) \in Nat
      /\ DOMAIN Append(seq, x) = 1 .. Len(seq) + 1
      /\ Append(seq, x)[Len(seq) + 1] = x
      /\ \A i \in 1 .. Len(seq) : Append(seq, x)[i] = seq[i]
  BY AppendProperties, LenProperties
<1>2. /\ \A i \in 1 .. Len(seq) + 1 : i \in 1 .. Len(seq) \/ i = Len(seq) + 1
      /\ Len(seq) + 1 \in 1 .. Len(seq) + 1
      /\ \A i \in 1 .. Len(seq) : i \in 1 .. Len(seq) + 1
  BY <1>1
<1>3. /\ \A i \in 1 .. Len(seq) : seq[i] \in S
      /\ \A y \in S : \E i \in 1 .. Len(seq) : seq[i] = y
      /\ \A i, j \in 1 .. Len(seq) : seq[i] = seq[j] => i = j
  BY <1>1 DEF Lists
<1>4. \A i, j \in DOMAIN Append(seq, x) : Append(seq, x)[i] = Append(seq, x)[j] => i = j
  <2> SUFFICES ASSUME NEW i \in 1 .. Len(seq) + 1, NEW j \in 1 .. Len(seq) + 1,
                      Append(seq, x)[i] = Append(seq, x)[j]
               PROVE  i = j
    BY <1>1
  <2>1. CASE i \in 1 .. Len(seq) /\ j \in 1 .. Len(seq)
    BY <1>1, <1>3, <2>1
  <2>2. CASE i = Len(seq) + 1 \/ j = Len(seq) + 1
    BY <1>1, <1>2, <1>3, <2>2
  <2> QED BY <1>2, <2>1, <2>2
<1>5. ASSUME NEW i \in DOMAIN Append(seq, x) PROVE Append(seq, x)[i] \in S \cup {x}
  BY <1>1, <1>2, <1>3
<1>6. ASSUME NEW y \in S \cup {x} PROVE \E i \in DOMAIN Append(seq, x) : Append(seq, x)[i] = y
  BY <1>1, <1>2, <1>3
<1>7. {Append(seq, x)[i] : i \in DOMAIN Append(seq, x)} = S \cup {x}
  BY <1>5, <1>6
<1> QED BY <1>4, <1>7 DEF Lists

\* What the indexes look at in one task.
SameIndexed(t, u) ==
    /\ t.taskId = u.taskId /\ t.chainId = u.chainId /\ t.taskType = u.taskType
    /\ t.assignedOperator = u.assignedOperator

\* A status change is invisible to the indexes.
LEMMA StatusSameIndexed ==
    ASSUME NEW t \in Task, NEW s \in Status, blockNumber \in Nat
    PROVE  SameIndexed(WithStatus(t, s), t)
BY DEF WithStatus, Task, SameIndexed

\* A call that pushes nothing and changes no indexed field keeps the indexes.
LEMMA IndexesKept ==
    ASSUME IndexesAgree, UNCHANGED <<operatorTasks, chainTasks, typeTasks, allTasks>>,
           \A id \in TaskIds : SameIndexed(tasks'[id], tasks[id])
    PROVE  IndexesAgree'
<1>1. {id \in TaskIds : tasks'[id].taskId # 0} = {id \in TaskIds : tasks[id].taskId # 0}
  BY DEF SameIndexed
<1>2. PICK C : C = {id \in TaskIds : tasks[id].taskId # 0}
  OBVIOUS
<1>3. \A x : /\ {id \in C : tasks'[id].chainId = x} = {id \in C : tasks[id].chainId = x}
             /\ {id \in C : tasks'[id].taskType = x} = {id \in C : tasks[id].taskType = x}
             /\ {id \in C : tasks'[id].assignedOperator = x}
                    = {id \in C : tasks[id].assignedOperator = x}
  BY <1>2 DEF SameIndexed
<1>4. /\ Lists(allTasks, C)
      /\ \A c \in Chains : Lists(chainTasks[c], {id \in C : tasks[id].chainId = c})
      /\ \A t \in TaskTypes : Lists(typeTasks[t], {id \in C : tasks[id].taskType = t})
      /\ \A o \in Operators : Lists(operatorTasks[o], {id \in C : tasks[id].assignedOperator = o})
  BY <1>2 DEF IndexesAgree, Exists
<1>5. C = {id \in TaskIds : tasks'[id].taskId # 0}
  BY <1>1, <1>2
<1>6. /\ Lists(allTasks', C)
      /\ \A c \in Chains : Lists(chainTasks'[c], {id \in C : tasks'[id].chainId = c})
      /\ \A t \in TaskTypes : Lists(typeTasks'[t], {id \in C : tasks'[id].taskType = t})
      /\ \A o \in Operators : Lists(operatorTasks'[o], {id \in C : tasks'[id].assignedOperator = o})
  BY <1>3, <1>4
<1> HIDE DEF Lists
<1> QED BY <1>5, <1>6, Zenon DEF IndexesAgree, Exists

\* createTask lists the new task under its chain and its type.
LEMMA CreateIndexed ==
    ASSUME IInv, IndexInv, NEW type \in TypeInputs, NEW chain \in Chains,
           NEW timeout \in Timeouts, NEW value \in Payments,
           createTask(type, chain, timeout, value)
    PROVE  IndexInv'
<1>f. /\ tasks \in [TaskIds -> Task] /\ taskCounter \in 0 .. MaxTasks /\ IdsInOrder
      /\ chainTasks \in [Chains -> Seq(TaskIds)] /\ typeTasks \in [TaskTypes -> Seq(TaskIds)]
      /\ allTasks \in Seq(TaskIds)
  BY DEF IInv, TypeOK
<1>1. PICK new : new = taskCounter + 1
  OBVIOUS
<1>2. new \in TaskIds /\ ~(new <= taskCounter) /\ new # 0
  BY <1>1, <1>f, BoundAssumption DEF createTask, TaskIds
<1>3. tasks[new] = EmptyTask
  BY <1>f, <1>2 DEF IdsInOrder
<1>4. /\ tasks'[new].taskId = new /\ tasks'[new].chainId = chain /\ tasks'[new].taskType = type
      /\ tasks'[new].assignedOperator = NoOperator
      /\ \A i \in TaskIds \ {new} : tasks'[i] = tasks[i]
      /\ type \in TaskTypes
      /\ allTasks' = Append(allTasks, new) /\ operatorTasks' = operatorTasks
      /\ chainTasks' = [chainTasks EXCEPT ![chain] = Append(@, new)]
      /\ typeTasks' = [typeTasks EXCEPT ![type] = Append(@, new)]
  BY <1>f, <1>1, <1>2 DEF createTask
<1>5. PendingUnowned'
  BY <1>4 DEF IndexInv, PendingUnowned
<1>6. PICK C : C = {id \in TaskIds : tasks[id].taskId # 0}
  OBVIOUS
<1>7. new \notin C
  BY <1>3, <1>6 DEF EmptyTask
<1>8. {id \in TaskIds : tasks'[id].taskId # 0} = C \cup {new}
  BY <1>2, <1>4, <1>6
<1>9. /\ Lists(allTasks, C)
      /\ \A c \in Chains : Lists(chainTasks[c], {id \in C : tasks[id].chainId = c})
      /\ \A t \in TaskTypes : Lists(typeTasks[t], {id \in C : tasks[id].taskType = t})
      /\ \A o \in Operators : Lists(operatorTasks[o], {id \in C : tasks[id].assignedOperator = o})
  BY <1>6 DEF IndexInv, IndexesAgree, Exists
<1> HIDE DEF Lists
<1>10. Lists(allTasks', C \cup {new})
  BY <1>2, <1>4, <1>7, <1>9, <1>f, PushLists
<1>11. ASSUME NEW c \in Chains
       PROVE  Lists(chainTasks'[c], {id \in C \cup {new} : tasks'[id].chainId = c})
  <2>1. PICK S : S = {id \in C : tasks[id].chainId = c}
    OBVIOUS
  <2>2. Lists(chainTasks[c], S) /\ new \notin S
    BY <1>7, <1>9, <2>1
  <2>3. CASE c = chain
    <3>1. {id \in C \cup {new} : tasks'[id].chainId = c} = S \cup {new}
      BY <1>4, <1>6, <1>7, <2>1, <2>3
    <3>2. chainTasks'[c] = Append(chainTasks[c], new) /\ chainTasks[c] \in Seq(TaskIds)
      BY <1>4, <1>f, <2>3
    <3> QED BY <1>2, <2>2, <3>1, <3>2, PushLists
  <2>4. CASE c # chain
    <3>1. {id \in C \cup {new} : tasks'[id].chainId = c} = S
      BY <1>4, <1>6, <1>7, <2>1, <2>4
    <3>2. chainTasks'[c] = chainTasks[c]
      BY <1>4, <1>f, <2>4
    <3> QED BY <2>2, <3>1, <3>2
  <2> QED BY <2>3, <2>4
<1>12. ASSUME NEW t \in TaskTypes
       PROVE  Lists(typeTasks'[t], {id \in C \cup {new} : tasks'[id].taskType = t})
  <2>1. PICK S : S = {id \in C : tasks[id].taskType = t}
    OBVIOUS
  <2>2. Lists(typeTasks[t], S) /\ new \notin S
    BY <1>7, <1>9, <2>1
  <2>3. CASE t = type
    <3>1. {id \in C \cup {new} : tasks'[id].taskType = t} = S \cup {new}
      BY <1>4, <1>6, <1>7, <2>1, <2>3
    <3>2. typeTasks'[t] = Append(typeTasks[t], new) /\ typeTasks[t] \in Seq(TaskIds)
      BY <1>4, <1>f, <2>3
    <3> QED BY <1>2, <2>2, <3>1, <3>2, PushLists
  <2>4. CASE t # type
    <3>1. {id \in C \cup {new} : tasks'[id].taskType = t} = S
      BY <1>4, <1>6, <1>7, <2>1, <2>4
    <3>2. typeTasks'[t] = typeTasks[t]
      BY <1>4, <1>f, <2>4
    <3> QED BY <2>2, <3>1, <3>2
  <2> QED BY <2>3, <2>4
<1>13. ASSUME NEW o \in Operators
       PROVE  Lists(operatorTasks'[o], {id \in C \cup {new} : tasks'[id].assignedOperator = o})
  <2>1. {id \in C \cup {new} : tasks'[id].assignedOperator = o}
            = {id \in C : tasks[id].assignedOperator = o}
    BY <1>4, <1>6, <1>7, OperatorsAssumption
  <2> QED BY <1>4, <1>9, <2>1
<1>14. IndexesAgree'
  <2>1. PICK D : D = C \cup {new}
    OBVIOUS
  <2>2. D = {id \in TaskIds : tasks'[id].taskId # 0}
    BY <1>8, <2>1
  <2> QED BY <1>10, <1>11, <1>12, <1>13, <2>1, <2>2, Zenon DEF IndexesAgree, Exists
<1> QED BY <1>5, <1>14 DEF IndexInv

\* assignTask lists the task under its operator.
LEMMA AssignIndexed ==
    ASSUME IInv, IndexInv, NEW id \in TaskIds, NEW o \in Operators, assignTask(id, o)
    PROVE  IndexInv'
<1>f. /\ tasks \in [TaskIds -> Task] /\ operatorTasks \in [Operators -> Seq(TaskIds)]
      /\ blockNumber \in Nat
  BY DEF IInv, TypeOK
<1>1. /\ tasks[id].taskId # 0 /\ tasks[id].status = "Pending"
      /\ operatorTasks' = [operatorTasks EXCEPT ![o] = Append(@, id)]
      /\ UNCHANGED <<chainTasks, typeTasks, allTasks>>
  BY DEF assignTask, MayAssign, Exists
<1>2. tasks[id].assignedOperator = NoOperator
  BY <1>1 DEF IndexInv, PendingUnowned
<1>3. /\ tasks'[id].status = "Assigned"
      /\ tasks'[id].taskId = tasks[id].taskId /\ tasks'[id].chainId = tasks[id].chainId
      /\ tasks'[id].taskType = tasks[id].taskType /\ tasks'[id].assignedOperator = o
      /\ \A i \in TaskIds \ {id} : tasks'[i] = tasks[i]
  BY <1>f DEF assignTask, WithStatus, Task
<1>4. PendingUnowned'
  BY <1>3 DEF IndexInv, PendingUnowned
<1>5. PICK C : C = {i \in TaskIds : tasks[i].taskId # 0}
  OBVIOUS
<1>6. C = {i \in TaskIds : tasks'[i].taskId # 0} /\ id \in C
  BY <1>1, <1>3, <1>5
<1>7. /\ Lists(allTasks, C)
      /\ \A c \in Chains : Lists(chainTasks[c], {i \in C : tasks[i].chainId = c})
      /\ \A t \in TaskTypes : Lists(typeTasks[t], {i \in C : tasks[i].taskType = t})
      /\ \A w \in Operators : Lists(operatorTasks[w], {i \in C : tasks[i].assignedOperator = w})
  BY <1>5 DEF IndexInv, IndexesAgree, Exists
<1> HIDE DEF Lists
<1>8. \A x : /\ {i \in C : tasks'[i].chainId = x} = {i \in C : tasks[i].chainId = x}
             /\ {i \in C : tasks'[i].taskType = x} = {i \in C : tasks[i].taskType = x}
  BY <1>3, <1>5
<1>9. /\ Lists(allTasks', C)
      /\ \A c \in Chains : Lists(chainTasks'[c], {i \in C : tasks'[i].chainId = c})
      /\ \A t \in TaskTypes : Lists(typeTasks'[t], {i \in C : tasks'[i].taskType = t})
  BY <1>1, <1>7, <1>8
<1>10. ASSUME NEW w \in Operators
       PROVE  Lists(operatorTasks'[w], {i \in C : tasks'[i].assignedOperator = w})
  <2>1. PICK S : S = {i \in C : tasks[i].assignedOperator = w}
    OBVIOUS
  <2>2. Lists(operatorTasks[w], S) /\ id \notin S
    BY <1>2, <1>7, <2>1, OperatorsAssumption
  <2>3. CASE w = o
    <3>1. {i \in C : tasks'[i].assignedOperator = w} = S \cup {id}
      BY <1>3, <1>5, <1>6, <2>1, <2>3
    <3>2. operatorTasks'[w] = Append(operatorTasks[w], id) /\ operatorTasks[w] \in Seq(TaskIds)
      BY <1>1, <1>f, <2>3
    <3> QED BY <2>2, <3>1, <3>2, PushLists
  <2>4. CASE w # o
    <3>1. {i \in C : tasks'[i].assignedOperator = w} = S
      BY <1>2, <1>3, <1>5, <2>1, <2>4, OperatorsAssumption
    <3>2. operatorTasks'[w] = operatorTasks[w]
      BY <1>1, <1>f, <2>4
    <3> QED BY <2>2, <3>1, <3>2
  <2> QED BY <2>3, <2>4
<1>11. IndexesAgree'
  BY <1>6, <1>9, <1>10, Zenon DEF IndexesAgree, Exists
<1> QED BY <1>4, <1>11 DEF IndexInv

\* Every call keeps the indexes.
LEMMA IndexStep == IInv /\ IndexInv /\ [Next]_vars => IndexInv'
<1> SUFFICES ASSUME IInv, IndexInv, [Next]_vars PROVE IndexInv'
  OBVIOUS
<1>f. blockNumber \in Nat /\ tasks \in [TaskIds -> Task]
  BY DEF IInv, TypeOK
<1>w. \A i \in TaskIds, s \in Status :
         SameIndexed(WithStatus(tasks[i], s), tasks[i]) /\ WithStatus(tasks[i], s).status = s
  BY <1>f, StatusSameIndexed, WithStatusType
<1>s. \A i \in TaskIds : SameIndexed(tasks[i], tasks[i])
  BY DEF SameIndexed
\* The calls that push nothing.
<1>k. ASSUME UNCHANGED <<operatorTasks, chainTasks, typeTasks, allTasks>>,
             \A i \in TaskIds : /\ SameIndexed(tasks'[i], tasks[i])
                                /\ tasks'[i].status = "Pending" => tasks[i].status = "Pending"
      PROVE  IndexInv'
  <2>1. PendingUnowned'
    BY <1>k DEF IndexInv, PendingUnowned, SameIndexed
  <2> QED BY <1>k, <2>1, IndexesKept DEF IndexInv
<1>1. ASSUME NEW id \in TaskIds, NEW o \in Operators, startTask(id, o) PROVE IndexInv'
  <2>1. \A i \in TaskIds : /\ SameIndexed(tasks'[i], tasks[i])
                           /\ tasks'[i].status = "Pending" => tasks[i].status = "Pending"
    BY <1>1, <1>f, <1>s, <1>w, OneTask DEF startTask, Status
  <2> QED BY <1>1, <1>k, <2>1 DEF startTask
<1>2. ASSUME NEW id \in TaskIds, NEW o \in Operators, NEW r \in Results, completeTask(id, o, r)
      PROVE  IndexInv'
  <2>1. /\ SameIndexed(tasks'[id], tasks[id]) /\ tasks'[id].status = "Completed"
        /\ \A i \in TaskIds \ {id} : tasks'[i] = tasks[i]
    BY <1>2, <1>f DEF completeTask, WithStatus, Task, SameIndexed
  <2>2. \A i \in TaskIds : /\ SameIndexed(tasks'[i], tasks[i])
                           /\ tasks'[i].status = "Pending" => tasks[i].status = "Pending"
    BY <1>s, <2>1
  <2> QED BY <1>2, <1>k, <2>2 DEF completeTask
<1>3. ASSUME NEW id \in TaskIds, NEW o \in Operators, failTask(id, o) PROVE IndexInv'
  <2>1. \A i \in TaskIds : /\ SameIndexed(tasks'[i], tasks[i])
                           /\ tasks'[i].status = "Pending" => tasks[i].status = "Pending"
    BY <1>3, <1>f, <1>s, <1>w, OneTask DEF failTask, Status
  <2> QED BY <1>3, <1>k, <2>1 DEF failTask
<1>4. ASSUME NEW id \in TaskIds, cancelTask(id) PROVE IndexInv'
  <2>1. \A i \in TaskIds : /\ SameIndexed(tasks'[i], tasks[i])
                           /\ tasks'[i].status = "Pending" => tasks[i].status = "Pending"
    BY <1>4, <1>f, <1>s, <1>w, OneTask DEF cancelTask, Status
  <2> QED BY <1>4, <1>k, <2>1 DEF cancelTask
<1>5. ASSUME NEW ids \in SUBSET TaskIds, checkTimeouts(ids) PROVE IndexInv'
  <2>1. \A i \in TaskIds : tasks'[i] = IF i \in ids /\ Expired(i)
                                       THEN WithStatus(tasks[i], "Timeout") ELSE tasks[i]
    BY <1>5 DEF checkTimeouts, SweptTasks
  <2>2. \A i \in TaskIds : /\ SameIndexed(tasks'[i], tasks[i])
                           /\ tasks'[i].status = "Pending" => tasks[i].status = "Pending"
    BY <1>s, <1>w, <2>1 DEF Status
  <2> QED BY <1>5, <1>k, <2>2 DEF checkTimeouts
<1>6. ASSUME \/ \E c \in Configs : updateTaskConfig(c)
             \/ \E b \in BOOLEAN : setTaskCreationPaused(b) \/ setPaused(b)
             \/ Mine
             \/ UNCHANGED vars
      PROVE  IndexInv'
  <2>1. UNCHANGED <<tasks, operatorTasks, chainTasks, typeTasks, allTasks>>
    BY <1>6 DEF updateTaskConfig, setTaskCreationPaused, setPaused, Mine, vars
  <2> QED BY <1>k, <1>s, <2>1
<1> QED BY <1>1, <1>2, <1>3, <1>4, <1>5, <1>6, CreateIndexed, AssignIndexed DEF Next

\* The constructor's empty arrays list the empty table.
LEMMA IndexInit == Init => IndexInv
<1> SUFFICES ASSUME Init PROVE IndexInv
  OBVIOUS
<1>1. \A id \in TaskIds : tasks[id] = EmptyTask
  BY DEF Init
<1>2. PendingUnowned
  BY <1>1 DEF PendingUnowned, EmptyTask
<1>3. {id \in TaskIds : Exists(id)} = {}
  BY <1>1 DEF Exists, EmptyTask
<1>4. Lists(<< >>, {})
  BY DEF Lists
<1>5. IndexesAgree
  BY <1>3, <1>4 DEF IndexesAgree, Init
<1> QED BY <1>2, <1>5 DEF IndexInv

\* Every created task is listed once under its chain, its type and its
\* operator, and the arrays that createTask and assignTask push to hold
\* nothing else.
THEOREM IndexTheorem == Spec => []IndexesAgree
<1>1. IndexInv => IndexesAgree
  BY DEF IndexInv
<1> QED BY <1>1, IndexInit, IndexStep, Invariance, PTL DEF Spec

-----------------------------------------------------------------------------
(* The loop of checkTimeouts *)

\* A nonempty set of natural numbers has a least one.
LEMMA LeastNumber ==
    ASSUME NEW B \in SUBSET Nat, B # {}
    PROVE  \E k \in B : \A m \in B : k <= m
<1> DEFINE R == OpToRel(<, Nat)
<1>1. \A x, y \in Nat : y < x => <<y, x>> \in R
  BY DEF OpToRel
<1>2. IsWellFoundedOn(R, Nat)
  BY NatLessThanWellFounded
<1> HIDE DEF R
<1>3. PICK x \in B : \A y \in B : ~ (<<y, x>> \in R)
  BY <1>2, WFMin
<1>4. \A y \in B : ~(y < x)
  BY <1>1, <1>3
<1> QED BY <1>4

\* What handling each id of a set once leaves.
Swept(ids) == [tasks |-> SweptTasks(ids), count |-> SweptCount(ids)]

\* One more id: an iteration of the loop does to it what the set adds.
LEMMA IterationLemma ==
    ASSUME TypeOK, NEW ids \in SUBSET TaskIds, NEW id \in TaskIds
    PROVE  TimeoutIteration(Swept(ids), id) = Swept(ids \cup {id})
<1>1. PICK ts, ct : ts = SweptTasks(ids) /\ ct = SweptCount(ids)
  OBVIOUS
<1>2. Swept(ids).tasks = ts /\ Swept(ids).count = ct /\ Swept(ids) = [tasks |-> ts, count |-> ct]
  BY <1>1 DEF Swept
<1>3. tasks[id] \in Task /\ \A x \in TaskIds : tasks[x] \in Task
  BY DEF TypeOK
<1>4. ts = [x \in TaskIds |-> IF x \in ids /\ Expired(x) THEN WithStatus(tasks[x], "Timeout") ELSE tasks[x]]
  BY <1>1 DEF SweptTasks
<1>5. WithStatus(tasks[id], "Timeout").status = "Timeout"
  BY <1>3 DEF WithStatus, Task
<1>6. CASE ~Expired(id)
  <2>1. ts[id] = tasks[id]
    BY <1>4, <1>6
  <2>2. TimeoutIteration(Swept(ids), id) = Swept(ids)
    BY <1>2, <1>6, <2>1 DEF TimeoutIteration, Expired, Exists
  <2>3. SweptTasks(ids \cup {id}) = SweptTasks(ids)
    BY <1>6 DEF SweptTasks
  <2>4. \A o \in Operators : SweptFrom(ids \cup {id}, o) = SweptFrom(ids, o)
    BY <1>6 DEF SweptFrom
  <2>5. SweptCount(ids \cup {id}) = SweptCount(ids)
    BY <2>4 DEF SweptCount
  <2> QED BY <2>2, <2>3, <2>5 DEF Swept
<1>7. CASE Expired(id) /\ id \in ids
  <2>1. ts[id] = WithStatus(tasks[id], "Timeout")
    BY <1>4, <1>7
  <2>2. TimeoutIteration(Swept(ids), id) = Swept(ids)
    BY <1>2, <1>5, <2>1 DEF TimeoutIteration, ActiveStatus
  <2>3. ids \cup {id} = ids
    BY <1>7
  <2> QED BY <2>2, <2>3
<1>8. CASE Expired(id) /\ id \notin ids
  <2>1. ts[id] = tasks[id]
    BY <1>4, <1>8
  <2>2. PICK a : a = tasks[id].assignedOperator
    OBVIOUS
  <2>3. PICK ts2 : ts2 = [ts EXCEPT ![id] = WithStatus(@, "Timeout")]
    OBVIOUS
  <2>4. PICK ct2 : ct2 = IF a # NoOperator THEN [ct EXCEPT ![a] = @ - 1] ELSE ct
    OBVIOUS
  <2>5. TimeoutIteration(Swept(ids), id) = [tasks |-> ts2, count |-> ct2]
    BY <1>2, <1>8, <2>1, <2>2, <2>3, <2>4 DEF TimeoutIteration, Expired, Exists
  <2>6. ts2 = SweptTasks(ids \cup {id})
    <3>1. ts2 = [x \in TaskIds |-> IF x = id THEN WithStatus(tasks[id], "Timeout") ELSE ts[x]]
      BY <1>4, <2>1, <2>3
    <3>2. ASSUME NEW x \in TaskIds
          PROVE  ts2[x] = IF x \in ids \cup {id} /\ Expired(x)
                          THEN WithStatus(tasks[x], "Timeout") ELSE tasks[x]
      BY <1>4, <1>8, <3>1
    <3> QED BY <3>1, <3>2 DEF SweptTasks
  <2>7. ct2 = SweptCount(ids \cup {id})
    <3>1. ct = [o \in Operators |-> operatorTaskCount[o] - Cardinality(SweptFrom(ids, o))]
      BY <1>1 DEF SweptCount
    <3>2. ASSUME NEW o \in Operators
          PROVE  ct2[o] = operatorTaskCount[o] - Cardinality(SweptFrom(ids \cup {id}, o))
      <4>1. PICK S : S = SweptFrom(ids, o)
        OBVIOUS
      <4>2. S \in SUBSET TaskIds /\ id \notin S
        BY <1>8, <4>1 DEF SweptFrom
      <4>3. IsFiniteSet(S) /\ Cardinality(S) \in Nat
        BY <4>2, IdsFinite, FS_CardinalityType
      <4>4. o # NoOperator
        BY OperatorsAssumption
      <4>5. CASE a = o
        <5>1. SweptFrom(ids \cup {id}, o) = S \cup {id}
          BY <1>8, <2>2, <4>1, <4>5 DEF SweptFrom
        <5>2. Cardinality(S \cup {id}) = Cardinality(S) + 1
          BY <4>2, <4>3, FS_AddElement
        <5>3. ct2[o] = ct[o] - 1
          BY <2>4, <3>1, <4>4, <4>5
        <5>4. PICK n \in Nat, k \in Nat : n = operatorTaskCount[o] /\ k = Cardinality(S)
          BY <4>3 DEF TypeOK
        <5>5. ct[o] = n - k /\ (n - k) - 1 = n - (k + 1)
          BY <3>1, <4>1, <5>4
        <5> QED BY <5>1, <5>2, <5>3, <5>4, <5>5
      <4>6. CASE a # o
        <5>1. SweptFrom(ids \cup {id}, o) = S
          BY <2>2, <4>1, <4>6 DEF SweptFrom
        <5>2. ct2[o] = ct[o]
          BY <2>4, <3>1, <4>6
        <5> QED BY <3>1, <4>1, <5>1, <5>2
      <4> QED BY <4>5, <4>6
    <3>3. ct2 = [o \in Operators |-> ct2[o]]
      BY <2>4, <3>1
    <3> QED BY <3>2, <3>3 DEF SweptCount
  <2> QED BY <2>5, <2>6, <2>7 DEF Swept
<1> QED BY <1>6, <1>7, <1>8

\* f holds the two mappings after each iteration over the array.
IsLoop(f, array) ==
    f = [i \in 0 .. Len(array) |->
            IF i = 0 THEN [tasks |-> tasks, count |-> operatorTaskCount]
            ELSE TimeoutIteration(f[i - 1], array[i])]

\* The ids among the first i entries.
Prefix(array, i) == {array[j] : j \in 1 .. i}

\* After i iterations the first i ids have been handled once each.
LEMMA LoopLemma ==
    ASSUME TypeOK, NEW array \in Seq(TaskIds)
    PROVE  TimeoutLoop(array) = Swept({array[i] : i \in DOMAIN array})
<1>1. PICK n \in Nat : n = Len(array) /\ DOMAIN array = 1 .. n
  BY LenProperties
<1>2. \A i \in 1 .. n : array[i] \in TaskIds
  BY <1>1, ElementOfSeq
<1>3. PICK F : F = [i \in 0 .. n |-> Swept(Prefix(array, i))]
  OBVIOUS
<1>4. F[0] = [tasks |-> tasks, count |-> operatorTaskCount]
  <2>1. Prefix(array, 0) = {}
    BY DEF Prefix
  <2>2. SweptTasks({}) = tasks
    BY DEF SweptTasks, TypeOK
  <2>3. SweptCount({}) = operatorTaskCount
    <3>1. \A o \in Operators : SweptFrom({}, o) = {}
      BY DEF SweptFrom
    <3>2. Cardinality({}) = 0
      BY FS_EmptySet
    <3>3. \A o \in Operators : operatorTaskCount[o] - 0 = operatorTaskCount[o]
      BY DEF TypeOK
    <3> QED BY <3>1, <3>2, <3>3 DEF SweptCount, TypeOK
  <2>4. F[0] = Swept({})
    BY <1>3, <2>1
  <2> QED BY <2>2, <2>3, <2>4 DEF Swept
<1>5. ASSUME NEW i \in 1 .. n PROVE F[i] = TimeoutIteration(F[i - 1], array[i])
  <2>1. PICK k \in 0 .. n : k = i - 1 /\ i = k + 1
    OBVIOUS
  <2>2. Prefix(array, i) = Prefix(array, k) \cup {array[i]}
    BY <2>1 DEF Prefix
  <2>3. Prefix(array, k) \in SUBSET TaskIds
    BY <1>2, <2>1 DEF Prefix
  <2>4. array[i] \in TaskIds
    BY <1>2
  <2>5. TimeoutIteration(Swept(Prefix(array, k)), array[i]) = Swept(Prefix(array, k) \cup {array[i]})
    BY <2>3, <2>4, IterationLemma
  <2>6. F[i] = Swept(Prefix(array, i)) /\ F[k] = Swept(Prefix(array, k))
    BY <1>3
  <2> QED BY <2>1, <2>2, <2>5, <2>6
<1>6. IsLoop(F, array)
  <2>1. \A i \in 0 .. n : F[i] = IF i = 0 THEN [tasks |-> tasks, count |-> operatorTaskCount]
                                 ELSE TimeoutIteration(F[i - 1], array[i])
    BY <1>4, <1>5
  <2>2. F = [i \in 0 .. n |-> F[i]]
    BY <1>3
  <2> QED BY <1>1, <2>1, <2>2 DEF IsLoop
<1>7. ASSUME NEW f, IsLoop(f, array) PROVE f[n] = F[n]
  <2> DEFINE B == {i \in Nat : i <= n /\ f[i] # F[i]}
  <2>1. SUFFICES ASSUME B # {} PROVE FALSE
    BY <2>1
  <2>2. PICK k \in B : \A m \in B : k <= m
    <3>1. B \in SUBSET Nat
      OBVIOUS
    <3> HIDE DEF B
    <3> QED BY <2>1, <3>1, LeastNumber
  <2>3. k \in 0 .. n
    BY <2>2
  <2>4. k # 0
    BY <1>1, <1>4, <1>7, <2>2, <2>3 DEF IsLoop
  <2>5. PICK j \in Nat : j = k - 1 /\ j <= n /\ j < k
    BY <2>3, <2>4
  <2>6. f[j] = F[j]
    BY <2>2, <2>5
  <2>7. f[k] = TimeoutIteration(f[j], array[k])
    BY <1>1, <1>7, <2>3, <2>4, <2>5 DEF IsLoop
  <2>8. F[k] = TimeoutIteration(F[j], array[k])
    BY <1>5, <2>3, <2>4, <2>5
  <2> QED BY <2>2, <2>6, <2>7, <2>8
<1>8. PICK g : g = (CHOOSE f : IsLoop(f, array)) /\ IsLoop(g, array)
  BY <1>6
<1>9. TimeoutLoop(array) = g[n]
  BY <1>1, <1>8 DEF TimeoutLoop, IsLoop
<1>10. Prefix(array, n) = {array[i] : i \in DOMAIN array}
  BY <1>1 DEF Prefix
<1>11. F[n] = Swept(Prefix(array, n))
  BY <1>3
<1> QED BY <1>7, <1>8, <1>9, <1>10, <1>11

\* The loop of checkTimeouts, over arrays of any length in any order and with
\* any repetitions, leaves what the action checkTimeouts leaves.
THEOREM SweepTheorem == Spec => []SweepIsTheLoop
<1>1. TypeOK => SweepIsTheLoop
  <2> SUFFICES ASSUME TypeOK, NEW array \in SweepArrays
               PROVE  TimeoutLoop(array) = Swept({array[i] : i \in DOMAIN array})
    BY DEF SweepIsTheLoop, Swept
  <2>1. array \in Seq(TaskIds)
    BY ArrayAssumption DEF TaskIds
  <2> QED BY <2>1, LoopLemma
<1> QED BY <1>1, TypeCorrect, PTL

-----------------------------------------------------------------------------
(* Refinement *)

\* PhaseOf, status by status.
LEMMA PhaseCases ==
    ASSUME NEW t \in Task
    PROVE  /\ t.taskId = 0 => PhaseOf(t) = "none"
           /\ t.taskId # 0 =>
                /\ t.status = "Pending" => PhaseOf(t) = "open"
                /\ t.status \in ActiveStatus => PhaseOf(t) = "held"
                /\ t.status = "Completed" => PhaseOf(t) = "completed"
                /\ t.status \in {"Failed", "Cancelled", "Timeout"} => PhaseOf(t) = "closed"
BY DEF PhaseOf, ActiveStatus

\* The abstract notion of holding is the concrete one.
LEMMA HeldByIsHeld ==
    ASSUME IInv, NEW o \in Operators
    PROVE  Lifecycle!HeldBy(o) = Held(tasks, o)
<1>1. tasks \in [TaskIds -> Task] /\ IdsInOrder
  BY DEF IInv, TypeOK
<1>2. \A id \in TaskIds : tasks[id].taskId = 0 => tasks[id].status = "Pending"
  <2>1. EmptyTask.status = "Pending"
    BY DEF EmptyTask
  <2>2. 0 \notin TaskIds
    BY BoundAssumption DEF TaskIds
  <2>3. QED
    BY <1>1, <2>1, <2>2 DEF IdsInOrder
<1>3. \A id \in TaskIds : PhaseOf(tasks[id]) = "held" <=> tasks[id].status \in ActiveStatus
  BY <1>1, <1>2, PhaseCases DEF Task, Status, ActiveStatus
<1>4. QED
  BY <1>3 DEF Lifecycle!HeldBy, Held

\* The instance brings its own copy of Cardinality, which is the same operator.
LEMMA SameCardinality == ASSUME NEW S PROVE Lifecycle!Cardinality(S) = Cardinality(S)
BY DEF Cardinality, Lifecycle!Cardinality

\* The two abstract variables, as the refinement mapping defines them.
AbsPhase  == [id \in TaskIds |-> PhaseOf(tasks[id])]
AbsHolder == [id \in TaskIds |-> tasks[id].assignedOperator]

\* How a one-task step looks from above.
LEMMA AbsOneTask ==
    ASSUME NEW id \in TaskIds,
           \A i \in TaskIds \ {id} : tasks'[i] = tasks[i]
    PROVE  /\ AbsPhase' = [AbsPhase EXCEPT ![id] = PhaseOf(tasks'[id])]
           /\ AbsHolder' = [AbsHolder EXCEPT ![id] = tasks'[id].assignedOperator]
<1>1. AbsPhase' = [i \in TaskIds |-> PhaseOf(tasks'[i])]
      /\ AbsHolder' = [i \in TaskIds |-> tasks'[i].assignedOperator]
  BY DEF AbsPhase, AbsHolder
<1>2. \A i \in TaskIds : i # id => PhaseOf(tasks'[i]) = PhaseOf(tasks[i])
  OBVIOUS
<1>3. QED
  BY <1>1, <1>2 DEF AbsPhase, AbsHolder

\* A step in which one task changes from one phase to another, or not at all,
\* keeping its operator.
LEMMA AbsMove ==
    ASSUME NEW id \in TaskIds,
           \A i \in TaskIds \ {id} : tasks'[i] = tasks[i],
           tasks'[id].assignedOperator = tasks[id].assignedOperator
    PROVE  /\ AbsHolder' = AbsHolder
           /\ AbsPhase' = [AbsPhase EXCEPT ![id] = PhaseOf(tasks'[id])]
           /\ PhaseOf(tasks'[id]) = "closed" /\ PhaseOf(tasks[id]) \in {"open", "held"}
                 => Lifecycle!Next
           /\ PhaseOf(tasks'[id]) = PhaseOf(tasks[id]) => AbsPhase' = AbsPhase
<1>1. /\ AbsPhase' = [AbsPhase EXCEPT ![id] = PhaseOf(tasks'[id])]
      /\ AbsHolder' = [AbsHolder EXCEPT ![id] = tasks'[id].assignedOperator]
  BY AbsOneTask
<1>2. AbsHolder' = AbsHolder
  BY <1>1 DEF AbsHolder
<1>3. ASSUME PhaseOf(tasks'[id]) = "closed", PhaseOf(tasks[id]) \in {"open", "held"}
      PROVE  Lifecycle!Next
  <2>1. AbsPhase' = [i \in TaskIds |-> IF i \in {id} THEN "closed" ELSE AbsPhase[i]]
    BY <1>1, <1>3 DEF AbsPhase
  <2>2. Lifecycle!Close({id})
    BY <1>2, <1>3, <2>1 DEF Lifecycle!Close, AbsPhase, AbsHolder
  <2>3. QED
    BY <2>2 DEF Lifecycle!Next
<1>4. PhaseOf(tasks'[id]) = PhaseOf(tasks[id]) => AbsPhase' = AbsPhase
  BY <1>1 DEF AbsPhase
<1>5. QED
  BY <1>1, <1>2, <1>3, <1>4

\* Every step of the contract is a step of the life cycle or changes nothing
\* in it.
LEMMA StepRefines ==
    IInv /\ IInv' /\ [Next]_vars => [Lifecycle!Next]_(Lifecycle!lifecycleVars)
<1> SUFFICES ASSUME IInv, IInv', [Next]_vars
             PROVE  Lifecycle!Next \/ (AbsPhase' = AbsPhase /\ AbsHolder' = AbsHolder)
  BY DEF Lifecycle!lifecycleVars, AbsPhase, AbsHolder
<1>f. /\ blockNumber \in Nat
      /\ tasks \in [TaskIds -> Task] /\ tasks' \in [TaskIds -> Task]
      /\ taskCounter \in 0 .. MaxTasks
      /\ IdsInOrder /\ HolderKnown /\ CountIsHeld
  BY DEF IInv, TypeOK
<1>w. \A id \in TaskIds, s \in Status :
         /\ WithStatus(tasks[id], s).status = s
         /\ WithStatus(tasks[id], s).taskId = tasks[id].taskId
         /\ WithStatus(tasks[id], s).assignedOperator = tasks[id].assignedOperator
  BY <1>f, WithStatusType
<1> DEFINE Goal == Lifecycle!Next \/ (AbsPhase' = AbsPhase /\ AbsHolder' = AbsHolder)
<1>1. ASSUME NEW type \in TypeInputs, NEW chain \in Chains, NEW timeout \in Timeouts,
             NEW value \in Payments, createTask(type, chain, timeout, value)
      PROVE  Goal
  <2> DEFINE id == taskCounter + 1
  <2>1. id \in TaskIds /\ ~(id <= taskCounter) /\ id # 0
    BY <1>1, <1>f, BoundAssumption DEF createTask, TaskIds
  <2>2. tasks[id] = EmptyTask
    BY <1>f, <2>1 DEF IdsInOrder
  <2>3. /\ tasks'[id].taskId = id
        /\ tasks'[id].status = "Pending"
        /\ tasks'[id].assignedOperator = NoOperator
        /\ \A i \in TaskIds \ {id} : tasks'[i] = tasks[i]
    BY <1>1, <1>f, <2>1 DEF createTask
  <2> HIDE DEF id
  <2>4. PhaseOf(tasks[id]) = "none" /\ PhaseOf(tasks'[id]) = "open"
    BY <1>f, <2>1, <2>2, <2>3, PhaseCases DEF EmptyTask
  <2>5. tasks'[id].assignedOperator = tasks[id].assignedOperator
    BY <2>2, <2>3 DEF EmptyTask
  <2>6. /\ AbsPhase' = [AbsPhase EXCEPT ![id] = "open"]
        /\ AbsHolder' = AbsHolder
    BY <2>1, <2>3, <2>4, <2>5, AbsMove
  <2>7. Lifecycle!Open(id)
    BY <2>1, <2>4, <2>6 DEF Lifecycle!Open, AbsPhase, AbsHolder
  <2>8. QED
    BY <2>1, <2>7 DEF Lifecycle!Next
<1>2. ASSUME NEW id \in TaskIds, NEW o \in Operators, assignTask(id, o) PROVE Goal
  <2>1. /\ tasks'[id].status = "Assigned"
        /\ tasks'[id].taskId = tasks[id].taskId
        /\ tasks'[id].assignedOperator = o
        /\ \A j \in TaskIds \ {id} : tasks'[j] = tasks[j]
    BY <1>2, <1>f DEF assignTask, MayAssign, WithStatus, Task
  <2>2. tasks[id].taskId # 0 /\ tasks[id].status = "Pending"
    BY <1>2 DEF assignTask, MayAssign, Exists
  <2>3. PhaseOf(tasks[id]) = "open" /\ PhaseOf(tasks'[id]) = "held"
    BY <1>f, <2>1, <2>2, PhaseCases DEF ActiveStatus
  <2>4. /\ AbsPhase' = [AbsPhase EXCEPT ![id] = "held"]
        /\ AbsHolder' = [AbsHolder EXCEPT ![id] = o]
    BY <2>1, <2>3, AbsOneTask
  <2>5. Lifecycle!Cardinality(Lifecycle!HeldBy(o)) < MAX_TASKS_PER_OPERATOR
    <3>1. operatorTaskCount[o] < MAX_TASKS_PER_OPERATOR
      BY <1>2 DEF assignTask, MayAssign
    <3>2. QED
      BY <1>f, <3>1, HeldByIsHeld, SameCardinality DEF CountIsHeld
  <2>6. Lifecycle!Take(id, o)
    <3>1. AbsPhase[id] = "open"
      BY <2>3 DEF AbsPhase
    <3>2. QED
      BY <2>4, <2>5, <3>1, Zenon DEF Lifecycle!Take, AbsPhase, AbsHolder
  <2>7. QED
    BY <2>6 DEF Lifecycle!Next
<1>3. ASSUME NEW id \in TaskIds, NEW o \in Operators, startTask(id, o) PROVE Goal
  <2>1. /\ tasks'[id] = WithStatus(tasks[id], "InProgress")
        /\ \A j \in TaskIds \ {id} : tasks'[j] = tasks[j]
        /\ tasks[id].taskId # 0 /\ tasks[id].status = "Assigned"
    BY <1>3, <1>f, OneTask DEF startTask, MayStart, Exists
  <2>2. PhaseOf(tasks[id]) = "held" /\ PhaseOf(tasks'[id]) = "held"
    BY <1>f, <1>w, <2>1, PhaseCases DEF ActiveStatus, Status
  <2>3. QED
    BY <1>w, <2>1, <2>2, AbsMove DEF Status
<1>4. ASSUME NEW id \in TaskIds, NEW o \in Operators, NEW r \in Results,
             completeTask(id, o, r)
      PROVE  Goal
  <2>1. /\ tasks'[id].status = "Completed"
        /\ tasks'[id].taskId = tasks[id].taskId
        /\ tasks'[id].assignedOperator = tasks[id].assignedOperator
        /\ \A j \in TaskIds \ {id} : tasks'[j] = tasks[j]
    BY <1>4, <1>f DEF completeTask, WithStatus, Task
  <2>2. tasks[id].taskId # 0 /\ tasks[id].status = "InProgress"
    BY <1>4 DEF completeTask, OwnInProgress, Exists
  <2>3. PhaseOf(tasks[id]) = "held" /\ PhaseOf(tasks'[id]) = "completed"
    BY <1>f, <2>1, <2>2, PhaseCases DEF ActiveStatus
  <2>4. AbsPhase' = [AbsPhase EXCEPT ![id] = "completed"] /\ AbsHolder' = AbsHolder
    BY <2>1, <2>3, AbsMove
  <2>5. Lifecycle!Complete(id)
    BY <2>3, <2>4 DEF Lifecycle!Complete, AbsPhase, AbsHolder
  <2>6. QED
    BY <2>5 DEF Lifecycle!Next
<1>5. ASSUME NEW id \in TaskIds, NEW o \in Operators, failTask(id, o) PROVE Goal
  <2>1. /\ tasks'[id] = WithStatus(tasks[id], "Failed")
        /\ \A j \in TaskIds \ {id} : tasks'[j] = tasks[j]
        /\ tasks[id].taskId # 0 /\ tasks[id].status = "InProgress"
    BY <1>5, <1>f, OneTask DEF failTask, OwnInProgress, Exists
  <2>2. PhaseOf(tasks[id]) = "held" /\ PhaseOf(tasks'[id]) = "closed"
    BY <1>f, <1>w, <2>1, PhaseCases DEF ActiveStatus, Status
  <2>3. QED
    BY <1>w, <2>1, <2>2, AbsMove DEF Status
<1>6. ASSUME NEW id \in TaskIds, cancelTask(id) PROVE Goal
  <2>1. /\ tasks'[id] = WithStatus(tasks[id], "Cancelled")
        /\ \A j \in TaskIds \ {id} : tasks'[j] = tasks[j]
        /\ tasks[id].taskId # 0 /\ tasks[id].status # "Completed"
    BY <1>6, <1>f, OneTask DEF cancelTask, MayCancel, Exists
  <2>2. PhaseOf(tasks'[id]) = "closed"
    BY <1>f, <1>w, <2>1, PhaseCases DEF Status
  <2>3. PhaseOf(tasks[id]) \in {"open", "held", "closed"}
    BY <1>f, <2>1, PhaseCases DEF Task, Status, ActiveStatus
  <2>4. QED
    BY <1>w, <2>1, <2>2, <2>3, AbsMove DEF Status
<1>7. ASSUME NEW ids \in SUBSET TaskIds, checkTimeouts(ids) PROVE Goal
  <2> DEFINE S == {id \in ids : Expired(id)}
  <2>1. \A id \in TaskIds :
           tasks'[id] = IF id \in S THEN WithStatus(tasks[id], "Timeout") ELSE tasks[id]
    BY <1>7 DEF checkTimeouts, SweptTasks
  <2>2. \A id \in S : tasks[id].taskId # 0 /\ tasks[id].status \in ActiveStatus
    BY DEF Expired, Exists
  <2>3. S \in SUBSET TaskIds
    OBVIOUS
  <2> HIDE DEF S
  <2>4. \A id \in S : PhaseOf(tasks[id]) = "held" /\ PhaseOf(tasks'[id]) = "closed"
    BY <1>f, <1>w, <2>1, <2>2, <2>3, PhaseCases DEF Status
  <2>5. AbsPhase' = [id \in TaskIds |-> IF id \in S THEN "closed" ELSE AbsPhase[id]]
    BY <2>1, <2>4 DEF AbsPhase
  <2>6. AbsHolder' = AbsHolder
    BY <1>w, <2>1 DEF AbsHolder, Status
  <2>7. Lifecycle!Close(S)
    BY <2>3, <2>4, <2>5, <2>6 DEF Lifecycle!Close, AbsPhase, AbsHolder
  <2>8. QED
    BY <2>3, <2>7 DEF Lifecycle!Next
<1>8. ASSUME UNCHANGED tasks PROVE Goal
  BY <1>8 DEF AbsPhase, AbsHolder
<1>9. ASSUME \/ \E c \in Configs : updateTaskConfig(c)
             \/ \E b \in BOOLEAN : setTaskCreationPaused(b) \/ setPaused(b)
             \/ Mine
             \/ UNCHANGED vars
      PROVE  UNCHANGED tasks
  BY <1>9 DEF updateTaskConfig, setTaskCreationPaused, setPaused, Mine, vars
<1> HIDE DEF Goal
<1>10. Goal
  BY <1>1, <1>2, <1>3, <1>4, <1>5, <1>6, <1>7, <1>8, <1>9 DEF Next
<1>11. QED
  BY <1>10 DEF Goal

\* The task manager implements the abstract life cycle.
THEOREM Refinement == Spec => LifecycleSpec
<1>1. Init => Lifecycle!Init
  <2> SUFFICES ASSUME Init PROVE Lifecycle!Init
    OBVIOUS
  <2>1. PhaseOf(EmptyTask) = "none" /\ EmptyTask.assignedOperator = NoOperator
    BY DEF PhaseOf, EmptyTask
  <2>2. QED
    BY <2>1 DEF Init, Lifecycle!Init
<1>2. QED
  BY <1>1, StepRefines, Invariance, PTL DEF Spec, LifecycleSpec, Lifecycle!Spec

=============================================================================
