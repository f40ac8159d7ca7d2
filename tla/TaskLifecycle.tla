---------------------------- MODULE TaskLifecycle ----------------------------
(***************************************************************************)
(* What the task manager promises, without counters or deadlines: a task   *)
(* is opened, held by one operator at a time who holds at most Capacity    *)
(* tasks, and ends completed or closed, for good.                          *)
(***************************************************************************)
EXTENDS Integers, FiniteSets

CONSTANTS Ids, Workers, Nobody, Capacity

VARIABLES phase,    \* of each task
          holder    \* who was given the task, if anyone

lifecycleVars == <<phase, holder>>

Phases == {"none", "open", "held", "completed", "closed"}

HeldBy(w) == {id \in Ids : phase[id] = "held" /\ holder[id] = w}

Init ==
    /\ phase = [id \in Ids |-> "none"]
    /\ holder = [id \in Ids |-> Nobody]

Open(id) ==
    /\ phase[id] = "none"
    /\ phase' = [phase EXCEPT ![id] = "open"]
    /\ UNCHANGED holder

Take(id, w) ==
    /\ phase[id] = "open"
    /\ Cardinality(HeldBy(w)) < Capacity
    /\ phase' = [phase EXCEPT ![id] = "held"]
    /\ holder' = [holder EXCEPT ![id] = w]

Complete(id) ==
    /\ phase[id] = "held"
    /\ phase' = [phase EXCEPT ![id] = "completed"]
    /\ UNCHANGED holder

\* Several tasks may be closed at once.
Close(ids) ==
    /\ \A id \in ids : phase[id] \in {"open", "held"}
    /\ phase' = [id \in Ids |-> IF id \in ids THEN "closed" ELSE phase[id]]
    /\ UNCHANGED holder

Next ==
    \/ \E id \in Ids : Open(id) \/ Complete(id) \/ \E w \in Workers : Take(id, w)
    \/ \E ids \in SUBSET Ids : Close(ids)

Spec == Init /\ [][Next]_lifecycleVars

=============================================================================
