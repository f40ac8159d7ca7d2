-------------------------- MODULE MCSyncTaskManager --------------------------
(***************************************************************************)
(* The task manager for TLC.                                               *)
(***************************************************************************)
EXTENDS SyncTaskManager, SequencesExt

\* A fee that callers pay, and one that is too high for them.
TwoConfigs == {[fee |-> f, reward |-> 1, penalty |-> 1] : f \in {1, 2}}

\* All the arrays of up to two ids, those that repeat one among them.
ShortArrays == SeqOf(TaskIds, 2)

=============================================================================
