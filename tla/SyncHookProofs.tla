---------------------------- MODULE SyncHookProofs ----------------------------
(***************************************************************************)
(* Proofs about the hook, for any pools, amounts and AVS answers.          *)
(***************************************************************************)
EXTENDS SyncHook, TLAPS

\* The constructor's state satisfies the invariant.
LEMMA InitLemma == Init => IInv
BY DEF Init, IInv, PoolsTyped, TrackedUntilSwap

\* A swap: either nothing but the report changes, or the pool leaves the
\* hypothesis of TrackedUntilSwap.
LEMMA SwapLemma ==
    ASSUME IInv, NEW p \in Pools, NEW s \in SwapInputs, NEW a \in AVSAnswers, swap(p, s, a)
    PROVE  IInv'
<1>0. /\ a.totalLiquidity \in Nat
      /\ s # NoParams
  BY HookAssumption
<1>1. CASE beforeSwapConservative(a)
  BY <1>0, <1>1 DEF IInv, PoolsTyped, TrackedUntilSwap, swap, afterSwap, Report,
     beforeSwapConservative
<1>2. CASE beforeSwapOptimised(p, s, a)
  BY <1>0, <1>2 DEF IInv, PoolsTyped, TrackedUntilSwap, swap, afterSwap, Report,
     beforeSwapOptimised
<1> QED BY <1>1, <1>2 DEF swap

\* Liquidity comes in.
LEMMA AddLemma ==
    ASSUME IInv, NEW p \in Pools, NEW n \in Amounts, addLiquidity(p, n)
    PROVE  IInv'
<1>0. n \in Nat
  BY HookAssumption
<1> QED
  BY <1>0 DEF IInv, PoolsTyped, TrackedUntilSwap, addLiquidity, Report

\* Liquidity goes out: MayRemove rules out the branch that sets zero.
LEMMA RemoveLemma ==
    ASSUME IInv, NEW p \in Pools, NEW n \in Amounts, removeLiquidity(p, n)
    PROVE  IInv'
<1>0. n \in Nat
  BY HookAssumption
<1>1. TrackedAfter(p, n) = currentPoolLiquidity[p] - n /\ TrackedAfter(p, n) \in Nat
  BY <1>0 DEF IInv, PoolsTyped, removeLiquidity, MayRemove, TrackedAfter
<1> QED
  BY <1>0, <1>1 DEF IInv, PoolsTyped, TrackedUntilSwap, removeLiquidity, Report

\* The owner's calls leave the pools alone.
LEMMA OwnerLemma ==
    ASSUME IInv, UNCHANGED <<poolVars>>
    PROVE  IInv'
BY DEF IInv, PoolsTyped, TrackedUntilSwap, poolVars

\* Every call preserves the invariant.
LEMMA NextLemma == IInv /\ [Next]_vars => IInv'
<1> SUFFICES ASSUME IInv, [Next]_vars PROVE IInv'
  OBVIOUS
<1>1. ASSUME NEW p \in Pools, NEW s \in SwapInputs, NEW a \in AVSAnswers, swap(p, s, a)
      PROVE  IInv'
  BY <1>1, SwapLemma
<1>2. ASSUME NEW p \in Pools, NEW n \in Amounts, addLiquidity(p, n) \/ removeLiquidity(p, n)
      PROVE  IInv'
  BY <1>2, AddLemma, RemoveLemma
<1>3. ASSUME NEW b \in BOOLEAN, setEmergency(b) \/ setPaused(b)
      PROVE  IInv'
  BY <1>3, OwnerLemma DEF setEmergency, setPaused
<1>4. ASSUME NEW c \in ChainInputs, addSupportedChain(c) \/ removeSupportedChain(c)
      PROVE  IInv'
  BY <1>4, OwnerLemma DEF addSupportedChain, removeSupportedChain
<1>5. CASE UNCHANGED vars
  BY <1>5, OwnerLemma DEF vars, poolVars
<1> QED
  BY <1>1, <1>2, <1>3, <1>4, <1>5 DEF Next

\* The invariant holds in every reachable state.
THEOREM Invariance == Spec => []IInv
BY InitLemma, NextLemma, PTL DEF Spec

\* Until the first optimised swap of a pool the tracked liquidity of
\* SyncHook is the liquidity in the pool.
THEOREM TrackedTheorem == Spec => []TrackedUntilSwap
<1>1. IInv => TrackedUntilSwap
  BY DEF IInv
<1> QED BY <1>1, Invariance, PTL

\* A change of a pool's liquidity moves the tracked number by as much: the
\* "set to zero" branch of _afterRemoveLiquidity is never taken.
THEOREM MoveTheorem == Spec => TrackedMovesWithPool
<1>1. IInv /\ [Next]_vars => [MoveStep]_vars
  <2> SUFFICES ASSUME IInv, Next, NEW p \in Pools, poolLiquidity'[p] # poolLiquidity[p]
               PROVE  currentPoolLiquidity'[p] - currentPoolLiquidity[p]
                          = poolLiquidity'[p] - poolLiquidity[p]
    BY DEF MoveStep
  <2>1. ASSUME NEW q \in Pools, NEW n \in Amounts, addLiquidity(q, n)
        PROVE  currentPoolLiquidity'[p] - currentPoolLiquidity[p]
                   = poolLiquidity'[p] - poolLiquidity[p]
    <3>1. n \in Nat
      BY HookAssumption
    <3>2. p = q
      BY <2>1 DEF addLiquidity, IInv, PoolsTyped
    <3> QED
      BY <2>1, <3>1, <3>2 DEF addLiquidity, IInv, PoolsTyped
  <2>2. ASSUME NEW q \in Pools, NEW n \in Amounts, removeLiquidity(q, n)
        PROVE  currentPoolLiquidity'[p] - currentPoolLiquidity[p]
                   = poolLiquidity'[p] - poolLiquidity[p]
    <3>1. n \in Nat
      BY HookAssumption
    <3>2. p = q
      BY <2>2 DEF removeLiquidity, IInv, PoolsTyped
    <3>3. TrackedAfter(q, n) = currentPoolLiquidity[q] - n
      BY <2>2, <3>1 DEF removeLiquidity, MayRemove, TrackedAfter, IInv, PoolsTyped
    <3> QED
      BY <2>2, <3>1, <3>2, <3>3 DEF removeLiquidity, IInv, PoolsTyped
  <2>3. ASSUME NEW q \in Pools, NEW s \in SwapInputs, NEW a \in AVSAnswers, swap(q, s, a)
        PROVE  FALSE
    BY <2>3 DEF swap
  <2>4. ASSUME NEW b \in BOOLEAN, setEmergency(b) \/ setPaused(b)
        PROVE  FALSE
    BY <2>4 DEF setEmergency, setPaused, poolVars
  <2>5. ASSUME NEW c \in ChainInputs, addSupportedChain(c) \/ removeSupportedChain(c)
        PROVE  FALSE
    BY <2>5 DEF addSupportedChain, removeSupportedChain, poolVars
  <2> QED
    BY <2>1, <2>2, <2>3, <2>4, <2>5 DEF Next
<1> QED BY <1>1, Invariance, PTL DEF Spec, TrackedMovesWithPool

=============================================================================
