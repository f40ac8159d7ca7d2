------------------------------- MODULE SyncHook -------------------------------
(***************************************************************************)
(* The Uniswap v4 hook, src/src/hooks/SyncHook.sol.  The pool manager runs *)
(* the before- and the after-callback of a swap or a liquidity change in   *)
(* one transaction, so an action is both callbacks and the change of the   *)
(* pool between them; a revert in either one, or in a contract they call,  *)
(* is no step.                                                             *)
(*                                                                         *)
(* The pool manager, the AVS (ISyncAVS) and the bridge (IAcrossIntegration)*)
(* are external: the first keeps poolLiquidity, the second answers         *)
(* getGlobalState with any of AVSAnswers and takes every report, the third *)
(* takes every request.  SyncAVS itself would take no report: it refuses   *)
(* the empty signature that the hook passes (SyncAVS.sol:232, :526), and   *)
(* with it every callback that reports reverts.                            *)
(*                                                                         *)
(* The price limits that _optimizeSwapParams works out are thrown away by  *)
(* the code; what is left of it is its division by the number of chains.   *)
(* Events are left out.                                                    *)
(***************************************************************************)
EXTENDS Integers, SequencesExt

CONSTANTS
    Pools,
    Amounts,            \* sizes of liquidity changes, zero among them
    SwapInputs,         \* parameters of swaps
    AVSAnswers,         \* [totalLiquidity, averagePrice]
    ChainInputs,        \* chains the owner adds or removes
    InitialChains,      \* what the constructor pushes
    NoParams,           \* the mapping originalParams, never written
    MaxLiquidity,       \* bound: liquidity of a pool
    MaxChains           \* bound: length of supportedChains

ASSUME HookAssumption ==
    /\ Amounts \subseteq Nat /\ NoParams \notin SwapInputs
    /\ AVSAnswers \subseteq [totalLiquidity : Nat, averagePrice : Nat]
    /\ InitialChains \in Seq(ChainInputs)
    /\ MaxLiquidity \in Nat /\ MaxChains \in Nat

VARIABLES
    poolLiquidity,          \* pool => liquidity, with the pool manager
    currentPoolLiquidity,   \* pool => liquidity, as the hook tracks it
    originalParams,         \* pool => parameters of the last optimised swap
    reported,               \* totalLiquidity of the last report to the AVS
    requested,              \* pool => amount of the last request to the bridge
    supportedChains,        \* array
    emergencyBreaker,
    paused

vars == <<poolLiquidity, currentPoolLiquidity, originalParams, reported,
          requested, supportedChains, emergencyBreaker, paused>>

poolVars == <<poolLiquidity, currentPoolLiquidity, originalParams, reported, requested>>

-----------------------------------------------------------------------------

BASIS_POINTS        == 10000
MAX_PRICE_DEVIATION == 5

\* _getPoolState returns a constant square root price, whose price is 1.
Price == 1

Running == ~paused /\ ~emergencyBreaker

calculatePriceDeviation(currentPrice, averagePrice) ==
    LET diff == IF currentPrice > averagePrice THEN currentPrice - averagePrice
                ELSE averagePrice - currentPrice
    IN  IF averagePrice = 0 THEN 0 ELSE (diff * BASIS_POINTS) \div averagePrice

\* _beforeSwap returns early, with "conservative parameters".
Conservative(answer) ==
    /\ answer.averagePrice > 0
    /\ calculatePriceDeviation(Price, answer.averagePrice) > MAX_PRICE_DEVIATION

\* submitStateUpdate(chainid, _calculatePoolState(...), ""): the AVS is told
\* the tracked liquidity of some pool of this chain; the call does not say of
\* which.
Report(p) == reported' = currentPoolLiquidity'[p]

shouldInitiateRebalancing(liquidity) == liquidity > 0 /\ Price > 0

-----------------------------------------------------------------------------

Init ==
    /\ poolLiquidity = [p \in Pools |-> 0]
    /\ currentPoolLiquidity = [p \in Pools |-> 0]
    /\ originalParams = [p \in Pools |-> NoParams]
    /\ reported = 0
    /\ requested = [p \in Pools |-> 0]
    /\ supportedChains = InitialChains
    /\ emergencyBreaker = FALSE
    /\ paused = FALSE

\* _beforeSwap: either the price is too far from the average ...
beforeSwapConservative(answer) ==
    /\ Conservative(answer)
    /\ UNCHANGED <<originalParams, currentPoolLiquidity>>

\* ... or the parameters are stored, and the tracked liquidity of the pool is
\* replaced by the liquidity that the AVS has for all chains.
beforeSwapOptimised(p, params, answer) ==
    /\ ~Conservative(answer)
    /\ Len(supportedChains) > 0         \* else a division by zero
    /\ originalParams' = [originalParams EXCEPT ![p] = params]
    /\ currentPoolLiquidity' = [currentPoolLiquidity EXCEPT ![p] = answer.totalLiquidity]

\* _afterSwap: the bridge is asked for the whole tracked liquidity.
afterSwap(p) ==
    /\ Report(p)
    /\ requested' = IF shouldInitiateRebalancing(currentPoolLiquidity'[p])
                    THEN [requested EXCEPT ![p] = currentPoolLiquidity'[p]]
                    ELSE requested

swap(p, params, answer) ==
    /\ Running
    /\ beforeSwapConservative(answer) \/ beforeSwapOptimised(p, params, answer)
    /\ afterSwap(p)
    /\ UNCHANGED <<poolLiquidity, supportedChains, emergencyBreaker, paused>>

\* _beforeAddLiquidity and _afterAddLiquidity.
addLiquidity(p, amount) ==
    /\ Running
    /\ amount > 0
    /\ poolLiquidity[p] + amount <= MaxLiquidity                \* bound
    /\ poolLiquidity' = [poolLiquidity EXCEPT ![p] = @ + amount]
    /\ currentPoolLiquidity' = [currentPoolLiquidity EXCEPT ![p] = @ + amount]
    /\ Report(p)
    /\ UNCHANGED <<originalParams, requested, supportedChains, emergencyBreaker, paused>>

\* Mutant: only the pool manager's own check.
MayRemoveAny(p, amount) == amount > 0

\* _beforeRemoveLiquidity
MayRemove(p, amount) == amount > 0 /\ currentPoolLiquidity[p] >= amount

\* Mutant: both callbacks subtract.
TrackedAfterTwice(p, amount) == currentPoolLiquidity[p] - 2 * amount

\* _afterRemoveLiquidity
TrackedAfter(p, amount) ==
    IF currentPoolLiquidity[p] >= amount THEN currentPoolLiquidity[p] - amount ELSE 0

removeLiquidity(p, amount) ==
    /\ Running
    /\ MayRemove(p, amount)
    /\ poolLiquidity[p] >= amount                               \* pool manager
    /\ poolLiquidity' = [poolLiquidity EXCEPT ![p] = @ - amount]
    /\ currentPoolLiquidity' = [currentPoolLiquidity EXCEPT ![p] = TrackedAfter(p, amount)]
    /\ Report(p)
    /\ UNCHANGED <<originalParams, requested, supportedChains, emergencyBreaker, paused>>

\* triggerEmergency and clearEmergency.
setEmergency(b) ==
    /\ emergencyBreaker' = b
    /\ UNCHANGED <<poolVars, supportedChains, paused>>

\* pause and unpause.
setPaused(b) ==
    /\ paused # b
    /\ paused' = b
    /\ UNCHANGED <<poolVars, supportedChains, emergencyBreaker>>

\* A chain may be added twice.
addSupportedChain(c) ==
    /\ Len(supportedChains) < MaxChains                         \* bound
    /\ supportedChains' = Append(supportedChains, c)
    /\ UNCHANGED <<poolVars, emergencyBreaker, paused>>

\* The first entry that holds c is overwritten by the last, which is popped.
removeSupportedChain(c) ==
    /\ LET i == SelectInSeq(supportedChains, LAMBDA d : d = c)
       IN  supportedChains' = IF i = 0 THEN supportedChains
              ELSE Front([supportedChains EXCEPT ![i] = Last(supportedChains)])
    /\ UNCHANGED <<poolVars, emergencyBreaker, paused>>

Next ==
    \/ \E p \in Pools :
          \/ \E s \in SwapInputs, a \in AVSAnswers : swap(p, s, a)
          \/ \E n \in Amounts : addLiquidity(p, n) \/ removeLiquidity(p, n)
    \/ \E b \in BOOLEAN : setEmergency(b) \/ setPaused(b)
    \/ \E c \in ChainInputs : addSupportedChain(c) \/ removeSupportedChain(c)

Spec == Init /\ [][Next]_vars

-----------------------------------------------------------------------------
(* Properties *)

PoolsTyped ==
    /\ poolLiquidity \in [Pools -> Nat]
    /\ currentPoolLiquidity \in [Pools -> Nat]
    /\ originalParams \in [Pools -> SwapInputs \cup {NoParams}]
    /\ reported \in Nat

\* Until the first optimised swap of a pool (the one that stores its
\* parameters) the tracked liquidity is the liquidity of the pool, through any
\* additions, removals, conservative swaps, pauses and emergencies.
TrackedUntilSwap ==
    \A p \in Pools :
        originalParams[p] = NoParams => currentPoolLiquidity[p] = poolLiquidity[p]

\* What the proofs need.
IInv == PoolsTyped /\ TrackedUntilSwap

\* Liquidity that comes or goes moves the tracked number by as much: the check
\* of _beforeRemoveLiquidity keeps the "set to zero" branch of
\* _afterRemoveLiquidity from ever being taken.
MoveStep ==
    \A p \in Pools :
        poolLiquidity'[p] # poolLiquidity[p] =>
            currentPoolLiquidity'[p] - currentPoolLiquidity[p]
                = poolLiquidity'[p] - poolLiquidity[p]
TrackedMovesWithPool == [][MoveStep]_vars

\* Line 82: "Mapping of pool ID to current pool liquidity".  What the hook
\* tracks, and checks every removal against, is what is in the pool.
TrackedIsPool ==
    \A p \in Pools : currentPoolLiquidity[p] = poolLiquidity[p]

=============================================================================
