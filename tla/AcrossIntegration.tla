-------------------------- MODULE AcrossIntegration --------------------------
(***************************************************************************)
(* The bridge contract, src/src/integration/AcrossIntegration.sol.  SyncAVS*)
(* asks for a token to be rebalanced; the contract picks a target chain    *)
(* and an amount, stores the request and executes it in the same           *)
(* transaction: the tokens move from the caller to the contract (the       *)
(* deposit into Across is a placeholder that emits an event).  The owner   *)
(* manages chains, tokens, limits and the two pause flags.                 *)
(*                                                                         *)
(* A call is one action.  Request ids are the hash of, among others,       *)
(* requestCounter, so a request is known by its place in the sequence      *)
(* requests.  Events, views and the spoke pool address are left out.       *)
(***************************************************************************)
EXTENDS Integers, SequencesExt, FiniteSetsExt

CONSTANTS
    Tokens,
    Home,               \* block.chainid
    Chains,             \* chain ids the owner adds, Home among them, also 0
    Amounts,            \* imbalance amounts that SyncAVS passes
    ConfigInputs,       \* settings the owner asks for, good or bad
    Funds,              \* of each token, with SyncAVS at the start
    MaxBlock            \* bound

ASSUME AcrossAssumption ==
    /\ Home \in Chains \ {0} /\ Chains \subseteq Nat
    /\ Amounts \subseteq Nat
    /\ ConfigInputs \subseteq [fee : Nat, max : Nat, min : Nat, cooldown : Nat]
    /\ Funds \in Nat /\ MaxBlock \in Nat

VARIABLES
    blockNumber,
    config,                 \* fee, max and min amount, cooldown
    rebalancingPaused,
    paused,
    requests,               \* rebalancingRequests, in the order of requestCounter
    supportedChains,        \* chain => bool
    supportedChainIds,      \* array
    supportedTokens,        \* token => bool
    lastRebalancingTime,    \* token => counter token => block
    avsFunds,               \* token => what SyncAVS has and has approved
    balance                 \* token => what the contract holds

vars == <<blockNumber, config, rebalancingPaused, paused, requests,
          supportedChains, supportedChainIds, supportedTokens,
          lastRebalancingTime, avsFunds, balance>>

requestVars == <<requests, lastRebalancingTime, avsFunds, balance>>
chainVars   == <<supportedChains, supportedChainIds>>
flagVars    == <<rebalancingPaused, paused>>

-----------------------------------------------------------------------------

\* The counter token and the imbalance that was reported are not stored by the
\* contract; they are kept here to state the cooldown and the amount.
Request == [targetChain : Nat, token : Tokens, counterToken : Tokens, imbalance : Nat,
            amount : Nat, timestamp : Nat, executed : BOOLEAN]

\* Mutant: the contract's own chain is not left out.
CandidatesHere == DOMAIN supportedChainIds

\* Where the array holds chains other than this one; all have the same
\* placeholder liquidity, so the first one wins.  Without any it is 0, which
\* the owner may have added as a chain.
Candidates == {i \in DOMAIN supportedChainIds :
                  supportedChainIds[i] # Home /\ supportedChains[supportedChainIds[i]]}
OptimalChain == IF Candidates = {} THEN 0 ELSE supportedChainIds[Min(Candidates)]

\* Half of the imbalance, brought within the limits.
TransferAmount(imbalance) ==
    Min({config.max, Max({config.min, imbalance \div 2})})

\* Mutant: the blocks are counted from the last request of the token alone.
CooledDownAny(token, counterToken) ==
    blockNumber >= lastRebalancingTime[token][token] + config.cooldown

CooledDown(token, counterToken) ==
    blockNumber >= lastRebalancingTime[token][counterToken] + config.cooldown

ValidConfig(c) == c.fee <= 1000 /\ c.max > c.min

\* Mutant: the amount is collected once more by the deposit.
CollectTwice(token, amount) ==
    /\ avsFunds[token] >= 2 * amount
    /\ avsFunds' = [avsFunds EXCEPT ![token] = @ - 2 * amount]
    /\ balance' = [balance EXCEPT ![token] = @ + 2 * amount]

\* safeTransferFrom(msg.sender, address(this), amount)
Collect(token, amount) ==
    /\ avsFunds[token] >= amount
    /\ avsFunds' = [avsFunds EXCEPT ![token] = @ - amount]
    /\ balance' = [balance EXCEPT ![token] = @ + amount]

-----------------------------------------------------------------------------

Init ==
    /\ blockNumber = 0
    /\ config \in {c \in ConfigInputs : c.fee <= 1000}
    /\ rebalancingPaused = FALSE /\ paused = FALSE
    /\ requests = <<>>
    /\ supportedChains = [c \in Chains |-> FALSE]
    /\ supportedChainIds = <<>>
    /\ supportedTokens = [t \in Tokens |-> FALSE]
    /\ lastRebalancingTime = [t \in Tokens |-> [u \in Tokens |-> 0]]
    /\ avsFunds = [t \in Tokens |-> Funds]
    /\ balance = [t \in Tokens |-> 0]

\* By SyncAVS.  _executeRebalancing is part of the call: the request is
\* stored, executed and marked, or everything reverts.
requestRebalancing(token, counterToken, imbalance) ==
    LET amount == TransferAmount(imbalance) IN
    /\ ~paused
    /\ imbalance >= config.min /\ imbalance <= config.max
    /\ supportedTokens[token] /\ supportedTokens[counterToken]
    /\ CooledDown(token, counterToken)
    /\ amount > 0
    /\ OptimalChain \in Chains /\ supportedChains[OptimalChain]
    /\ ~rebalancingPaused
    /\ Collect(token, amount)
    /\ requests' = Append(requests,
          [targetChain |-> OptimalChain, token |-> token,
           counterToken |-> counterToken, imbalance |-> imbalance, amount |-> amount,
           timestamp |-> blockNumber, executed |-> TRUE])
    /\ lastRebalancingTime' =
          [lastRebalancingTime EXCEPT ![token][counterToken] = blockNumber]
    /\ UNCHANGED <<blockNumber, config, flagVars, chainVars, supportedTokens>>

\* What executeRebalancing (by the owner) asks for besides the tokens.
MayExecute(i) ==
    requests[i].amount > 0 /\ ~requests[i].executed /\ ~rebalancingPaused

addSupportedChain(c) ==
    /\ ~supportedChains[c]
    /\ supportedChains' = [supportedChains EXCEPT ![c] = TRUE]
    /\ supportedChainIds' = Append(supportedChainIds, c)
    /\ UNCHANGED <<blockNumber, config, flagVars, requestVars, supportedTokens>>

\* Swap with the last entry and pop.
removeSupportedChain(c) ==
    /\ supportedChains[c]
    /\ supportedChains' = [supportedChains EXCEPT ![c] = FALSE]
    /\ supportedChainIds' = IF c \notin ToSet(supportedChainIds) THEN supportedChainIds
          ELSE LET i == Min({j \in DOMAIN supportedChainIds : supportedChainIds[j] = c})
               IN  Front([supportedChainIds EXCEPT ![i] = Last(supportedChainIds)])
    /\ UNCHANGED <<blockNumber, config, flagVars, requestVars, supportedTokens>>

\* addSupportedToken and removeSupportedToken.
setSupportedToken(t, b) ==
    /\ supportedTokens[t] # b
    /\ supportedTokens' = [supportedTokens EXCEPT ![t] = b]
    /\ UNCHANGED <<blockNumber, config, flagVars, requestVars, chainVars>>

updateAcrossConfig(c) ==
    /\ ValidConfig(c)
    /\ config' = c
    /\ UNCHANGED <<blockNumber, flagVars, requestVars, chainVars, supportedTokens>>

\* pauseRebalancing and resumeRebalancing.
setRebalancingPaused(b) ==
    /\ rebalancingPaused' = b
    /\ UNCHANGED <<blockNumber, config, paused, requestVars, chainVars, supportedTokens>>

\* pause and unpause.
setPaused(b) ==
    /\ paused # b
    /\ paused' = b
    /\ UNCHANGED <<blockNumber, config, rebalancingPaused, requestVars, chainVars,
                   supportedTokens>>

Mine ==
    /\ blockNumber < MaxBlock                                   \* bound
    /\ blockNumber' = blockNumber + 1
    /\ UNCHANGED <<config, flagVars, requestVars, chainVars, supportedTokens>>

Next ==
    \/ \E t, u \in Tokens, a \in Amounts : requestRebalancing(t, u, a)
    \/ \E c \in Chains : addSupportedChain(c) \/ removeSupportedChain(c)
    \/ \E t \in Tokens, b \in BOOLEAN : setSupportedToken(t, b)
    \/ \E c \in ConfigInputs : updateAcrossConfig(c)
    \/ \E b \in BOOLEAN : setRebalancingPaused(b) \/ setPaused(b)
    \/ Mine

Spec == Init /\ [][Next]_vars

-----------------------------------------------------------------------------
(* Properties *)

TypeOK ==
    /\ blockNumber \in Nat
    /\ config \in ConfigInputs
    /\ rebalancingPaused \in BOOLEAN /\ paused \in BOOLEAN
    /\ requests \in Seq(Request)
    /\ supportedChains \in [Chains -> BOOLEAN]
    /\ supportedChainIds \in Seq(Chains)
    /\ supportedTokens \in [Tokens -> BOOLEAN]
    /\ lastRebalancingTime \in [Tokens -> [Tokens -> Nat]]
    /\ avsFunds \in [Tokens -> Nat] /\ balance \in [Tokens -> Nat]

\* How much of token t the requests moved.
Moved(t) ==
    LET sum[n \in 0 .. Len(requests)] ==
            IF n = 0 THEN 0
            ELSE sum[n - 1] + (IF requests[n].token = t THEN requests[n].amount ELSE 0)
    IN  sum[Len(requests)]

\* Every stored request was executed in the call that stored it, so the
\* owner's executeRebalancing can never run one (again), and the contract
\* holds exactly the tokens of its requests: no request is paid twice or not
\* at all.
EachRequestPaidOnce ==
    /\ TypeOK
    /\ \A i \in DOMAIN requests : ~MayExecute(i)
    /\ \A t \in Tokens : balance[t] = Moved(t) /\ balance[t] + avsFunds[t] = Funds

\* A new request comes at least the cooldown in force after the last one for
\* the same pair of tokens in the same order, whatever happened to tokens and
\* settings in between.
CooldownStep ==
    Len(requests') > Len(requests) =>
        LET new == Last(requests') IN
        \A i \in DOMAIN requests :
            requests[i].token = new.token /\ requests[i].counterToken = new.counterToken
                => new.timestamp >= requests[i].timestamp + config.cooldown
CooldownHonoured == [][CooldownStep]_vars

\* A new request goes to another chain that is on the list of supported
\* chains, also when 0 was added as a chain and the search finds nothing; it
\* moves no more than the imbalance that SyncAVS reported for it, and more than
\* half of that only to reach the lower limit; and it stays within the limits
\* in force.
SaneStep ==
    Len(requests') > Len(requests) =>
        LET new == Last(requests') IN
        /\ new.targetChain \in ToSet(supportedChainIds) \ {Home}
        /\ new.amount \in config.min .. config.max
        /\ new.amount <= new.imbalance
        /\ 2 * new.amount <= new.imbalance \/ new.amount = config.min
RequestIsSane == [][SaneStep]_vars

=============================================================================
