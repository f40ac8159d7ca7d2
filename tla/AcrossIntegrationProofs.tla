----------------------- MODULE AcrossIntegrationProofs -----------------------
(***************************************************************************)
(* Proofs about the bridge contract, for any tokens, chains, settings,     *)
(* imbalances and funds.                                                   *)
(***************************************************************************)
EXTENDS AcrossIntegration, SequenceTheorems, NaturalsInduction, WellFoundedInduction, TLAPS

\* f[n] is how much of token t the first n requests of rs moved.
IsSum(f, rs, t) ==
    f = [n \in 0 .. Len(rs) |->
            IF n = 0 THEN 0
            ELSE f[n - 1] + (IF rs[n].token = t THEN rs[n].amount ELSE 0)]

\* Every request was executed when it was stored.
AllExecuted == \A i \in DOMAIN requests : requests[i].executed

\* The contract holds what the requests moved, SyncAVS the rest.
TokensKept ==
    \A t \in Tokens :
        /\ \E f : IsSum(f, requests, t) /\ f[Len(requests)] = balance[t]
        /\ balance[t] + avsFunds[t] = Funds

\* lastRebalancingTime is the block of the youngest request of a pair.
StampsKept ==
    /\ \A t, u \in Tokens : lastRebalancingTime[t][u] <= blockNumber
    /\ \A i \in DOMAIN requests :
          requests[i].timestamp <= lastRebalancingTime[requests[i].token][requests[i].counterToken]

\* A supported chain is an entry of the array.
ChainsListed ==
    \A c \in Chains : supportedChains[c] => c \in ToSet(supportedChainIds)

IInv == TypeOK /\ AllExecuted /\ TokensKept /\ StampsKept /\ ChainsListed

\* A nonempty set of natural numbers has a least one.
LEMMA LeastNumber ==
    ASSUME NEW B \in SUBSET Nat, B # {}
    PROVE  \E k \in B : \A m \in B : k <= m
<1> DEFINE R == OpToRel(<, Nat)
<1>1. \A x, y \in Nat : y < x => <<y, x>> \in R
  BY DEF OpToRel
<1>2. IsWellFoundedOn(R, Nat)
  BY NatLessThanWellFounded
<1> HIDE DEF R
<1>3. PICK x \in B : \A y \in B : ~ (<<y, x>> \in R)
  BY <1>2, WFMin
<1>4. \A y \in B : ~(y < x)
  BY <1>1, <1>3
<1> QED BY <1>4

\* The partial sums are unique, so Moved is the last of them.
LEMMA SumLemma ==
    ASSUME NEW t, requests \in Seq(Request), NEW f, IsSum(f, requests, t)
    PROVE  Moved(t) = f[Len(requests)]
<1>1. PICK n \in Nat : n = Len(requests)
  BY LenProperties
<1>2. ASSUME NEW g, IsSum(g, requests, t) PROVE g[n] = f[n]
  <2> DEFINE B == {i \in Nat : i <= n /\ f[i] # g[i]}
  <2>1. SUFFICES ASSUME B # {} PROVE FALSE
    BY <2>1
  <2>2. PICK k \in B : \A m \in B : k <= m
    <3>1. B \in SUBSET Nat
      OBVIOUS
    <3> HIDE DEF B
    <3> QED BY <2>1, <3>1, LeastNumber
  <2>3. k \in 0 .. n
    BY <2>2
  <2>4. k # 0
    BY <1>1, <1>2, <2>2, <2>3 DEF IsSum
  <2>5. PICK j \in Nat : j = k - 1 /\ j <= n /\ j < k
    BY <2>3, <2>4
  <2>6. f[j] = g[j]
    BY <2>2, <2>5
  <2>7. PICK d : d = IF requests[k].token = t THEN requests[k].amount ELSE 0
    OBVIOUS
  <2>8. f[k] = f[j] + d
    BY <1>1, <2>3, <2>4, <2>5, <2>7 DEF IsSum
  <2>9. g[k] = g[j] + d
    BY <1>1, <1>2, <2>3, <2>4, <2>5, <2>7 DEF IsSum
  <2> QED BY <2>2, <2>6, <2>8, <2>9
<1>3. PICK g : g = (CHOOSE h : IsSum(h, requests, t)) /\ IsSum(g, requests, t)
  OBVIOUS
<1>4. Moved(t) = g[n]
  BY <1>1, <1>3 DEF Moved, IsSum
<1> QED BY <1>1, <1>2, <1>3, <1>4

\* One more request adds its amount.
LEMMA SumAppend ==
    ASSUME NEW S, NEW rs \in Seq(S), NEW r \in S, NEW t, NEW f, IsSum(f, rs, t)
    PROVE  \E g : /\ IsSum(g, Append(rs, r), t)
                  /\ g[Len(rs) + 1] = f[Len(rs)] + (IF r.token = t THEN r.amount ELSE 0)
<1>1. PICK n \in Nat : n = Len(rs)
  BY LenProperties
<1>2. PICK d : d = IF r.token = t THEN r.amount ELSE 0
  OBVIOUS
<1>3. PICK new : new = Append(rs, r)
  OBVIOUS
<1>4. /\ Len(new) = n + 1 /\ new[n + 1] = r
      /\ \A i \in 1 .. n : new[i] = rs[i]
  BY <1>1, <1>3, AppendProperties
<1>5. PICK g : g = [i \in 0 .. n + 1 |-> IF i = n + 1 THEN f[n] + d ELSE f[i]]
  OBVIOUS
<1>6. ASSUME NEW i \in 0 .. n + 1
      PROVE  g[i] = IF i = 0 THEN 0
                    ELSE g[i - 1] + (IF new[i].token = t THEN new[i].amount ELSE 0)
  <2>1. CASE i = 0
    BY <1>1, <1>5, <2>1 DEF IsSum
  <2>2. CASE i = n + 1
    <3>1. g[i] = f[n] + d /\ g[i - 1] = f[n]
      BY <1>5, <2>2
    <3> QED BY <1>2, <1>4, <2>2, <3>1
  <2>3. CASE i \in 1 .. n
    <3>1. g[i] = f[i] /\ g[i - 1] = f[i - 1]
      BY <1>5, <2>3
    <3>2. f[i] = f[i - 1] + (IF rs[i].token = t THEN rs[i].amount ELSE 0)
      BY <1>1, <2>3 DEF IsSum
    <3> QED BY <1>4, <2>3, <3>1, <3>2
  <2> QED BY <2>1, <2>2, <2>3
<1>7. IsSum(g, new, t)
  <2>1. g = [i \in 0 .. n + 1 |-> g[i]]
    BY <1>5
  <2> QED BY <1>4, <1>6, <2>1 DEF IsSum
<1>8. g[n + 1] = f[n] + d
  BY <1>5
<1> QED BY <1>1, <1>2, <1>3, <1>7, <1>8

\* The amount of a request: within the limits, not above the imbalance, and
\* above half of it only at the lower limit.
LEMMA AmountLemma ==
    ASSUME config \in ConfigInputs, NEW a \in Amounts,
           a >= config.min, a <= config.max
    PROVE  /\ TransferAmount(a) \in Nat
           /\ TransferAmount(a) \in config.min .. config.max
           /\ TransferAmount(a) <= a
           /\ 2 * TransferAmount(a) <= a \/ TransferAmount(a) = config.min
<1>1. PICK lo \in Nat, hi \in Nat : lo = config.min /\ hi = config.max
  BY AcrossAssumption
<1>2. a \in Nat
  BY AcrossAssumption
<1>3. PICK h \in Nat : h = a \div 2 /\ 2 * h <= a
  BY <1>2
<1>4. PICK m \in Nat : m = Max({lo, h}) /\ lo <= m /\ (m = lo \/ m = h)
  BY DEF Max
<1>5. PICK x \in Nat : x = Min({hi, m}) /\ x <= hi /\ x <= m /\ (x = hi \/ x = m)
  BY DEF Min
<1>6. TransferAmount(a) = x
  BY <1>1, <1>3, <1>4, <1>5 DEF TransferAmount
<1> QED BY <1>1, <1>2, <1>3, <1>4, <1>5, <1>6

\* The target of a request is another chain of the array: if the search found
\* none and 0 is supported, 0 is an entry that the search would have found.
LEMMA TargetLemma ==
    ASSUME TypeOK, ChainsListed, OptimalChain \in Chains, supportedChains[OptimalChain]
    PROVE  OptimalChain \in ToSet(supportedChainIds) \ {Home}
<1>1. PICK C : C = Candidates
  OBVIOUS
<1>2. C # {} /\ OptimalChain = supportedChainIds[Min(C)]
  <2>1. C # {}
    <3> SUFFICES ASSUME C = {} PROVE FALSE
      OBVIOUS
    <3>1. OptimalChain = 0
      BY <1>1 DEF OptimalChain
    <3>2. 0 \in ToSet(supportedChainIds) /\ supportedChains[0]
      BY <3>1 DEF ChainsListed
    <3>3. PICK i \in DOMAIN supportedChainIds : supportedChainIds[i] = 0
      BY <3>2 DEF ToSet
    <3>4. i \in C
      BY <1>1, <3>2, <3>3, AcrossAssumption DEF Candidates
    <3> QED BY <3>4
  <2> QED BY <1>1, <2>1, Zenon DEF OptimalChain
<1>3. supportedChainIds \in Seq(Chains)
  BY DEF TypeOK
<1>4. C \in SUBSET Nat
  BY <1>1, <1>3, LenProperties DEF Candidates
<1>5. \E k \in C : \A m \in C : k <= m
  BY <1>2, <1>4, LeastNumber
<1>6. Min(C) \in C
  BY <1>5 DEF Min
<1>7. PICK k : k = Min(C) /\ k \in DOMAIN supportedChainIds /\ supportedChainIds[k] # Home
  BY <1>1, <1>6 DEF Candidates
<1> QED BY <1>2, <1>7 DEF ToSet

LEMMA InitLemma == ASSUME Init PROVE IInv
<1>1. TypeOK
  <2>1. /\ blockNumber \in Nat /\ config \in ConfigInputs
        /\ rebalancingPaused \in BOOLEAN /\ paused \in BOOLEAN
    BY DEF Init
  <2>2. requests \in Seq(Request) /\ supportedChainIds \in Seq(Chains)
    BY DEF Init
  <2>3. supportedChains \in [Chains -> BOOLEAN] /\ supportedTokens \in [Tokens -> BOOLEAN]
    BY DEF Init
  <2>4. lastRebalancingTime \in [Tokens -> [Tokens -> Nat]]
    BY DEF Init
  <2>5. avsFunds \in [Tokens -> Nat] /\ balance \in [Tokens -> Nat]
    BY AcrossAssumption DEF Init
  <2> QED BY <2>1, <2>2, <2>3, <2>4, <2>5 DEF TypeOK
<1>2. requests = << >> /\ Len(requests) = 0 /\ DOMAIN requests = {}
  BY DEF Init
<1>3. AllExecuted /\ StampsKept
  BY <1>2 DEF AllExecuted, StampsKept, Init
<1>5. ChainsListed
  BY DEF ChainsListed, Init
<1>4. ASSUME NEW t \in Tokens
      PROVE  /\ \E f : IsSum(f, requests, t) /\ f[Len(requests)] = balance[t]
             /\ balance[t] + avsFunds[t] = Funds
  <2>1. PICK f : f = [n \in 0 .. 0 |-> 0]
    OBVIOUS
  <2>2. f = [n \in 0 .. 0 |-> IF n = 0 THEN 0
               ELSE f[n - 1] + (IF requests[n].token = t THEN requests[n].amount ELSE 0)]
    BY <2>1
  <2>3. IsSum(f, requests, t) /\ f[Len(requests)] = 0
    BY <1>2, <2>1, <2>2 DEF IsSum
  <2>4. balance[t] = 0 /\ avsFunds[t] = Funds /\ Funds \in Nat
    BY AcrossAssumption DEF Init
  <2> QED BY <2>3, <2>4
<1> QED BY <1>1, <1>3, <1>4, <1>5 DEF IInv, TokensKept

\* A stored request is executed, paid and stamped.
LEMMA RequestStep ==
    ASSUME IInv, NEW t \in Tokens, NEW u \in Tokens, NEW a \in Amounts,
           requestRebalancing(t, u, a)
    PROVE  IInv'
<1>1. TypeOK /\ AllExecuted /\ TokensKept /\ StampsKept /\ ChainsListed
  BY DEF IInv
<1>2. PICK x \in Nat : x = TransferAmount(a)
  BY <1>1, AmountLemma DEF requestRebalancing, TypeOK
<1>3. PICK c \in Nat : c = OptimalChain
  <2>1. OptimalChain \in ToSet(supportedChainIds)
    BY <1>1, TargetLemma DEF requestRebalancing
  <2>2. ToSet(supportedChainIds) \subseteq Nat
    <3>1. supportedChainIds \in Seq(Chains) /\ Chains \subseteq Nat
      BY <1>1, AcrossAssumption DEF TypeOK
    <3>2. \A i \in DOMAIN supportedChainIds : supportedChainIds[i] \in Chains
      BY <3>1, ElementOfSeq, LenProperties
    <3> QED BY <3>1, <3>2 DEF ToSet
  <2> QED BY <2>1, <2>2
<1>4. PICK r : r = [targetChain |-> c, token |-> t, counterToken |-> u, imbalance |-> a,
                    amount |-> x, timestamp |-> blockNumber, executed |-> TRUE]
  OBVIOUS
<1>5. r \in Request /\ r.token = t /\ r.counterToken = u /\ r.amount = x
      /\ r.timestamp = blockNumber /\ r.executed = TRUE
  BY <1>1, <1>4, AcrossAssumption DEF Request, TypeOK
<1>6. /\ requests' = Append(requests, r)
      /\ lastRebalancingTime' = [lastRebalancingTime EXCEPT ![t][u] = blockNumber]
      /\ avsFunds[t] >= x
      /\ avsFunds' = [avsFunds EXCEPT ![t] = @ - x]
      /\ balance' = [balance EXCEPT ![t] = @ + x]
      /\ UNCHANGED <<blockNumber, config, rebalancingPaused, paused, supportedChains,
                     supportedChainIds, supportedTokens>>
  BY <1>2, <1>3, <1>4 DEF requestRebalancing, Collect, flagVars, chainVars
<1>7. PICK n \in Nat : n = Len(requests) /\ DOMAIN requests = 1 .. n
  BY <1>1, LenProperties DEF TypeOK
<1>8. /\ requests' \in Seq(Request) /\ Len(requests') = n + 1 /\ DOMAIN requests' = 1 .. n + 1
      /\ requests'[n + 1] = r /\ \A i \in 1 .. n : requests'[i] = requests[i]
  BY <1>1, <1>5, <1>6, <1>7, AppendProperties, LenProperties DEF TypeOK
<1>9. /\ lastRebalancingTime' \in [Tokens -> [Tokens -> Nat]]
      /\ lastRebalancingTime'[t][u] = blockNumber
      /\ \A v, w \in Tokens : ~(v = t /\ w = u) => lastRebalancingTime'[v][w] = lastRebalancingTime[v][w]
  BY <1>1, <1>6 DEF TypeOK
<1>10. /\ avsFunds' \in [Tokens -> Nat] /\ balance' \in [Tokens -> Nat]
       /\ balance'[t] = balance[t] + x /\ avsFunds'[t] = avsFunds[t] - x
       /\ \A v \in Tokens : v # t => balance'[v] = balance[v] /\ avsFunds'[v] = avsFunds[v]
  <2>1. avsFunds \in [Tokens -> Nat] /\ balance \in [Tokens -> Nat]
    BY <1>1 DEF TypeOK
  <2>2. avsFunds[t] - x \in Nat /\ balance[t] + x \in Nat
    BY <1>6, <2>1
  <2> QED BY <1>6, <2>1, <2>2
<1>11. TypeOK'
  BY <1>1, <1>6, <1>8, <1>9, <1>10 DEF TypeOK
<1>12. AllExecuted'
  <2>1. ASSUME NEW i \in 1 .. n + 1 PROVE requests'[i].executed
    <3>1. CASE i = n + 1
      BY <1>5, <1>8, <3>1
    <3>2. CASE i \in 1 .. n
      BY <1>1, <1>7, <1>8, <3>2 DEF AllExecuted
    <3> QED BY <3>1, <3>2
  <2> QED BY <1>8, <2>1 DEF AllExecuted
<1>13. TokensKept'
  <2>1. ASSUME NEW v \in Tokens
        PROVE  \E g : IsSum(g, requests', v) /\ g[Len(requests')] = balance'[v]
    <3>1. PICK f : IsSum(f, requests, v) /\ f[n] = balance[v]
      BY <1>1, <1>7 DEF TokensKept
    <3>2. PICK rs : rs = requests /\ rs \in Seq(Request)
      BY <1>1 DEF TypeOK
    <3>3. PICK g : /\ IsSum(g, Append(rs, r), v)
                   /\ g[n + 1] = f[n] + (IF r.token = v THEN r.amount ELSE 0)
      BY <1>5, <1>7, <3>1, <3>2, SumAppend
    <3>4. balance[v] \in Nat
      BY <1>1 DEF TypeOK
    <3>5. g[n + 1] = balance'[v]
      BY <1>5, <1>10, <3>1, <3>3, <3>4
    <3>6. IsSum(g, requests', v)
      BY <1>6, <3>2, <3>3
    <3> QED BY <1>8, <3>5, <3>6
  <2>2. ASSUME NEW v \in Tokens PROVE balance'[v] + avsFunds'[v] = Funds
    <3>1. balance[v] + avsFunds[v] = Funds /\ balance[v] \in Nat /\ avsFunds[v] \in Nat
      BY <1>1 DEF TokensKept, TypeOK
    <3> QED BY <1>10, <3>1
  <2> QED BY <2>1, <2>2 DEF TokensKept
<1>14. StampsKept'
  <2>1. blockNumber \in Nat /\ lastRebalancingTime \in [Tokens -> [Tokens -> Nat]]
    BY <1>1 DEF TypeOK
  <2>2. \A v, w \in Tokens : lastRebalancingTime'[v][w] <= blockNumber
    BY <1>1, <1>9, <2>1 DEF StampsKept
  <2>3. ASSUME NEW i \in 1 .. n + 1
        PROVE  requests'[i].timestamp
                   <= lastRebalancingTime'[requests'[i].token][requests'[i].counterToken]
    <3>1. CASE i = n + 1
      BY <1>5, <1>8, <1>9, <2>1, <3>1
    <3>2. CASE i \in 1 .. n
      <4>1. PICK q \in Request : q = requests[i] /\ q = requests'[i]
        BY <1>1, <1>7, <1>8, <3>2, ElementOfSeq DEF TypeOK
      <4>2. q.token \in Tokens /\ q.counterToken \in Tokens /\ q.timestamp \in Nat
        BY DEF Request
      <4>3. q.timestamp <= lastRebalancingTime[q.token][q.counterToken]
        BY <1>1, <1>7, <3>2, <4>1 DEF StampsKept
      <4>4. lastRebalancingTime[q.token][q.counterToken] <= blockNumber
        BY <1>1, <4>2 DEF StampsKept
      <4>5. CASE q.token = t /\ q.counterToken = u
        BY <1>9, <2>1, <4>1, <4>2, <4>3, <4>4, <4>5
      <4>6. CASE ~(q.token = t /\ q.counterToken = u)
        BY <1>9, <4>1, <4>2, <4>3, <4>6
      <4> QED BY <4>5, <4>6
    <3> QED BY <3>1, <3>2
  <2> QED BY <1>6, <1>8, <2>2, <2>3 DEF StampsKept
<1>15. ChainsListed'
  BY <1>1, <1>6 DEF ChainsListed
<1> QED BY <1>11, <1>12, <1>13, <1>14, <1>15 DEF IInv

\* A step that leaves requests and tokens alone.
LEMMA OtherStep ==
    ASSUME IInv, UNCHANGED requestVars, blockNumber' \in Nat, blockNumber <= blockNumber',
           config' \in ConfigInputs, rebalancingPaused' \in BOOLEAN, paused' \in BOOLEAN,
           supportedChains' \in [Chains -> BOOLEAN], supportedChainIds' \in Seq(Chains),
           supportedTokens' \in [Tokens -> BOOLEAN], ChainsListed'
    PROVE  IInv'
<1>1. TypeOK /\ AllExecuted /\ TokensKept /\ StampsKept /\ ChainsListed
  BY DEF IInv
<1>2. requests' = requests /\ lastRebalancingTime' = lastRebalancingTime
      /\ avsFunds' = avsFunds /\ balance' = balance
  BY DEF requestVars
<1>3. TypeOK'
  BY <1>1, <1>2 DEF TypeOK
<1>4. AllExecuted' /\ TokensKept'
  BY <1>1, <1>2 DEF AllExecuted, TokensKept
<1>5. StampsKept'
  <2>1. ASSUME NEW v \in Tokens, NEW w \in Tokens PROVE lastRebalancingTime[v][w] <= blockNumber'
    <3>1. lastRebalancingTime[v][w] \in Nat /\ blockNumber \in Nat
      BY <1>1 DEF TypeOK
    <3>2. lastRebalancingTime[v][w] <= blockNumber
      BY <1>1 DEF StampsKept
    <3> QED BY <3>1, <3>2
  <2> QED BY <1>1, <1>2, <2>1 DEF StampsKept
<1> QED BY <1>3, <1>4, <1>5 DEF IInv

\* The swap with the last entry and the pop of removeSupportedChain keep an
\* array of chains, and drop no other chain from it.
LEMMA PopLemma ==
    ASSUME TypeOK, NEW c \in Chains, removeSupportedChain(c)
    PROVE  /\ supportedChainIds' \in Seq(Chains)
           /\ \A d \in ToSet(supportedChainIds) : d # c => d \in ToSet(supportedChainIds')
<1>1. PICK ids \in Seq(Chains) : ids = supportedChainIds
  BY DEF TypeOK
<1>2. CASE c \notin ToSet(ids)
  BY <1>1, <1>2 DEF removeSupportedChain
<1>3. CASE c \in ToSet(ids)
  <2>1. PICK n \in Nat : n = Len(ids) /\ DOMAIN ids = 1 .. n /\ ids \in [1 .. n -> Chains]
    BY LenProperties, ElementOfSeq
  <2>2. n # 0 /\ ids[n] \in Chains
    BY <1>3, <2>1 DEF ToSet
  <2>3. PICK i : /\ i = Min({j \in DOMAIN ids : ids[j] = c})
                 /\ i \in 1 .. n /\ ids[i] = c
    <3> DEFINE A == {j \in DOMAIN ids : ids[j] = c}
    <3>4. A \in SUBSET Nat
      BY <2>1
    <3>5. \E j \in DOMAIN ids : ids[j] = c
      BY <1>3 DEF ToSet
    <3>1. PICK B : B = A /\ B \in SUBSET Nat /\ B # {}
      BY <3>4, <3>5
    <3>2. \E k \in B : \A m \in B : k <= m
      BY <3>1, LeastNumber
    <3>3. Min(B) \in B
      BY <3>2 DEF Min
    <3> QED BY <2>1, <3>1, <3>3
  <2>4. PICK new : new = [ids EXCEPT ![i] = ids[n]]
    OBVIOUS
  <2>5. new \in [1 .. n -> Chains]
    BY <2>1, <2>2, <2>4
  <2>6. new \in Seq(Chains) /\ Len(new) = n
    BY <2>1, <2>5
  <2>7. SubSeq(new, 1, n - 1) \in Seq(Chains)
    BY <2>1, <2>2, <2>6, SubSeqProperties
  <2>8. supportedChainIds' = SubSeq(new, 1, n - 1)
    BY <1>1, <1>3, <2>1, <2>3, <2>4, <2>6 DEF removeSupportedChain, Front, Last
  <2>9. ASSUME NEW d \in ToSet(ids), d # c PROVE d \in ToSet(supportedChainIds')
    <3>1. PICK j \in 1 .. n : ids[j] = d /\ j # i
      BY <2>1, <2>3, <2>9 DEF ToSet
    <3>2. PICK k \in 1 .. n - 1 : new[k] = d
      <4>1. CASE j = n
        <5>1. i \in 1 .. n - 1 /\ new[i] = d
          BY <2>1, <2>2, <2>3, <2>4, <3>1, <4>1
        <5> QED BY <5>1
      <4>2. CASE j # n
        <5>1. j \in 1 .. n - 1
          <6>1. n \in Nat /\ j \in 1 .. n
            BY <2>1, <3>1
          <6> QED BY <4>2, <6>1
        <5>2. new[j] = ids[j]
          BY <2>1, <2>4, <3>1
        <5> QED BY <3>1, <5>1, <5>2
      <4> QED BY <4>1, <4>2
    <3>3. PICK pop : pop = SubSeq(new, 1, n - 1)
      OBVIOUS
    <3>4. Len(pop) = n - 1 /\ k \in DOMAIN pop /\ pop[k] = d
      BY <2>1, <2>2, <2>6, <3>2, <3>3, SubSeqProperties
    <3> QED BY <2>8, <3>3, <3>4 DEF ToSet
  <2> QED BY <1>1, <2>7, <2>8, <2>9
<1> QED BY <1>2, <1>3

LEMMA NextLemma ==
    ASSUME IInv, [Next]_vars
    PROVE  IInv'
<1>1. TypeOK /\ ChainsListed
  BY DEF IInv
<1>2. ASSUME NEW t \in Tokens, NEW u \in Tokens, NEW a \in Amounts, requestRebalancing(t, u, a)
      PROVE  IInv'
  BY <1>2, RequestStep
<1>11. chainVars' = chainVars => ChainsListed'
  BY <1>1 DEF ChainsListed, chainVars
<1> USE DEF TypeOK, flagVars, chainVars
<1>3. ASSUME NEW c \in Chains, addSupportedChain(c) PROVE IInv'
  <2>1. supportedChainIds' \in Seq(Chains)
    BY <1>1, <1>3, AppendProperties DEF addSupportedChain
  <2>2. ChainsListed'
    <3>1. PICK ids \in Seq(Chains) : ids = supportedChainIds
      BY <1>1
    <3>2. supportedChainIds' = Append(ids, c)
      BY <1>3, <3>1 DEF addSupportedChain
    <3>3. PICK n \in Nat : n = Len(ids) /\ DOMAIN ids = 1 .. n
      BY LenProperties
    <3>4. /\ DOMAIN supportedChainIds' = 1 .. n + 1 /\ supportedChainIds'[n + 1] = c
          /\ \A i \in 1 .. n : supportedChainIds'[i] = ids[i]
      BY <2>1, <3>2, <3>3, AppendProperties, LenProperties
    <3>5. c \in ToSet(supportedChainIds')
      BY <3>4 DEF ToSet
    <3>6. \A d \in ToSet(ids) : d \in ToSet(supportedChainIds')
      BY <3>3, <3>4 DEF ToSet
    <3>7. \A d \in Chains : supportedChains'[d] => d = c \/ supportedChains[d]
      BY <1>1, <1>3 DEF addSupportedChain
    <3> QED BY <1>1, <3>1, <3>5, <3>6, <3>7 DEF ChainsListed
  <2> QED BY <1>1, <1>3, <2>1, <2>2, OtherStep DEF addSupportedChain
<1>4. ASSUME NEW c \in Chains, removeSupportedChain(c) PROVE IInv'
  <2>1. /\ supportedChainIds' \in Seq(Chains)
        /\ \A d \in ToSet(supportedChainIds) : d # c => d \in ToSet(supportedChainIds')
    BY <1>1, <1>4, PopLemma
  <2>2. supportedChains' = [supportedChains EXCEPT ![c] = FALSE]
        /\ UNCHANGED <<blockNumber, config, rebalancingPaused, paused, supportedTokens>>
        /\ UNCHANGED requestVars
    BY <1>4 DEF removeSupportedChain
  <2>3. \A d \in Chains : supportedChains'[d] => d # c /\ supportedChains[d]
    BY <1>1, <2>2
  <2>4. ChainsListed'
    BY <1>1, <2>1, <2>3 DEF ChainsListed
  <2> QED BY <1>1, <2>1, <2>2, <2>4, OtherStep
<1>5. ASSUME NEW t \in Tokens, NEW b \in BOOLEAN, setSupportedToken(t, b) PROVE IInv'
  BY <1>1, <1>5, <1>11, OtherStep DEF setSupportedToken
<1>6. ASSUME NEW c \in ConfigInputs, updateAcrossConfig(c) PROVE IInv'
  BY <1>1, <1>6, <1>11, OtherStep DEF updateAcrossConfig
<1>7. ASSUME NEW b \in BOOLEAN, setRebalancingPaused(b) PROVE IInv'
  BY <1>1, <1>7, <1>11, OtherStep DEF setRebalancingPaused
<1>8. ASSUME NEW b \in BOOLEAN, setPaused(b) PROVE IInv'
  BY <1>1, <1>8, <1>11, OtherStep DEF setPaused
<1>9. CASE Mine
  BY <1>1, <1>9, <1>11, OtherStep DEF Mine
<1>10. CASE UNCHANGED vars
  BY <1>1, <1>10, <1>11, OtherStep DEF vars, requestVars
<1> QED BY <1>2, <1>3, <1>4, <1>5, <1>6, <1>7, <1>8, <1>9, <1>10, Zenon DEF Next

\* The inductive invariant of the bridge: what EachRequestPaidOnce says, with
\* the partial sums of the requests as a witness, and the stamps of the pairs.
THEOREM Invariance ==
    Spec => []IInv
<1>1. Init => IInv
  BY InitLemma
<1>2. IInv /\ [Next]_vars => IInv'
  BY NextLemma
<1> QED BY <1>1, <1>2, PTL DEF Spec

\* AcrossIntegration executes every request in the call that stores it, so
\* executeRebalancing never pays one again, and the contract holds exactly the
\* tokens of its requests.
THEOREM PaidTheorem ==
    Spec => []EachRequestPaidOnce
<1>1. IInv => EachRequestPaidOnce
  <2> SUFFICES ASSUME IInv PROVE EachRequestPaidOnce
    OBVIOUS
  <2>1. TypeOK /\ AllExecuted /\ TokensKept
    BY DEF IInv
  <2>2. \A i \in DOMAIN requests : ~MayExecute(i)
    BY <2>1 DEF AllExecuted, MayExecute
  <2>3. ASSUME NEW t \in Tokens
        PROVE  balance[t] = Moved(t) /\ balance[t] + avsFunds[t] = Funds
    <3>1. PICK f : IsSum(f, requests, t) /\ f[Len(requests)] = balance[t]
      BY <2>1 DEF TokensKept
    <3>2. Moved(t) = f[Len(requests)]
      BY <2>1, <3>1, SumLemma DEF TypeOK
    <3> QED BY <2>1, <3>1, <3>2 DEF TokensKept
  <2> QED BY <2>1, <2>2, <2>3 DEF EachRequestPaidOnce
<1> QED BY <1>1, Invariance, PTL

\* Only requestRebalancing stores a request, and it stores it at the end.
LEMMA NewRequest ==
    ASSUME IInv, [Next]_vars, Len(requests') > Len(requests)
    PROVE  \E t, u \in Tokens, a \in Amounts :
              /\ requestRebalancing(t, u, a)
              /\ Last(requests') =
                    [targetChain |-> OptimalChain, token |-> t, counterToken |-> u,
                     imbalance |-> a, amount |-> TransferAmount(a),
                     timestamp |-> blockNumber, executed |-> TRUE]
<1>1. PICK n \in Nat : n = Len(requests) /\ requests \in Seq(Request)
  BY LenProperties DEF IInv, TypeOK
<1>2. PICK t \in Tokens, u \in Tokens, a \in Amounts : requestRebalancing(t, u, a)
  <2> SUFFICES ASSUME \A t, u \in Tokens, a \in Amounts : ~requestRebalancing(t, u, a)
               PROVE  requests' = requests
    BY <1>1
  <2> USE DEF requestVars
  <2>1. ASSUME NEW c, addSupportedChain(c) PROVE requests' = requests
    BY <2>1 DEF addSupportedChain
  <2>2. ASSUME NEW c, removeSupportedChain(c) PROVE requests' = requests
    BY <2>2 DEF removeSupportedChain
  <2>3. ASSUME NEW t, NEW b, setSupportedToken(t, b) PROVE requests' = requests
    BY <2>3 DEF setSupportedToken
  <2>4. ASSUME NEW c, updateAcrossConfig(c) PROVE requests' = requests
    BY <2>4 DEF updateAcrossConfig
  <2>5. ASSUME NEW b, setRebalancingPaused(b) PROVE requests' = requests
    BY <2>5 DEF setRebalancingPaused
  <2>6. ASSUME NEW b, setPaused(b) PROVE requests' = requests
    BY <2>6 DEF setPaused
  <2>7. CASE Mine
    BY <2>7 DEF Mine
  <2>8. CASE UNCHANGED vars
    BY <2>8 DEF vars
  <2> QED BY <2>1, <2>2, <2>3, <2>4, <2>5, <2>6, <2>7, <2>8, Zenon DEF Next
<1>3. PICK r : r = [targetChain |-> OptimalChain, token |-> t, counterToken |-> u,
                    imbalance |-> a, amount |-> TransferAmount(a),
                    timestamp |-> blockNumber, executed |-> TRUE]
  OBVIOUS
<1>4. requests' = Append(requests, r)
  BY <1>2, <1>3 DEF requestRebalancing
<1>5. Len(requests') = n + 1 /\ requests'[n + 1] = r
  BY <1>1, <1>4
<1>6. Last(requests') = r
  BY <1>5 DEF Last
<1> QED BY <1>2, <1>3, <1>6

\* A new request comes at least the cooldown in force after every earlier one
\* for the same ordered pair of tokens.
THEOREM CooldownTheorem ==
    Spec => CooldownHonoured
<1>1. IInv /\ [Next]_vars => [CooldownStep]_vars
  <2> SUFFICES ASSUME IInv, [Next]_vars, Len(requests') > Len(requests)
               PROVE  \A i \in DOMAIN requests :
                         LET new == Last(requests') IN
                         requests[i].token = new.token /\ requests[i].counterToken = new.counterToken
                            => new.timestamp >= requests[i].timestamp + config.cooldown
    BY DEF CooldownStep
  <2>1. PICK t \in Tokens, u \in Tokens, a \in Amounts :
              /\ requestRebalancing(t, u, a)
              /\ Last(requests') =
                    [targetChain |-> OptimalChain, token |-> t, counterToken |-> u,
                     imbalance |-> a, amount |-> TransferAmount(a),
                     timestamp |-> blockNumber, executed |-> TRUE]
    BY NewRequest
  <2>2. blockNumber >= lastRebalancingTime[t][u] + config.cooldown
    BY <2>1 DEF requestRebalancing, CooledDown
  <2>3. PICK new : new = Last(requests')
    OBVIOUS
  <2>4. new.token = t /\ new.counterToken = u /\ new.timestamp = blockNumber
    BY <2>1, <2>3
  <2>5. config.cooldown \in Nat /\ blockNumber \in Nat /\ lastRebalancingTime[t][u] \in Nat
    BY AcrossAssumption DEF IInv, TypeOK
  <2>6. ASSUME NEW i \in DOMAIN requests, requests[i].token = t, requests[i].counterToken = u
        PROVE  blockNumber >= requests[i].timestamp + config.cooldown
    <3>1. requests[i] \in Request
      BY ElementOfSeq, LenProperties DEF IInv, TypeOK
    <3>2. requests[i].timestamp \in Nat
      BY <3>1 DEF Request
    <3>3. requests[i].timestamp <= lastRebalancingTime[t][u]
      BY <2>6 DEF IInv, StampsKept
    <3> QED BY <2>2, <2>5, <3>2, <3>3
  <2> QED BY <2>3, <2>4, <2>6
<1> QED BY <1>1, Invariance, PTL DEF Spec, CooldownHonoured

\* A new request goes to another chain of the array, stays within the limits in
\* force (also when the constructor took crossed ones: then there is no
\* request) and moves no more than the imbalance that was reported with it,
\* more than half of it only at the lower limit.  That the target is on the
\* list also when 0 is a supported chain rests on ChainsListed.
THEOREM SaneTheorem ==
    Spec => RequestIsSane
<1>1. IInv /\ [Next]_vars => [SaneStep]_vars
  <2> SUFFICES ASSUME IInv, [Next]_vars, Len(requests') > Len(requests)
               PROVE  LET new == Last(requests') IN
                      /\ new.targetChain \in ToSet(supportedChainIds) \ {Home}
                      /\ new.amount \in config.min .. config.max
                      /\ new.amount <= new.imbalance
                      /\ 2 * new.amount <= new.imbalance \/ new.amount = config.min
    BY DEF SaneStep
  <2>1. PICK t \in Tokens, u \in Tokens, a \in Amounts :
              /\ requestRebalancing(t, u, a)
              /\ Last(requests') =
                    [targetChain |-> OptimalChain, token |-> t, counterToken |-> u,
                     imbalance |-> a, amount |-> TransferAmount(a),
                     timestamp |-> blockNumber, executed |-> TRUE]
    BY NewRequest
  <2>2. TypeOK /\ ChainsListed
    BY DEF IInv
  <2>3. OptimalChain \in ToSet(supportedChainIds) \ {Home}
    BY <2>1, <2>2, TargetLemma DEF requestRebalancing
  <2>4. a >= config.min /\ a <= config.max /\ config \in ConfigInputs
    BY <2>1, <2>2 DEF requestRebalancing, TypeOK
  <2>5. PICK x \in Nat : /\ x = TransferAmount(a) /\ x \in config.min .. config.max /\ x <= a
                         /\ 2 * x <= a \/ x = config.min
    BY <2>2, <2>4, AmountLemma
  <2>6. PICK new : new = Last(requests')
    OBVIOUS
  <2>7. new.targetChain = OptimalChain /\ new.amount = x /\ new.imbalance = a
    BY <2>1, <2>5, <2>6
  <2> QED BY <2>3, <2>5, <2>6, <2>7
<1> QED BY <1>1, Invariance, PTL DEF Spec, RequestIsSane

=============================================================================
