------------------- MODULE StateValidationMiddlewareProofs -------------------
(***************************************************************************)
(* Proofs about the validation middleware, for any validators, hashes,     *)
(* thresholds and penalties.                                               *)
(***************************************************************************)
EXTENDS StateValidationMiddleware, FiniteSetTheorems, SequenceTheorems, TLAPS

\* The counter of a hash is the length of its array of votes.
VotesCounted ==
    \A h \in Hashes : validationCounts[h] = Len(stateValidations[h])

IInv == RegistryAgrees /\ OneVoteEach /\ VotesCounted /\ ConsensusHasSupport

-----------------------------------------------------------------------------
(* The operators of the model *)

\* The number of valid votes in an array is a number.
LEMMA ValidVotesFinite ==
    ASSUME NEW results \in Seq(Result)
    PROVE  /\ IsFiniteSet(ValidVotes(results))
           /\ Cardinality(ValidVotes(results)) \in Nat
<1>1. IsFiniteSet(1 .. Len(results))
  BY FS_Interval
<1>2. ValidVotes(results) \subseteq 1 .. Len(results)
  BY DEF ValidVotes
<1> QED BY <1>1, <1>2, FS_Subset, FS_CardinalityType

\* A positive verdict under a legal threshold needs a valid vote.
LEMMA VerdictNeedsSupport ==
    ASSUME NEW results \in Seq(Result), Len(results) >= MIN_CONSENSUS_VALIDATORS,
           NEW t \in Nat, ValidThreshold(t), Verdict(results, t)
    PROVE  ValidVotes(results) # {}
<1>1. Len(results) \in Nat \ {0}
  BY ValidationAssumption
<1>2. PICK n \in Nat : n = Cardinality(ValidVotes(results))
  BY ValidVotesFinite
<1>3. (n * 100) \div Len(results) >= t /\ t > 0
  BY <1>2 DEF Verdict, ValidThreshold
<1>4. n # 0
  BY <1>1, <1>3
<1> QED BY <1>2, <1>4, FS_EmptySet

\* A percentage that is rounded down and reaches a threshold.
LEMMA PercentLemma ==
    ASSUME NEW part \in Nat, NEW total \in Nat \ {0}, NEW t \in Nat,
           (part * 100) \div total >= t
    PROVE  part * 100 >= t * total
<1>1. ((part * 100) \div total) * total <= part * 100
  OBVIOUS
<1>2. (part * 100) \div total \in Nat
  OBVIOUS
<1> QED BY <1>1, <1>2

\* A submission keeps the statistics statistics and leaves the active flag
\* alone; it slashes only when it is invalid and the figures call for it.
LEMMA WithSubmissionEffect ==
    ASSUME NEW stats \in OperatorStats, NEW b \in BOOLEAN, slashingPenalty \in Nat,
           NEW new, new = WithSubmission(stats, b)
    PROVE  /\ new \in OperatorStats
           /\ new.isActive = stats.isActive
           /\ new.slashingEvents > stats.slashingEvents =>
                 /\ new.invalidSubmissions = stats.invalidSubmissions + 1
                 /\ new.totalSubmissions >= MinSubmissions
                 /\ new.invalidSubmissions * 100 >= SLASHING_THRESHOLD * new.totalSubmissions
                 /\ new.totalSlashing = stats.totalSlashing + slashingPenalty
<1> DEFINE counted == [stats EXCEPT !.totalSubmissions = @ + 1]
           valid   == [counted EXCEPT !.validSubmissions = @ + 1]
           invalid == [counted EXCEPT !.invalidSubmissions = @ + 1]
<1>1. /\ counted \in OperatorStats /\ counted.isActive = stats.isActive
      /\ counted.slashingEvents = stats.slashingEvents
      /\ counted.totalSlashing = stats.totalSlashing
      /\ counted.invalidSubmissions = stats.invalidSubmissions
      /\ counted.totalSubmissions = stats.totalSubmissions + 1
  BY DEF OperatorStats
<1>2. CASE b
  <2>1. new = valid
    BY <1>2 DEF WithSubmission
  <2> HIDE DEF counted
  <2>2. /\ valid \in OperatorStats /\ valid.isActive = counted.isActive
        /\ valid.slashingEvents = counted.slashingEvents
    BY <1>1 DEF OperatorStats
  <2>3. stats.slashingEvents \in Nat
    BY DEF OperatorStats
  <2> QED BY <1>1, <2>1, <2>2, <2>3
<1>3. CASE ~b
  <2>0. new = IF shouldSlash(invalid) THEN executeSlashing(invalid) ELSE invalid
    BY <1>3 DEF WithSubmission
  <2>1. /\ invalid \in OperatorStats /\ invalid.isActive = stats.isActive
        /\ invalid.slashingEvents = stats.slashingEvents
        /\ invalid.totalSlashing = stats.totalSlashing
        /\ invalid.invalidSubmissions = stats.invalidSubmissions + 1
        /\ invalid.totalSubmissions = stats.totalSubmissions + 1
    <3> HIDE DEF counted
    <3> QED BY <1>1 DEF OperatorStats
  <2> HIDE DEF invalid
  <2>2. /\ stats.slashingEvents \in Nat /\ stats.invalidSubmissions \in Nat
        /\ stats.totalSubmissions \in Nat
    BY DEF OperatorStats
  <2>3. CASE ~shouldSlash(invalid)
    BY <2>0, <2>1, <2>2, <2>3
  <2>4. CASE shouldSlash(invalid)
    <3>1. new = [invalid EXCEPT !.slashingEvents = @ + 1, !.totalSlashing = @ + slashingPenalty]
      BY <2>0, <2>4 DEF executeSlashing
    <3>2. /\ new \in OperatorStats /\ new.isActive = invalid.isActive
          /\ new.invalidSubmissions = invalid.invalidSubmissions
          /\ new.totalSubmissions = invalid.totalSubmissions
          /\ new.totalSlashing = invalid.totalSlashing + slashingPenalty
      <4>1. PICK inv \in OperatorStats : inv = invalid
        BY <2>1
      <4>2. /\ inv.slashingEvents + 1 \in Nat /\ inv.totalSlashing + slashingPenalty \in Nat
        BY DEF OperatorStats
      <4>3. new = [inv EXCEPT !.slashingEvents = inv.slashingEvents + 1,
                              !.totalSlashing = inv.totalSlashing + slashingPenalty]
        BY <3>1, <4>1
      <4> QED BY <4>1, <4>2, <4>3 DEF OperatorStats
    <3>3. invalid.totalSubmissions \in Nat \ {0} /\ invalid.invalidSubmissions \in Nat
      BY <2>1, <2>2
    <3>4. /\ invalid.totalSubmissions >= MinSubmissions
          /\ (invalid.invalidSubmissions * 100) \div invalid.totalSubmissions >= SLASHING_THRESHOLD
      BY <2>4 DEF shouldSlash
    <3>5. invalid.invalidSubmissions * 100 >= SLASHING_THRESHOLD * invalid.totalSubmissions
      BY <3>3, <3>4, PercentLemma, ValidationAssumption
    <3> QED BY <2>1, <3>2, <3>4, <3>5
  <2> QED BY <2>3, <2>4
<1> QED BY <1>2, <1>3

\* registerOperator pushes the new operator.
LEMMA PushLemma ==
    ASSUME NEW s \in Seq(Validators), IsInjective(s), NEW v \in Validators, v \notin ToSet(s)
    PROVE  /\ Append(s, v) \in Seq(Validators)
           /\ IsInjective(Append(s, v))
           /\ ToSet(Append(s, v)) = ToSet(s) \cup {v}
<1>1. /\ Append(s, v) \in Seq(Validators)
      /\ DOMAIN s = 1 .. Len(s) /\ Len(s) \in Nat
      /\ DOMAIN Append(s, v) = 1 .. Len(s) + 1
      /\ Append(s, v)[Len(s) + 1] = v
      /\ \A i \in 1 .. Len(s) : Append(s, v)[i] = s[i]
  BY AppendProperties, LenProperties
<1>2. /\ \A i \in 1 .. Len(s) + 1 : i \in 1 .. Len(s) \/ i = Len(s) + 1
      /\ Len(s) + 1 \in 1 .. Len(s) + 1
      /\ \A i \in 1 .. Len(s) : i \in 1 .. Len(s) + 1
  BY <1>1
<1>3. \A i \in 1 .. Len(s) : s[i] # v
  BY <1>1 DEF ToSet
<1>4. IsInjective(Append(s, v))
  BY <1>1, <1>2, <1>3, Zenon DEF IsInjective
<1>5. ToSet(Append(s, v)) = ToSet(s) \cup {v}
  BY <1>1, <1>2 DEF ToSet
<1> QED BY <1>1, <1>4, <1>5

\* unregisterOperator's swap and pop takes out the operator, and only it, and
\* leaves no operator twice.
LEMMA SwapPopLemma ==
    ASSUME NEW s \in Seq(Validators), IsInjective(s), NEW v \in ToSet(s)
    PROVE  /\ SwapPop(s, v) \in Seq(Validators)
           /\ IsInjective(SwapPop(s, v))
           /\ ToSet(SwapPop(s, v)) = ToSet(s) \ {v}
<1>1. PICK k \in DOMAIN s : s[k] = v
  BY DEF ToSet
<1>2. \A i \in DOMAIN s : s[i] = v <=> i = k
  BY <1>1 DEF IsInjective
<1>3. Len(s) \in Nat \ {0} /\ DOMAIN s = 1 .. Len(s) /\ k \in 1 .. Len(s)
  BY <1>1, LenProperties
<1>4. (CHOOSE i \in DOMAIN s : s[i] = v /\ \A j \in DOMAIN s : s[j] = v => i <= j) = k
  BY <1>1, <1>2, <1>3
<1> DEFINE t == [s EXCEPT ![k] = s[Len(s)]]
           p == SubSeq(t, 1, Len(s) - 1)
<1>5. /\ t \in Seq(Validators) /\ Len(t) = Len(s)
      /\ \A j \in 1 .. Len(s) : t[j] = IF j = k THEN s[Len(s)] ELSE s[j]
  <2>1. s[Len(s)] \in Validators
    BY <1>3, ElementOfSeq
  <2> QED BY <1>3, <2>1, ExceptSeq
<1>6. SwapPop(s, v) = p
  BY <1>1, <1>4, <1>5 DEF SwapPop, Front, Last
<1> HIDE DEF t
<1>7. /\ p \in Seq(Validators) /\ DOMAIN p = 1 .. Len(s) - 1
      /\ \A j \in 1 .. Len(s) - 1 : p[j] = t[j]
  BY <1>3, <1>5, SubSeqProperties
<1> HIDE DEF p
<1>8. \A j \in 1 .. Len(s) - 1 : p[j] = IF j = k THEN s[Len(s)] ELSE s[j]
  BY <1>3, <1>5, <1>7
<1>9. IsInjective(p)
  <2> SUFFICES ASSUME NEW i \in 1 .. Len(s) - 1, NEW j \in 1 .. Len(s) - 1, p[i] = p[j]
               PROVE  i = j
    BY <1>7 DEF IsInjective
  <2> QED BY <1>3, <1>8 DEF IsInjective
<1>10. ToSet(p) = ToSet(s) \ {v}
  <2>1. ASSUME NEW x \in ToSet(p) PROVE x \in ToSet(s) \ {v}
    <3>1. PICK i \in 1 .. Len(s) - 1 : p[i] = x
      BY <1>7 DEF ToSet
    <3>2. CASE i = k
      <4>1. Len(s) \in DOMAIN s /\ Len(s) # k /\ x = s[Len(s)]
        BY <1>3, <1>8, <3>1, <3>2
      <4> QED BY <1>2, <4>1 DEF ToSet
    <3>3. CASE i # k
      <4>1. i \in DOMAIN s /\ x = s[i]
        BY <1>3, <1>8, <3>1, <3>3
      <4> QED BY <1>2, <3>3, <4>1 DEF ToSet
    <3> QED BY <3>2, <3>3
  <2>2. ASSUME NEW x \in ToSet(s), x # v PROVE x \in ToSet(p)
    <3>1. PICK i \in 1 .. Len(s) : s[i] = x
      BY <1>3 DEF ToSet
    <3>2. i # k
      BY <1>1, <2>2, <3>1
    <3>3. CASE i = Len(s)
      <4>1. k \in DOMAIN p /\ p[k] = x
        BY <1>3, <1>7, <1>8, <3>1, <3>2, <3>3
      <4> QED BY <4>1 DEF ToSet
    <3>4. CASE i # Len(s)
      <4>1. i \in DOMAIN p /\ p[i] = x
        <5>1. i \in 1 .. Len(s) - 1
          <6>1. PICK n \in Nat : n = Len(s)
            BY <1>3
          <6>2. i \in 1 .. n /\ i # n
            BY <3>4, <6>1
          <6>3. i \in 1 .. n - 1
            BY <6>2
          <6> QED BY <6>1, <6>3
        <5> QED BY <1>7, <1>8, <3>1, <3>2, <5>1
      <4> QED BY <4>1 DEF ToSet
    <3> QED BY <3>3, <3>4
  <2> QED BY <2>1, <2>2
<1> QED BY <1>6, <1>7, <1>9, <1>10

-----------------------------------------------------------------------------
(* The invariant *)

\* The constructor's state.
LEMMA InitLemma == Init => IInv
<1> SUFFICES ASSUME Init PROVE IInv
  OBVIOUS
<1>1. TypeOK
  <2>1. NoStats(FALSE) \in OperatorStats
    BY DEF NoStats, OperatorStats
  <2>2. << >> \in Seq(Result) /\ << >> \in Seq(Validators)
    BY EmptySeq
  <2> QED BY <2>1, <2>2 DEF Init, TypeOK
<1>2. /\ operators = << >> /\ ToSet(operators) = {} /\ IsInjective(operators)
  BY DEF Init, ToSet, IsInjective
<1>3. \A v \in Validators : ~registeredOperators[v] /\ ~operatorStats[v].isActive
  BY DEF Init, NoStats
<1>4. RegistryAgrees
  BY <1>1, <1>2, <1>3 DEF RegistryAgrees
<1>5. OneVoteEach /\ VotesCounted /\ ConsensusHasSupport
  BY DEF Init, OneVoteEach, VotesCounted, ConsensusHasSupport
<1> QED BY <1>4, <1>5 DEF IInv

\* A call that stores no vote leaves the votes' part of the invariant alone.
LEMMA VotesKept ==
    ASSUME IInv, UNCHANGED <<stateValidations, validationCounts, consensusResults>>
    PROVE  OneVoteEach' /\ VotesCounted' /\ ConsensusHasSupport'
BY DEF IInv, OneVoteEach, VotesCounted, ConsensusHasSupport

\* A call that leaves the registry alone, and the active flags too.
LEMMA RegistryKept ==
    ASSUME IInv, TypeOK', UNCHANGED <<registeredOperators, operators>>,
           \A v \in Validators : operatorStats'[v].isActive = operatorStats[v].isActive
    PROVE  RegistryAgrees'
BY DEF IInv, RegistryAgrees

\* A submission of v is counted.
LEMMA CountLemma ==
    ASSUME IInv, NEW v \in Validators, NEW b \in BOOLEAN, updateOperatorStats(v, b)
    PROVE  /\ operatorStats' \in [Validators -> OperatorStats]
           /\ operatorStats'[v] = WithSubmission(operatorStats[v], b)
           /\ \A w \in Validators : w # v => operatorStats'[w] = operatorStats[w]
           /\ \A w \in Validators : operatorStats'[w].isActive = operatorStats[w].isActive
           /\ slashingPenalty \in Nat /\ operatorStats[v] \in OperatorStats
<1>1. /\ operatorStats \in [Validators -> OperatorStats]
      /\ operatorStats[v] \in OperatorStats /\ slashingPenalty \in Nat
  BY ValidationAssumption DEF IInv, RegistryAgrees, TypeOK
<1>2. PICK new : new = WithSubmission(operatorStats[v], b)
  OBVIOUS
<1>3. new \in OperatorStats /\ new.isActive = operatorStats[v].isActive
  BY <1>1, <1>2, WithSubmissionEffect
<1>4. operatorStats' = [operatorStats EXCEPT ![v] = new]
  BY <1>2 DEF updateOperatorStats
<1> QED BY <1>1, <1>2, <1>3, <1>4

\* A stored vote: the array, the counter, the statistics and the verdict.
LEMMA StoreVoteLemma ==
    ASSUME IInv, NEW h \in Hashes, NEW v \in Validators, NEW b \in BOOLEAN,
           StoreVote(h, v, b), v \in Recorded \/ ~hasValidated(h, v),
           UNCHANGED <<registeredOperators, operators, slashingPenalty, consensusThreshold, paused>>
    PROVE  IInv'
<1>1. PICK vote : vote = [validator |-> v, isValid |-> b]
  OBVIOUS
<1>2. vote \in Result /\ vote.validator = v
  BY <1>1 DEF Result
<1>3. PICK results : results = Append(stateValidations[h], vote)
  OBVIOUS
<1>4. /\ stateValidations' = [stateValidations EXCEPT ![h] = results]
      /\ validationCounts' = [validationCounts EXCEPT ![h] = @ + 1]
      /\ consensusResults' = [consensusResults EXCEPT ![h] = Decision(h, results)]
      /\ updateOperatorStats(v, b)
  BY <1>1, <1>3 DEF StoreVote
<1>5. /\ stateValidations \in [Hashes -> Seq(Result)] /\ stateValidations[h] \in Seq(Result)
      /\ validationCounts \in [Hashes -> Nat] /\ consensusResults \in [Hashes -> BOOLEAN]
  BY DEF IInv, RegistryAgrees, TypeOK
<1>6. PICK n \in Nat : n = Len(stateValidations[h])
  BY <1>5, LenProperties
<1>7. /\ results \in Seq(Result) /\ Len(results) = n + 1
      /\ DOMAIN results = 1 .. n + 1 /\ DOMAIN stateValidations[h] = 1 .. n
      /\ results[n + 1] = vote
      /\ \A i \in 1 .. n : results[i] = stateValidations[h][i]
  BY <1>2, <1>3, <1>5, <1>6, AppendProperties, LenProperties
<1>8. /\ stateValidations' \in [Hashes -> Seq(Result)] /\ stateValidations'[h] = results
      /\ \A g \in Hashes : g # h => stateValidations'[g] = stateValidations[g]
  BY <1>4, <1>5, <1>7
<1>9. /\ validationCounts' \in [Hashes -> Nat] /\ validationCounts'[h] = n + 1
      /\ \A g \in Hashes : g # h => validationCounts'[g] = validationCounts[g]
  BY <1>4, <1>5, <1>6 DEF IInv, VotesCounted
<1>10. Decision(h, results) \in BOOLEAN
  <2>1. Verdict(results, consensusThreshold) \in BOOLEAN
    <3>1. PICK c \in Nat : c = Cardinality(ValidVotes(results))
      BY <1>7, ValidVotesFinite
    <3>2. consensusThreshold \in Nat
      BY ValidationAssumption DEF IInv, RegistryAgrees, TypeOK
    <3>3. ((c * 100) \div (n + 1) >= consensusThreshold) \in BOOLEAN
      BY <3>2
    <3> QED BY <1>7, <3>1, <3>3 DEF Verdict
  <2>2. consensusResults[h] \in BOOLEAN
    BY <1>5
  <2> QED BY <2>1, <2>2, Zenon DEF Decision
<1>11. PICK d \in BOOLEAN : d = Decision(h, results)
  BY <1>10
<1>12. /\ consensusResults' \in [Hashes -> BOOLEAN] /\ consensusResults'[h] = d
       /\ \A g \in Hashes : g # h => consensusResults'[g] = consensusResults[g]
  BY <1>4, <1>5, <1>11
<1>13. /\ operatorStats' \in [Validators -> OperatorStats]
       /\ \A w \in Validators : operatorStats'[w].isActive = operatorStats[w].isActive
  BY <1>4, CountLemma
<1>14. RegistryAgrees'
  <2>1. TypeOK'
    BY <1>8, <1>9, <1>12, <1>13 DEF IInv, RegistryAgrees, TypeOK
  <2> QED BY <1>13, <2>1, RegistryKept
<1>15. OneVoteEach'
  <2> SUFFICES ASSUME NEW g \in Hashes,
                      NEW i \in DOMAIN stateValidations'[g], NEW j \in DOMAIN stateValidations'[g],
                      stateValidations'[g][i].validator = stateValidations'[g][j].validator,
                      stateValidations'[g][i].validator \notin Recorded
               PROVE  i = j
    BY DEF OneVoteEach
  <2>1. CASE g # h
    BY <1>8, <2>1 DEF IInv, OneVoteEach
  <2>2. CASE g = h
    <3>1. /\ i \in 1 .. n + 1 /\ j \in 1 .. n + 1
          /\ results[i].validator = results[j].validator /\ results[i].validator \notin Recorded
      BY <1>7, <1>8, <2>2
    <3>2. \A k \in 1 .. n : results[k].validator = v => v \in Recorded
      BY <1>7 DEF hasValidated
    <3>3. CASE i \in 1 .. n /\ j \in 1 .. n
      BY <1>7, <3>1, <3>3 DEF IInv, OneVoteEach
    <3>4. CASE i = n + 1 \/ j = n + 1
      <4>1. results[i].validator = v
        BY <1>2, <1>7, <3>1, <3>4
      <4>2. i \notin 1 .. n /\ j \notin 1 .. n
        BY <3>1, <3>2, <4>1
      <4> QED BY <3>1, <4>2
    <3> QED BY <3>1, <3>3, <3>4
  <2> QED BY <2>1, <2>2
<1>16. VotesCounted'
  BY <1>7, <1>8, <1>9 DEF IInv, VotesCounted
<1>17. ConsensusHasSupport'
  <2> SUFFICES ASSUME NEW g \in Hashes, consensusResults'[g]
               PROVE  /\ validationCounts'[g] >= MIN_CONSENSUS_VALIDATORS
                      /\ ValidVotes(stateValidations'[g]) # {}
    BY DEF ConsensusHasSupport
  <2>1. CASE g # h
    BY <1>8, <1>9, <1>12, <2>1 DEF IInv, ConsensusHasSupport
  <2>2. CASE g = h
    <3>1. ~(n + 1 < MIN_CONSENSUS_VALIDATORS)
      <4> SUFFICES ASSUME n + 1 < MIN_CONSENSUS_VALIDATORS PROVE FALSE
        OBVIOUS
      <4>1. consensusResults[h]
        BY <1>7, <1>11, <1>12, <2>2 DEF Decision
      <4>2. n >= MIN_CONSENSUS_VALIDATORS
        BY <1>6, <4>1 DEF IInv, ConsensusHasSupport, VotesCounted
      <4> QED BY <4>2, ValidationAssumption
    <3>2. n + 1 >= MIN_CONSENSUS_VALIDATORS
      BY <3>1, ValidationAssumption
    <3>3. Verdict(results, consensusThreshold)
      BY <1>7, <1>11, <1>12, <2>2, <3>1 DEF Decision
    <3>4. consensusThreshold \in Nat /\ ValidThreshold(consensusThreshold)
      BY ValidationAssumption DEF IInv, RegistryAgrees, TypeOK
    <3>5. ValidVotes(results) # {}
      BY <1>7, <3>2, <3>3, <3>4, VerdictNeedsSupport
    <3> QED BY <1>8, <1>9, <2>2, <3>2, <3>5
  <2> QED BY <2>1, <2>2
<1> QED BY <1>14, <1>15, <1>16, <1>17 DEF IInv

\* registerOperator.
LEMMA RegisterLemma ==
    ASSUME IInv, NEW v \in Validators, registerOperator(v)
    PROVE  IInv'
<1>0. /\ ~registeredOperators[v] /\ operators' = Append(operators, v)
      /\ registeredOperators' = [registeredOperators EXCEPT ![v] = TRUE]
      /\ operatorStats' = [operatorStats EXCEPT ![v] = NoStats(TRUE)]
      /\ UNCHANGED <<stateValidations, validationCounts, consensusResults, slashingPenalty,
                     consensusThreshold, paused>>
  BY DEF registerOperator
<1>1. NoStats(TRUE) \in OperatorStats /\ NoStats(TRUE).isActive
  BY DEF NoStats, OperatorStats
<1>2. /\ operators \in Seq(Validators) /\ IsInjective(operators) /\ v \notin ToSet(operators)
  BY <1>0 DEF IInv, RegistryAgrees, TypeOK
<1>3. /\ operators' \in Seq(Validators) /\ IsInjective(operators')
      /\ ToSet(operators') = ToSet(operators) \cup {v}
  BY <1>0, <1>2, PushLemma
<1>4. TypeOK'
  BY <1>0, <1>1, <1>3 DEF IInv, RegistryAgrees, TypeOK
<1>5. ASSUME NEW w \in Validators
      PROVE  /\ registeredOperators'[w] <=> w \in ToSet(operators')
             /\ registeredOperators'[w] <=> operatorStats'[w].isActive
  <2>1. registeredOperators \in [Validators -> BOOLEAN]
        /\ operatorStats \in [Validators -> OperatorStats]
    BY DEF IInv, RegistryAgrees, TypeOK
  <2>2. CASE w = v
    BY <1>0, <1>1, <1>3, <2>1, <2>2
  <2>3. CASE w # v
    BY <1>0, <1>3, <2>1, <2>3 DEF IInv, RegistryAgrees
  <2> QED BY <2>2, <2>3
<1>6. RegistryAgrees'
  BY <1>3, <1>4, <1>5 DEF RegistryAgrees
<1> QED BY <1>0, <1>6, VotesKept DEF IInv

\* unregisterOperator.
LEMMA UnregisterLemma ==
    ASSUME IInv, NEW v \in Validators, unregisterOperator(v)
    PROVE  IInv'
<1>0. /\ registeredOperators[v] /\ operators' = SwapPop(operators, v)
      /\ registeredOperators' = [registeredOperators EXCEPT ![v] = FALSE]
      /\ operatorStats' = [operatorStats EXCEPT ![v].isActive = FALSE]
      /\ UNCHANGED <<stateValidations, validationCounts, consensusResults, slashingPenalty,
                     consensusThreshold, paused>>
  BY DEF unregisterOperator
<1>1. /\ operators \in Seq(Validators) /\ IsInjective(operators) /\ v \in ToSet(operators)
      /\ registeredOperators \in [Validators -> BOOLEAN]
      /\ operatorStats \in [Validators -> OperatorStats]
  BY <1>0 DEF IInv, RegistryAgrees, TypeOK
<1>2. PICK new : new = [operatorStats[v] EXCEPT !.isActive = FALSE]
  OBVIOUS
<1>3. new \in OperatorStats /\ ~new.isActive
  BY <1>1, <1>2 DEF OperatorStats
<1>4. operatorStats' = [operatorStats EXCEPT ![v] = new]
  BY <1>0, <1>2
<1>5. /\ operators' \in Seq(Validators) /\ IsInjective(operators')
      /\ ToSet(operators') = ToSet(operators) \ {v}
  BY <1>0, <1>1, SwapPopLemma
<1>6. TypeOK'
  BY <1>0, <1>3, <1>4, <1>5 DEF IInv, RegistryAgrees, TypeOK
<1>7. ASSUME NEW w \in Validators
      PROVE  /\ registeredOperators'[w] <=> w \in ToSet(operators')
             /\ registeredOperators'[w] <=> operatorStats'[w].isActive
  <2>1. CASE w = v
    BY <1>0, <1>1, <1>3, <1>4, <1>5, <2>1
  <2>2. CASE w # v
    BY <1>0, <1>1, <1>4, <1>5, <2>2 DEF IInv, RegistryAgrees
  <2> QED BY <2>1, <2>2
<1>8. RegistryAgrees'
  BY <1>5, <1>6, <1>7 DEF RegistryAgrees
<1> QED BY <1>0, <1>8, VotesKept DEF IInv

\* A task response is only counted.
LEMMA ResponseLemma ==
    ASSUME IInv, NEW v \in Validators, NEW len \in DataLengths, submitTaskResponse(v, len)
    PROVE  IInv'
<1>1. /\ updateOperatorStats(v, ValidTaskResponse(len)) /\ ValidTaskResponse(len) \in BOOLEAN
      /\ UNCHANGED <<stateValidations, validationCounts, consensusResults, registeredOperators,
                     operators, slashingPenalty, consensusThreshold, paused>>
  BY DEF submitTaskResponse, ValidTaskResponse
<1>2. /\ operatorStats' \in [Validators -> OperatorStats]
      /\ \A w \in Validators : operatorStats'[w].isActive = operatorStats[w].isActive
  BY <1>1, CountLemma
<1>3. TypeOK'
  BY <1>1, <1>2 DEF IInv, RegistryAgrees, TypeOK
<1> QED BY <1>1, <1>2, <1>3, RegistryKept, VotesKept DEF IInv

\* Every call preserves the invariant.
LEMMA NextLemma == IInv /\ [Next]_vars => IInv'
<1> SUFFICES ASSUME IInv, [Next]_vars PROVE IInv'
  OBVIOUS
<1>1. CASE \E v \in Validators : registerOperator(v) \/ unregisterOperator(v)
  BY <1>1, RegisterLemma, UnregisterLemma
<1>2. ASSUME NEW v \in Validators, NEW h \in Hashes, NEW len \in DataLengths,
             validateStateUpdate(v, h, len)
      PROVE  IInv'
  <2>1. /\ StoreVote(h, v, ValidStateData(len)) /\ ~hasValidated(h, v)
        /\ UNCHANGED <<registeredOperators, operators, slashingPenalty, consensusThreshold, paused>>
    BY <1>2 DEF validateStateUpdate
  <2>2. ValidStateData(len) \in BOOLEAN
    BY DEF ValidStateData
  <2> QED BY <2>1, <2>2, StoreVoteLemma
<1>3. ASSUME NEW v \in Validators, NEW len \in DataLengths, submitTaskResponse(v, len)
      PROVE  IInv'
  BY <1>3, ResponseLemma
<1>4. ASSUME NEW v \in Recorded, NEW h \in Hashes, NEW b \in BOOLEAN, recordValidation(v, h, b)
      PROVE  IInv'
  BY <1>4, StoreVoteLemma, ValidationAssumption DEF recordValidation
<1>5. ASSUME NEW p \in Penalties, NEW t \in ThresholdInputs, updateValidationConfig(p, t)
      PROVE  IInv'
  <2>1. /\ UNCHANGED <<stateValidations, validationCounts, consensusResults, registeredOperators,
                       operators, operatorStats, paused>>
        /\ slashingPenalty' \in Penalties
        /\ consensusThreshold' \in {x \in ThresholdInputs : ValidThreshold(x)}
    BY <1>5 DEF updateValidationConfig
  <2>2. TypeOK'
    BY <2>1 DEF IInv, RegistryAgrees, TypeOK
  <2> QED BY <2>1, <2>2, RegistryKept, VotesKept DEF IInv
<1>6. ASSUME \/ UNCHANGED vars
             \/ \E b \in BOOLEAN : setPaused(b)
      PROVE  IInv'
  <2>1. /\ UNCHANGED <<stateValidations, validationCounts, consensusResults, registeredOperators,
                       operators, operatorStats, slashingPenalty, consensusThreshold>>
        /\ paused' \in BOOLEAN
    BY <1>6 DEF setPaused, vars, IInv, RegistryAgrees, TypeOK
  <2>2. TypeOK'
    BY <2>1 DEF IInv, RegistryAgrees, TypeOK
  <2> QED BY <2>1, <2>2, RegistryKept, VotesKept DEF IInv
<1> QED BY <1>1, <1>2, <1>3, <1>4, <1>5, <1>6 DEF Next

\* The invariant holds in every reachable state.
THEOREM Invariance == Spec => []IInv
BY InitLemma, NextLemma, PTL DEF Spec

\* The operators array, the registered flags and the active flags agree after
\* any order of registerOperator and unregisterOperator.
THEOREM RegistryTheorem == Spec => []RegistryAgrees
<1>1. IInv => RegistryAgrees
  BY DEF IInv
<1> QED BY <1>1, Invariance, PTL

\* An operator that votes only through validateStateUpdate is counted once per
\* hash, also when it leaves and comes back; validators in whose name the AVS
\* has called recordValidation, which has no duplicate check, are exempt.
THEOREM OneVoteTheorem == Spec => []OneVoteEach
<1>1. IInv => OneVoteEach
  BY DEF IInv
<1> QED BY <1>1, Invariance, PTL

\* A consensus that is stored has enough votes and a valid one, whatever
\* thresholds updateValidationConfig has set.
THEOREM SupportTheorem == Spec => []ConsensusHasSupport
<1>1. IInv => ConsensusHasSupport
  BY DEF IInv
<1> QED BY <1>1, Invariance, PTL

\* A stored vote leaves the stored result equal to what the view checkConsensus
\* recomputes from the same array under the same threshold.
LEMMA VoteAgrees ==
    ASSUME IInv, NEW h \in Hashes, NEW v \in Validators, NEW b \in BOOLEAN,
           StoreVote(h, v, b), UNCHANGED consensusThreshold,
           NEW g \in Hashes, stateValidations'[g] # stateValidations[g]
    PROVE  consensusResults'[g] <=> checkConsensus(g)'
<1>1. PICK results : results = Append(stateValidations[h], [validator |-> v, isValid |-> b])
  OBVIOUS
<1>2. /\ stateValidations' = [stateValidations EXCEPT ![h] = results]
      /\ consensusResults' = [consensusResults EXCEPT ![h] = Decision(h, results)]
  BY <1>1 DEF StoreVote
<1>3. /\ stateValidations \in [Hashes -> Seq(Result)] /\ stateValidations[h] \in Seq(Result)
      /\ consensusResults \in [Hashes -> BOOLEAN]
      /\ validationCounts[h] = Len(stateValidations[h])
  BY DEF IInv, RegistryAgrees, TypeOK, VotesCounted
<1>4. g = h /\ stateValidations'[g] = results /\ consensusResults'[g] = Decision(h, results)
  BY <1>2, <1>3
<1>5. PICK n \in Nat : n = Len(stateValidations[h])
  BY <1>3, LenProperties
<1>6. Len(results) = n + 1
  <2>1. [validator |-> v, isValid |-> b] \in Result
    BY DEF Result
  <2> QED BY <1>1, <1>3, <1>5, <2>1, AppendProperties
<1>7. checkConsensus(g)' <=> /\ n + 1 >= MIN_CONSENSUS_VALIDATORS
                             /\ Verdict(results, consensusThreshold)
  BY <1>4, <1>6 DEF checkConsensus, Verdict
<1>8. CASE n + 1 < MIN_CONSENSUS_VALIDATORS
  <2>1. ~(n >= MIN_CONSENSUS_VALIDATORS) /\ ~(n + 1 >= MIN_CONSENSUS_VALIDATORS)
    BY <1>8, ValidationAssumption
  <2>2. ~consensusResults[h]
    BY <1>3, <1>5, <2>1 DEF IInv, ConsensusHasSupport
  <2>3. Decision(h, results) = consensusResults[h]
    BY <1>6, <1>8 DEF Decision
  <2> QED BY <1>4, <1>7, <2>1, <2>2, <2>3
<1>9. CASE ~(n + 1 < MIN_CONSENSUS_VALIDATORS)
  <2>1. n + 1 >= MIN_CONSENSUS_VALIDATORS
    BY <1>9, ValidationAssumption
  <2>2. Decision(h, results) = Verdict(results, consensusThreshold)
    BY <1>6, <1>9 DEF Decision
  <2> QED BY <1>4, <1>7, <2>1, <2>2
<1> QED BY <1>8, <1>9

\* validateStateUpdate and recordValidation store a fresh verdict with every
\* vote: the stored result and what checkConsensus recomputes agree.
THEOREM RecomputedTheorem == Spec => StoredIsRecomputed
<1>1. IInv /\ [Next]_vars => [VoteStep]_vars
  <2> SUFFICES ASSUME IInv, Next, NEW g \in Hashes, stateValidations'[g] # stateValidations[g]
               PROVE  consensusResults'[g] <=> checkConsensus(g)'
    BY DEF VoteStep
  <2>1. CASE stateValidations' = stateValidations
    BY <2>1
  <2>2. ASSUME NEW v \in Validators, NEW h \in Hashes, NEW len \in DataLengths,
               validateStateUpdate(v, h, len)
        PROVE  consensusResults'[g] <=> checkConsensus(g)'
    <3>1. ValidStateData(len) \in BOOLEAN
      BY DEF ValidStateData
    <3>2. StoreVote(h, v, ValidStateData(len)) /\ UNCHANGED consensusThreshold
      BY <2>2 DEF validateStateUpdate
    <3> QED BY <3>1, <3>2, VoteAgrees
  <2>3. ASSUME NEW v \in Recorded, NEW h \in Hashes, NEW b \in BOOLEAN,
               recordValidation(v, h, b)
        PROVE  consensusResults'[g] <=> checkConsensus(g)'
    BY <2>3, VoteAgrees, ValidationAssumption DEF recordValidation
  <2> QED BY <2>1, <2>2, <2>3 DEF Next, registerOperator, unregisterOperator,
             submitTaskResponse, updateValidationConfig, setPaused
<1> QED BY <1>1, Invariance, PTL DEF Spec, StoredIsRecomputed

\* A slashing is booked only by an invalid submission of an operator with
\* MinSubmissions submissions and SLASHING_THRESHOLD percent of them invalid,
\* and books the penalty in force (_updateOperatorStats, _executeSlashing).
THEOREM SlashingTheorem == Spec => SlashingJustified
<1> DEFINE Justified(v) ==
        /\ operatorStats'[v].invalidSubmissions = operatorStats[v].invalidSubmissions + 1
        /\ operatorStats'[v].totalSubmissions >= MinSubmissions
        /\ operatorStats'[v].invalidSubmissions * 100
              >= SLASHING_THRESHOLD * operatorStats'[v].totalSubmissions
        /\ operatorStats'[v].totalSlashing = operatorStats[v].totalSlashing + slashingPenalty
<1>1. IInv /\ [Next]_vars => [SlashStep]_vars
  <2> SUFFICES ASSUME IInv, Next, NEW w \in Validators,
                      operatorStats'[w].slashingEvents > operatorStats[w].slashingEvents
               PROVE  Justified(w)
    BY DEF SlashStep
  <2>1. /\ operatorStats \in [Validators -> OperatorStats]
        /\ operatorStats[w].slashingEvents \in Nat
    BY DEF IInv, RegistryAgrees, TypeOK, OperatorStats
  <2>2. operatorStats'[w].slashingEvents # operatorStats[w].slashingEvents
        /\ operatorStats'[w].slashingEvents # 0
    BY <2>1
  <2>3. ASSUME NEW v \in Validators, NEW b \in BOOLEAN, updateOperatorStats(v, b)
        PROVE  Justified(w)
    <3>1. /\ operatorStats'[v] = WithSubmission(operatorStats[v], b)
          /\ \A u \in Validators : u # v => operatorStats'[u] = operatorStats[u]
          /\ slashingPenalty \in Nat /\ operatorStats[v] \in OperatorStats
      BY <2>3, CountLemma
    <3>2. w = v
      BY <2>2, <3>1
    <3>3. PICK new : new = operatorStats'[v]
      OBVIOUS
    <3> QED BY <3>1, <3>2, <3>3, WithSubmissionEffect
  <2>4. ASSUME NEW v \in Validators, registerOperator(v)
        PROVE  FALSE
    <3>1. operatorStats' = [operatorStats EXCEPT ![v] = NoStats(TRUE)]
      BY <2>4 DEF registerOperator
    <3>2. NoStats(TRUE).slashingEvents = 0
      BY DEF NoStats
    <3>3. CASE w = v
      BY <2>1, <2>2, <3>1, <3>2, <3>3
    <3>4. CASE w # v
      BY <2>1, <2>2, <3>1, <3>4
    <3> QED BY <3>3, <3>4
  <2>5. ASSUME NEW v \in Validators, unregisterOperator(v)
        PROVE  FALSE
    <3>1. PICK new : new = [operatorStats[v] EXCEPT !.isActive = FALSE]
      OBVIOUS
    <3>2. operatorStats' = [operatorStats EXCEPT ![v] = new]
      BY <2>5, <3>1 DEF unregisterOperator
    <3>3. new.slashingEvents = operatorStats[v].slashingEvents
      BY <2>1, <3>1 DEF OperatorStats
    <3>4. CASE w = v
      BY <2>1, <2>2, <3>2, <3>3, <3>4
    <3>5. CASE w # v
      BY <2>1, <2>2, <3>2, <3>5
    <3> QED BY <3>4, <3>5
  <2>6. CASE operatorStats' = operatorStats
    BY <2>2, <2>6
  <2> HIDE DEF Justified
  <2>7. ASSUME NEW v \in Validators, NEW h \in Hashes, NEW len \in DataLengths,
               validateStateUpdate(v, h, len)
        PROVE  Justified(w)
    <3>1. ValidStateData(len) \in BOOLEAN
      BY DEF ValidStateData
    <3>2. updateOperatorStats(v, ValidStateData(len))
      BY <2>7 DEF validateStateUpdate, StoreVote
    <3> QED BY <2>3, <3>1, <3>2
  <2>8. ASSUME NEW v \in Validators, NEW len \in DataLengths, submitTaskResponse(v, len)
        PROVE  Justified(w)
    <3>1. ValidTaskResponse(len) \in BOOLEAN
      BY DEF ValidTaskResponse
    <3>2. updateOperatorStats(v, ValidTaskResponse(len))
      BY <2>8 DEF submitTaskResponse
    <3> QED BY <2>3, <3>1, <3>2
  <2>9. ASSUME NEW v \in Recorded, NEW h \in Hashes, NEW b \in BOOLEAN,
               recordValidation(v, h, b)
        PROVE  Justified(w)
    <3>1. updateOperatorStats(v, b) /\ v \in Validators
      BY <2>9, ValidationAssumption DEF recordValidation, StoreVote
    <3> QED BY <2>3, <3>1
  <2> QED BY <2>4, <2>5, <2>6, <2>7, <2>8, <2>9 DEF Next, updateValidationConfig, setPaused
<1> QED BY <1>1, Invariance, PTL DEF Spec, SlashingJustified

=============================================================================
