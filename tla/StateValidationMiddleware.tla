---------------------- MODULE StateValidationMiddleware ----------------------
(***************************************************************************)
(* The validation middleware, src/src/avs/StateValidationMiddleware.sol:   *)
(* registered operators vote once on each state hash, the votes decide     *)
(* whether the hash has consensus, and every invalid submission counts     *)
(* towards a slashing.  The SyncAVS contract may also record votes for     *)
(* anybody (recordValidation).                                             *)
(*                                                                         *)
(* Left out: reasons, confidences, timestamps and events, which nothing    *)
(* reads back, the slashing registry address, which nothing calls, and the *)
(* reward, which is never paid.  Percentages: the code compares            *)
(* invalid * 100e16 / total with 5e16 and valid * 100 / total with the     *)
(* threshold, both rounded down, and is modelled on a scale of 100.        *)
(***************************************************************************)
EXTENDS Integers, Sequences, SequencesExt

CONSTANTS
    Validators,                 \* addresses that may be registered
    Hashes,                     \* state hashes
    Recorded,                   \* validators that SyncAVS records votes for
    Penalties,                  \* slashing penalties the owner sets
    ThresholdInputs,            \* consensus thresholds the owner asks for
    DataLengths,                \* lengths of state data and task responses
    MIN_CONSENSUS_VALIDATORS,
    SLASHING_THRESHOLD,         \* percent of invalid submissions
    MinSubmissions,             \* the literal 10 of _shouldSlash
    MaxSubmissions,             \* bound: submissions counted per validator
    MaxVotes                    \* bound: votes stored per hash

ASSUME ValidationAssumption ==
    /\ Recorded \subseteq Validators
    /\ Penalties \subseteq Nat /\ DataLengths \subseteq Nat
    /\ ThresholdInputs \subseteq Nat
    /\ MIN_CONSENSUS_VALIDATORS \in Nat \ {0}
    /\ SLASHING_THRESHOLD \in Nat
    /\ MinSubmissions \in Nat \ {0} /\ MaxSubmissions \in Nat /\ MaxVotes \in Nat

VARIABLES
    stateValidations,           \* hash => array of [validator, isValid]
    validationCounts,           \* hash => number
    consensusResults,           \* hash => bool
    operatorStats,              \* validator => OperatorStats
    registeredOperators,        \* validator => bool
    operators,                  \* array of registered validators
    slashingPenalty,
    consensusThreshold,
    paused

vars == <<stateValidations, validationCounts, consensusResults, operatorStats,
          registeredOperators, operators, slashingPenalty, consensusThreshold,
          paused>>

-----------------------------------------------------------------------------

Result == [validator : Validators, isValid : BOOLEAN]

OperatorStats ==
    [totalSubmissions : Nat, validSubmissions : Nat, invalidSubmissions : Nat,
     slashingEvents : Nat, totalSlashing : Nat, isActive : BOOLEAN]

NoStats(active) ==
    [totalSubmissions |-> 0, validSubmissions |-> 0, invalidSubmissions |-> 0,
     slashingEvents |-> 0, totalSlashing |-> 0, isActive |-> active]

\* Mutant: zero is let through.
ValidThresholdZero(t) == t <= 100

ValidThreshold(t) == t > 0 /\ t <= 100

\* _validateStateData and _validateTaskResponse look at the length only.
ValidStateData(len)    == len >= 32
ValidTaskResponse(len) == len >= 16

\* Mutant: only the latest vote is looked at.
hasValidatedLast(h, v) ==
    stateValidations[h] # <<>> /\ Last(stateValidations[h]).validator = v

hasValidated(h, v) ==
    \E i \in DOMAIN stateValidations[h] : stateValidations[h][i].validator = v

\* The votes that the loops of checkConsensus and _checkConsensus count.
ValidVotes(results) == {i \in DOMAIN results : results[i].isValid}

\* The verdict that checkConsensus and _checkConsensus both compute.
Verdict(results, threshold) ==
    (Cardinality(ValidVotes(results)) * 100) \div Len(results) >= threshold

\* checkConsensus, the view: recomputed with the threshold in force now.
checkConsensus(h) ==
    /\ Len(stateValidations[h]) >= MIN_CONSENSUS_VALIDATORS
    /\ Verdict(stateValidations[h], consensusThreshold)

\* Mutant: judged from the first submission on.
shouldSlashAtOnce(stats) ==
    (stats.invalidSubmissions * 100) \div stats.totalSubmissions >= SLASHING_THRESHOLD

shouldSlash(stats) ==
    /\ stats.totalSubmissions >= MinSubmissions
    /\ (stats.invalidSubmissions * 100) \div stats.totalSubmissions
          >= SLASHING_THRESHOLD

executeSlashing(stats) ==
    [stats EXCEPT !.slashingEvents = @ + 1, !.totalSlashing = @ + slashingPenalty]

\* _updateOperatorStats: counted first, judged on the new figures.
WithSubmission(stats, isValid) ==
    LET counted == [stats EXCEPT !.totalSubmissions = @ + 1]
        valid   == [counted EXCEPT !.validSubmissions = @ + 1]
        invalid == [counted EXCEPT !.invalidSubmissions = @ + 1]
    IN  IF isValid THEN valid
        ELSE IF shouldSlash(invalid) THEN executeSlashing(invalid) ELSE invalid

updateOperatorStats(v, isValid) ==
    /\ operatorStats[v].totalSubmissions < MaxSubmissions       \* bound
    /\ operatorStats' =
          [operatorStats EXCEPT ![v] = WithSubmission(@, isValid)]

\* Mutant: one vote more than the minimum is asked for.
DecisionLate(h, results) ==
    IF Len(results) <= MIN_CONSENSUS_VALIDATORS THEN consensusResults[h]
    ELSE Verdict(results, consensusThreshold)

\* _checkConsensus.  With too few votes the stored result is left alone.
Decision(h, results) ==
    IF Len(results) < MIN_CONSENSUS_VALIDATORS THEN consensusResults[h]
    ELSE Verdict(results, consensusThreshold)

\* Store a vote and decide again.
StoreVote(h, v, isValid) ==
    LET results == Append(stateValidations[h],
                          [validator |-> v, isValid |-> isValid]) IN
    /\ Len(stateValidations[h]) < MaxVotes                      \* bound
    /\ stateValidations' = [stateValidations EXCEPT ![h] = results]
    /\ validationCounts' = [validationCounts EXCEPT ![h] = @ + 1]
    /\ updateOperatorStats(v, isValid)
    /\ consensusResults' = [consensusResults EXCEPT ![h] = Decision(h, results)]

-----------------------------------------------------------------------------

Init ==
    /\ stateValidations = [h \in Hashes |-> <<>>]
    /\ validationCounts = [h \in Hashes |-> 0]
    /\ consensusResults = [h \in Hashes |-> FALSE]
    /\ operatorStats = [v \in Validators |-> NoStats(FALSE)]
    /\ registeredOperators = [v \in Validators |-> FALSE]
    /\ operators = <<>>
    /\ slashingPenalty \in Penalties
    /\ consensusThreshold \in {t \in ThresholdInputs : ValidThreshold(t)}
    /\ paused = FALSE

\* By the owner.  The statistics start again, also for a returning operator.
registerOperator(v) ==
    /\ ~registeredOperators[v]
    /\ registeredOperators' = [registeredOperators EXCEPT ![v] = TRUE]
    /\ operators' = Append(operators, v)
    /\ operatorStats' = [operatorStats EXCEPT ![v] = NoStats(TRUE)]
    /\ UNCHANGED <<stateValidations, validationCounts, consensusResults,
                   slashingPenalty, consensusThreshold, paused>>

\* Mutant: the last one is removed, whoever it is.
SwapPopLast(seq, v) == Front(seq)

\* operators[i] = operators[operators.length - 1]; operators.pop() at the
\* first i that holds v.
SwapPop(seq, v) ==
    IF \E i \in DOMAIN seq : seq[i] = v
    THEN LET first == CHOOSE i \in DOMAIN seq :
                         seq[i] = v /\ \A j \in DOMAIN seq : seq[j] = v => i <= j
         IN  Front([seq EXCEPT ![first] = Last(seq)])
    ELSE seq

\* By the owner.  Votes already cast stay.
unregisterOperator(v) ==
    /\ registeredOperators[v]
    /\ registeredOperators' = [registeredOperators EXCEPT ![v] = FALSE]
    /\ operatorStats' = [operatorStats EXCEPT ![v].isActive = FALSE]
    /\ operators' = SwapPop(operators, v)
    /\ UNCHANGED <<stateValidations, validationCounts, consensusResults,
                   slashingPenalty, consensusThreshold, paused>>

\* By operator v, with data of the given length.
validateStateUpdate(v, h, len) ==
    /\ registeredOperators[v]
    /\ operatorStats[v].isActive
    /\ len > 0
    /\ ~hasValidated(h, v)
    /\ StoreVote(h, v, ValidStateData(len))
    /\ UNCHANGED <<registeredOperators, operators, slashingPenalty,
                   consensusThreshold, paused>>

\* By operator v.  Nothing keeps an operator from answering again.
submitTaskResponse(v, len) ==
    /\ registeredOperators[v]
    /\ operatorStats[v].isActive
    /\ len > 0
    /\ updateOperatorStats(v, ValidTaskResponse(len))
    /\ UNCHANGED <<stateValidations, validationCounts, consensusResults,
                   registeredOperators, operators, slashingPenalty,
                   consensusThreshold, paused>>

\* By the SyncAVS contract, for any validator and with its own verdict.
recordValidation(v, h, isValid) ==
    /\ StoreVote(h, v, isValid)
    /\ UNCHANGED <<registeredOperators, operators, slashingPenalty,
                   consensusThreshold, paused>>

updateValidationConfig(penalty, threshold) ==
    /\ ValidThreshold(threshold)
    /\ slashingPenalty' = penalty
    /\ consensusThreshold' = threshold
    /\ UNCHANGED <<stateValidations, validationCounts, consensusResults,
                   operatorStats, registeredOperators, operators, paused>>

setPaused(b) ==
    /\ paused # b
    /\ paused' = b
    /\ UNCHANGED <<stateValidations, validationCounts, consensusResults,
                   operatorStats, registeredOperators, operators,
                   slashingPenalty, consensusThreshold>>

Next ==
    \/ \E v \in Validators : registerOperator(v) \/ unregisterOperator(v)
    \/ \E v \in Validators, h \in Hashes, len \in DataLengths :
          validateStateUpdate(v, h, len)
    \/ \E v \in Validators, len \in DataLengths : submitTaskResponse(v, len)
    \/ \E v \in Recorded, h \in Hashes, b \in BOOLEAN : recordValidation(v, h, b)
    \/ \E p \in Penalties, t \in ThresholdInputs : updateValidationConfig(p, t)
    \/ \E b \in BOOLEAN : setPaused(b)

Spec == Init /\ [][Next]_vars

-----------------------------------------------------------------------------
(* Properties *)

TypeOK ==
    /\ stateValidations \in [Hashes -> Seq(Result)]
    /\ validationCounts \in [Hashes -> Nat]
    /\ consensusResults \in [Hashes -> BOOLEAN]
    /\ operatorStats \in [Validators -> OperatorStats]
    /\ registeredOperators \in [Validators -> BOOLEAN]
    /\ operators \in Seq(Validators)
    /\ slashingPenalty \in Penalties
    /\ consensusThreshold \in {t \in ThresholdInputs : ValidThreshold(t)}
    /\ paused \in BOOLEAN

\* The operators array, the registered flags and the active flags are three
\* records of one fact and always agree, through any order of registrations
\* and swap-and-pop removals; no removal leaves a hole in the array.
RegistryAgrees ==
    /\ TypeOK
    /\ \A v \in Validators :
          /\ registeredOperators[v] <=> v \in ToSet(operators)
          /\ registeredOperators[v] <=> operatorStats[v].isActive
    /\ IsInjective(operators)

\* validateStateUpdate counts an operator once per hash, also when the
\* operator was removed and came back in between; only votes that SyncAVS
\* records (recordValidation) can repeat a validator.
OneVoteEach ==
    \A h \in Hashes : \A i, j \in DOMAIN stateValidations[h] :
        /\ stateValidations[h][i].validator = stateValidations[h][j].validator
        /\ stateValidations[h][i].validator \notin Recorded
        => i = j

\* A stored consensus rests on enough votes and on at least one valid vote,
\* whatever thresholds were in force before and after.
ConsensusHasSupport ==
    \A h \in Hashes : consensusResults[h] =>
        /\ validationCounts[h] >= MIN_CONSENSUS_VALIDATORS
        /\ ValidVotes(stateValidations[h]) # {}

\* Right after a vote the stored result is what the view checkConsensus
\* answers: no order of votes leaves a stale verdict behind.  (A new threshold
\* does, until the next vote.)
VoteStep ==
    \A h \in Hashes : stateValidations'[h] # stateValidations[h]
        => (consensusResults'[h] <=> checkConsensus(h)')
StoredIsRecomputed == [][VoteStep]_vars

\* Slashing happens only on an invalid submission, for an operator with
\* enough submissions and too many invalid ones, and books exactly the
\* penalty in force.
SlashStep ==
    \A v \in Validators :
        operatorStats'[v].slashingEvents > operatorStats[v].slashingEvents =>
            /\ operatorStats'[v].invalidSubmissions = operatorStats[v].invalidSubmissions + 1
            /\ operatorStats'[v].totalSubmissions >= MinSubmissions
            /\ operatorStats'[v].invalidSubmissions * 100
                  >= SLASHING_THRESHOLD * operatorStats'[v].totalSubmissions
            /\ operatorStats'[v].totalSlashing
                  = operatorStats[v].totalSlashing + slashingPenalty
SlashingJustified == [][SlashStep]_vars

=============================================================================
