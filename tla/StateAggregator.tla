--------------------------- MODULE StateAggregator ---------------------------
(***************************************************************************)
(* The pool state store, src/AVS/pkg/state/aggregator.go.  UpdatePoolState *)
(* runs under the write lock and changes one GlobalPoolState field after   *)
(* field; it may fail half way.  CalculateAggregatedMetrics runs under the *)
(* read lock.  GetGlobalPoolState and GetAllPoolStates hand out pointers   *)
(* to the store's own records, which the validator and the predictor then  *)
(* read without the lock: every read of a field, and every entry met while *)
(* ranging over the chain states, is a step of its own.                    *)
(*                                                                         *)
(* One pool is enough: pools share nothing but the lock.  A field is a     *)
(* pointer that is replaced, never a number that is changed, so a racing   *)
(* read returns one of the values written.  A racing access to the map of  *)
(* chain states may also end the process, which is to take no more steps.  *)
(***************************************************************************)
EXTENDS PoolPredictor, PoolValidator

CONSTANTS
    Updaters,           \* goroutines that call UpdatePoolState
    Readers,            \* goroutines that read
    Horizons,           \* time horizons of predictions, in seconds
    Thresholds,         \* imbalance thresholds, in per cent
    Now,                \* the clock, in seconds
    Timestamps,         \* timestamps of the reports that are validated
    Nil,                \* a nil pointer
    None                \* nobody

ASSUME StoreAssumption ==
    /\ Horizons \cup Thresholds \cup Timestamps \cup {Now} \subseteq Nat
    /\ Nil \notin Nat /\ None \notin Updaters

\* Seconds are uint64.
ASSUME ClockAssumption == Timestamps \cup {Now} \subseteq 0 .. Word - 1

VARIABLES
    writer,             \* who holds the write lock
    pc,                 \* updater => next field to write
    arg,                \* updater => the state it was called with
    chainStates,        \* globalState.ChainStates
    total, average, score, latest,  \* the other fields
    failed,             \* the last finished UpdatePoolState returned an error
    reader              \* reader => [at, result]: where it is, what it got

vars == <<writer, pc, arg, chainStates, total, average, score, latest, failed, reader>>
fields == <<chainStates, total, average, score, latest>>

OutOfStore == [at |-> "out", result |-> Nil]

Exists == DOMAIN chainStates # {}

\* The map with an entry set.
With(map, c, s) == [d \in DOMAIN map \cup {c} |-> IF d = c THEN s ELSE map[d]]

Init ==
    /\ writer = None
    /\ pc = [u \in Updaters |-> "idle"]
    /\ arg = [u \in Updaters |-> Nil]
    /\ chainStates = << >>
    /\ total = Nil /\ average = Nil /\ score = Nil /\ latest = 0
    /\ failed = FALSE
    /\ reader = [r \in Readers |-> OutOfStore]

-----------------------------------------------------------------------------
(* UpdatePoolState, by updater u *)

LockFree == writer = None

\* a.mutex.Lock(), the record is created if need be, the chain state stored.
Store(u, c, s) ==
    /\ pc[u] = "idle" /\ LockFree
    /\ writer' = u
    /\ pc' = [pc EXCEPT ![u] = "total"]
    /\ arg' = [arg EXCEPT ![u] = s]
    /\ chainStates' = With(chainStates, c, s)
    /\ UNCHANGED <<total, average, score, latest, failed, reader>>

WriteTotal(u) ==
    /\ pc[u] = "total"
    /\ pc' = [pc EXCEPT ![u] = "average"]
    /\ total' = TotalLiquidity(chainStates)
    /\ UNCHANGED <<writer, arg, chainStates, average, score, latest, failed, reader>>

\* Mutant: only the report at hand is weighed.
NoWeightInReport(u) == arg[u].liquidity = 0

NoWeight(u) == TotalLiquidity(chainStates) = 0

\* "total weight is zero": the error is returned and the lock released, with
\* the chain state and the total already written.
Fail(u) ==
    /\ pc[u] = "average"
    /\ NoWeight(u)
    /\ pc' = [pc EXCEPT ![u] = "idle"]
    /\ arg' = [arg EXCEPT ![u] = Nil]
    /\ failed' = TRUE
    /\ writer' = None
    /\ UNCHANGED <<fields, reader>>

WriteAverage(u) ==
    /\ pc[u] = "average"
    /\ ~NoWeight(u)
    /\ pc' = [pc EXCEPT ![u] = "score"]
    /\ average' = WeightedAveragePrice(chainStates)
    /\ UNCHANGED <<writer, arg, chainStates, total, score, latest, failed, reader>>

WriteScore(u) ==
    /\ pc[u] = "score"
    /\ pc' = [pc EXCEPT ![u] = "block"]
    /\ score' = ImbalanceScore(chainStates, average)
    /\ UNCHANGED <<writer, arg, chainStates, total, average, latest, failed, reader>>

\* Mutant: the block of the update, which may be older than others.
BlockOfUpdate(u) == arg[u].block

BlockAfter(u) == LatestBlock(chainStates)

\* The last field; then a.mutex.Unlock().
WriteBlock(u) ==
    /\ pc[u] = "block"
    /\ pc' = [pc EXCEPT ![u] = "idle"]
    /\ arg' = [arg EXCEPT ![u] = Nil]
    /\ latest' = BlockAfter(u)
    /\ failed' = FALSE
    /\ writer' = None
    /\ UNCHANGED <<chainStates, total, average, score, reader>>

-----------------------------------------------------------------------------
(* Readers *)

\* CalculateAggregatedMetrics is a nil dereference (price variance) or a
\* division by zero (liquidity imbalance) in these states.
MetricsPanic ==
    Cardinality(DOMAIN chainStates) > 1 /\ (average = Nil \/ total = 0)

\* PredictPoolState and ValidatePoolState call a method of the nil average.
AnalysisPanic == average = Nil

Gets(r, at, result) ==
    /\ reader' = [reader EXCEPT ![r] = [at |-> at, result |-> result]]
    /\ UNCHANGED <<writer, pc, arg, fields, failed>>

\* CalculateAggregatedMetrics, under the read lock.  A call in a state of
\* MetricsPanic ends the process.
ReadLocked(r) ==
    /\ reader[r].at = "out" /\ LockFree /\ Exists
    /\ ~MetricsPanic
    /\ Gets(r, "locked", <<total, average>>)

\* GetGlobalPoolState or GetAllPoolStates: a pointer to the record.
GetPointer(r) ==
    /\ reader[r].at = "out" /\ LockFree /\ Exists
    /\ Gets(r, "pointer", Nil)

\* A range over the chain states that starts here: every chain there is now
\* will be met, in any order, and one that is added later may be.
Walk(kept) == [kept |-> kept, chains |-> DOMAIN chainStates, seen |-> << >>]

Walking == {"directions", "confidences", "deviations"}

Visit(r, c) ==
    LET got == reader[r].result IN
    /\ reader[r].at \in Walking
    /\ c \in DOMAIN chainStates \ DOMAIN got.seen
    /\ Gets(r, reader[r].at, [got EXCEPT !.seen = With(@, c, chainStates[c])])

Met(got) == got.chains \subseteq DOMAIN got.seen

-----------------------------------------------------------------------------
(* PredictPoolState, by reader r *)

\* analyzeTrend: fewer than two chains have no trend.
Trend(r, horizon) ==
    /\ reader[r].at = "pointer"
    /\ IF Cardinality(DOMAIN chainStates) < 2
       THEN Gets(r, "trend", [horizon |-> horizon, trend |-> Sideways, trust |-> 0])
       ELSE Gets(r, "directions", Walk(horizon))

TrendDirection(r) ==
    LET got == reader[r].result IN
    /\ reader[r].at = "directions" /\ Met(got)
    /\ Gets(r, "confidences", Walk([horizon |-> got.kept,
                                    trend |-> calculateTrendDirection(got.seen)]))

TrendConfidence(r) ==
    LET got == reader[r].result IN
    /\ reader[r].at = "confidences" /\ Met(got)
    /\ Gets(r, "trend", [horizon |-> got.kept.horizon, trend |-> got.kept.trend,
                         trust |-> calculateTrendConfidence(got.seen)])

\* Without a price it is an error.
PredictPrice(r) ==
    LET got == reader[r].result IN
    /\ reader[r].at = "trend" /\ ~AnalysisPanic
    /\ IF average = 0 THEN Gets(r, "error", Nil)
       ELSE Gets(r, "price", [base |-> average, trust |-> got.trust,
                              price |-> predictPrice(average, got.trend, got.trust, got.horizon)])

\* predictLiquidity: without liquidity it is an error.
CurrentLiquidity(r) ==
    LET got == reader[r].result IN
    /\ reader[r].at = "price"
    /\ IF total = 0 THEN Gets(r, "error", Nil)
       ELSE Gets(r, "liquidity", [base |-> got.base, trust |-> got.trust, price |-> got.price,
                                  total |-> total])

\* The average is read again.
PredictLiquidity(r) ==
    LET got == reader[r].result IN
    /\ reader[r].at = "liquidity"
    /\ Gets(r, "counting", [base |-> got.base, trust |-> got.trust, price |-> got.price,
                            total |-> got.total, reread |-> average,
                            liquidity |-> predictLiquidity(got.total, average, got.price)])

\* calculateConfidence, the number of chains.
CountChains(r) ==
    LET got == reader[r].result IN
    /\ reader[r].at = "counting"
    /\ Gets(r, "dating", [got EXCEPT !.trust = @ * ChainFactor(Cardinality(DOMAIN chainStates))])

\* And the age, which is the clock less the number of a block.
PredictConfidence(r) ==
    LET got == reader[r].result IN
    /\ reader[r].at = "dating"
    /\ Gets(r, "predicted", [got EXCEPT !.trust = @ * FreshnessFactor(Age(latest, Now))])

-----------------------------------------------------------------------------
(* PredictRebalancingNeed, by reader r *)

\* calculateImbalance: one chain has none.  (The first of its two calls is
\* only logged.)
Imbalance(r, threshold) ==
    /\ reader[r].at = "pointer"
    /\ IF Cardinality(DOMAIN chainStates) < 2
       THEN Gets(r, "imbalance", [threshold |-> threshold, imbalance |-> 0])
       ELSE Gets(r, "share", [threshold |-> threshold])

ImbalanceTotal(r) ==
    /\ reader[r].at = "share"
    /\ Gets(r, "divide", [threshold |-> reader[r].result.threshold, total |-> total])

ExpectedPerChain(r) ==
    LET got == reader[r].result IN
    /\ reader[r].at = "divide"
    /\ Gets(r, "deviations", Walk([threshold |-> got.threshold,
                                   expected |-> got.total \div Cardinality(DOMAIN chainStates)]))

TotalDeviation(r) ==
    LET got == reader[r].result IN
    /\ reader[r].at = "deviations" /\ Met(got)
    /\ Gets(r, "imbalance", [threshold |-> got.kept.threshold,
                             imbalance |-> Deviation(got.seen, got.kept.expected)])

\* The total is read again to judge the imbalance; nothing is needed, or ...
JudgeImbalance(r) ==
    LET got == reader[r].result IN
    /\ reader[r].at = "imbalance"
    /\ IF calculateImbalancePercent(got.imbalance, total) > got.threshold
       THEN Gets(r, "judged", [imbalance |-> got.imbalance, judged |-> total])
       ELSE Gets(r, "needs", [needed |-> FALSE])

\* ... once more for the amount.
RebalancingAmount(r) ==
    LET got == reader[r].result IN
    /\ reader[r].at = "judged"
    /\ Gets(r, "needs", [needed |-> TRUE, imbalance |-> got.imbalance, judged |-> got.judged,
                         total |-> total,
                         amount |-> calculateRebalancingAmount(total, got.imbalance)])

-----------------------------------------------------------------------------
(* ValidatePoolState, by reader r *)

\* Nothing to compare with is no deviation.
Validate(r, c, report, timestamp) ==
    /\ reader[r].at = "pointer" /\ ~AnalysisPanic
    /\ Gets(r, IF average = 0 THEN "priced" ELSE "compare",
            [chain |-> c, report |-> report, timestamp |-> timestamp])

\* A check that fails ends the validation.
Check(r, from, to, ok) ==
    /\ reader[r].at = from
    /\ IF ok THEN Gets(r, to, reader[r].result) ELSE Gets(r, "rejected", Nil)

ValidatePrice(r) ==
    Check(r, "compare", "priced",
          validatePriceDeviation(reader[r].result.report, average))

ValidateLiquidity(r) ==
    Check(r, "priced", "liquid",
          validateLiquidityChange(reader[r].result.report, reader[r].result.chain, chainStates))

ValidateTimestamp(r) ==
    Check(r, "liquid", "accepted", validateTimestamp(reader[r].result.timestamp, Now))

\* calculateConfidence: the average is read again, up to three times.
Rate(r) ==
    LET got == reader[r].result IN
    /\ reader[r].at = "accepted"
    /\ IF average = 0
       THEN Gets(r, "aged", [timestamp |-> got.timestamp, confidence |-> 1000])
       ELSE Gets(r, "deviate", got)

PriceDeviation(r) ==
    LET got == reader[r].result IN
    /\ reader[r].at = "deviate"
    /\ Gets(r, "percent", [timestamp |-> got.timestamp,
                           diff |-> Abs(got.report.price - average)])

\* The last of them may be zero by now: the division ends the process.
DeviationPercent(r) ==
    LET got == reader[r].result IN
    /\ reader[r].at = "percent" /\ average # 0
    /\ Gets(r, "aged", [timestamp |-> got.timestamp,
                        confidence |-> Discount((got.diff * 100) \div average, 1, 5, 10)])

\* The clock is read again; in millionths.
RateAge(r, now) ==
    LET got == reader[r].result IN
    /\ reader[r].at = "aged"
    /\ Gets(r, "rated", [timestamp |-> got.timestamp,
                         confidence |-> got.confidence * AgeDiscount(Age(got.timestamp, now))])

-----------------------------------------------------------------------------

Leave(r) ==
    /\ reader[r].at \in {"locked", "error", "predicted", "needs", "rejected", "rated"}
    /\ Gets(r, "out", Nil)

Update(u) ==
    \/ \E c \in Chains, s \in ChainStates : Store(u, c, s)
    \/ WriteTotal(u) \/ Fail(u) \/ WriteAverage(u) \/ WriteScore(u) \/ WriteBlock(u)

Prediction(r) ==
    \/ \E h \in Horizons : Trend(r, h)
    \/ TrendDirection(r) \/ TrendConfidence(r) \/ PredictPrice(r)
    \/ CurrentLiquidity(r) \/ PredictLiquidity(r) \/ CountChains(r) \/ PredictConfidence(r)

Need(r) ==
    \/ \E t \in Thresholds : Imbalance(r, t)
    \/ ImbalanceTotal(r) \/ ExpectedPerChain(r) \/ TotalDeviation(r)
    \/ JudgeImbalance(r) \/ RebalancingAmount(r)

Validation(r) ==
    \/ \E c \in Chains, s \in ChainStates, t \in Timestamps : Validate(r, c, s, t)
    \/ ValidatePrice(r) \/ ValidateLiquidity(r) \/ ValidateTimestamp(r)
    \/ Rate(r) \/ PriceDeviation(r) \/ DeviationPercent(r)
    \/ \E now \in {Now, Now + 1} : RateAge(r, now)

Next ==
    \/ \E u \in Updaters : Update(u)
    \/ \E r \in Readers :
          \/ ReadLocked(r) \/ GetPointer(r) \/ Leave(r)
          \/ \E c \in Chains : Visit(r, c)
          \/ Prediction(r) \/ Need(r) \/ Validation(r)

Spec == Init /\ [][Next]_vars

-----------------------------------------------------------------------------
(* Properties *)

\* Whoever takes the lock after a successful update finds fields that all
\* belong to the chain states: total, average and latest block are theirs
\* and the score is the integer root of the price variance.
FieldsAgree ==
    LockFree /\ Exists /\ ~failed =>
        LET v == PriceVariance(chainStates, average) IN
        /\ total = TotalLiquidity(chainStates) /\ total > 0
        /\ \E c, d \in DOMAIN chainStates :
              chainStates[c].price <= average /\ average <= chainStates[d].price
        /\ Cardinality(DOMAIN chainStates) > 1 =>
              score * score <= v /\ v < (score + 1) * (score + 1)
        /\ \A c \in DOMAIN chainStates : latest >= chainStates[c].block
        /\ \E c \in DOMAIN chainStates : latest = chainStates[c].block

\* An update that fails leaves the chain states and the total of the new
\* report next to the average, score and block of an older one; it fails only
\* when no chain has liquidity, and only then can
\* CalculateAggregatedMetrics, the predictor or the validator panic.
FailureIsEmptyPool ==
    LockFree /\ Exists =>
        /\ failed <=> \A c \in DOMAIN chainStates : chainStates[c].liquidity = 0
        /\ failed => total = 0
        /\ MetricsPanic \/ AnalysisPanic => failed

\* The predicted price is within ten per cent of the average it was made from,
\* and the liquidity within five per cent of the total, if the average is read
\* twice the same; when an update replaces the average between the two reads,
\* the liquidity is still at least half of the total.
PredictionBounded ==
    \A r \in Readers : reader[r].at = "predicted" =>
        LET p == reader[r].result IN
        /\ 10 * Abs(p.price - p.base) <= p.base /\ p.price > 0
        /\ p.reread = p.base => 20 * Abs(p.liquidity - p.total) < p.total + 20
        /\ 2 * p.liquidity >= p.total - 1

\* PredictRebalancingNeed reads the total up to three times while updates
\* replace it.  Whatever it reads, it asks for a rebalancing only if the total
\* it judged by was not zero, for at most half the imbalance or the smallest
\* amount, and for at most a tenth of the total it read last (not of the one it
\* judged by); and for something, if that total has a tenth to move.
RebalancingBounded ==
    \A r \in Readers : reader[r].at = "needs" /\ reader[r].result.needed =>
        LET p == reader[r].result IN
        /\ p.judged > 0
        /\ 2 * p.amount <= p.imbalance \/ p.amount <= MinAmount
        /\ 10 * p.amount <= p.total
        /\ p.total >= 10 /\ MinAmount > 0 => p.amount > 0

\* An accepted report is at most maxTimeGap old; only a gap longer than the
\* clock has run lets one from the future in.  When the clock moves on before
\* the confidence is worked out, the age of a report that is not from the future
\* costs no more than a second beyond the gap does.
AcceptedIsRecent ==
    \A r \in Readers : reader[r].at = "rated" =>
        LET v == reader[r].result
            gap == Criteria.maxTimeGap
        IN  /\ v.timestamp <= Now => /\ Now - v.timestamp <= gap
                                     /\ v.confidence >= 432 * AgeDiscount(gap + 1)
            /\ v.timestamp > Now => gap > Now

=============================================================================
