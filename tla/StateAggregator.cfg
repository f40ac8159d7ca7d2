\* Two updaters on three chains and one reader.  Reports with and without
\* liquidity, old and new blocks; timestamps on both sides of both ends of the
\* window; a horizon whose change is capped and one whose change is not.
CONSTANTS
    Updaters = {u1, u2}
    Readers = {r1}
    Chains = {c1, c2, c3}
    ChainStates <- ThreeStates
    Horizons = {30, 300}
    Thresholds = {20}
    Now = 1000
    Timestamps = {699, 700, 1000, 1001}
    Criteria <- DefaultCriteria
    MinAmount = 5
    Word = 100000
    Nil = Nil
    None = None
SPECIFICATION Spec
SYMMETRY Symmetry
INVARIANTS FieldsAgree  PredictionBounded RebalancingBounded AcceptedIsRecent
