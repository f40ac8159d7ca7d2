\* Two pools; an AVS that knows nothing, agrees or is far off; an array of
\* chains that can be emptied and can hold duplicates.
CONSTANTS
    Pools = {p1, p2}
    Amounts = {0, 1, 2}
    SwapInputs = {s1, s2}
    AVSAnswers <- Answers
    ChainInputs = {1, 42161}
    InitialChains <- TwoChains
    NoParams = NoParams
    MaxLiquidity = 3
    MaxChains = 3
SPECIFICATION Spec
SYMMETRY PoolSymmetry
INVARIANTS TrackedUntilSwap
PROPERTIES TrackedMovesWithPool
