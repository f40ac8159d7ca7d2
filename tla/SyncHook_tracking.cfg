\* One pool; the AVS has liquidity of other chains, or none at all.
CONSTANTS
    Pools = {p1}
    Amounts = {0, 1, 2}
    SwapInputs = {s1, s2}
    AVSAnswers <- Answers
    ChainInputs = {1, 42161}
    InitialChains <- TwoChains
    NoParams = NoParams
    MaxLiquidity = 3
    MaxChains = 3
SPECIFICATION Spec
INVARIANTS TrackedIsPool
