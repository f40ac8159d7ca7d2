\* Two chains, and as many minutes as a delayed tick needs to meet the next and
\* to start its transfer in the same minute.
CONSTANTS
    Chains = {"ethereum", "arbitrum"}
    Source = "ethereum"
    Configs <- AllConfigs
    MaxMinutes = 2
SPECIFICATION FairOperatorSpec
INVARIANTS ClientsOutliveUse TransfersArePaced
PROPERTY ShutdownCompletes
CHECK_DEADLOCK FALSE
