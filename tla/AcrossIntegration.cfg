\* Two tokens (four ordered pairs), the contract's own chain and a foreign one
\* whose id is 0, settings that change between requests, funds that run out.
CONSTANTS
    Tokens = {t1, t2}
    Home = 1
    Chains = {0, 1}
    Amounts = {1, 2, 4, 5}
    ConfigInputs <- Settings
    Funds = 3
    MaxBlock = 3
SPECIFICATION Spec
SYMMETRY TokenSymmetry
INVARIANTS EachRequestPaidOnce
PROPERTIES CooldownHonoured RequestIsSane
