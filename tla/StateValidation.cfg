\* Three validators, one hash.  The owner registers and removes validators and
\* changes the threshold; SyncAVS records votes for one of them, also
\* while it is not registered; submissions move across the slashing threshold.
CONSTANTS
    Validators = {v1, v2, v3}
    Hashes = {h1}
    Recorded = {v3}
    Penalties = {1}
    ThresholdInputs = {0, 50, 67}
    DataLengths = {0, 15, 32}
    MIN_CONSENSUS_VALIDATORS = 2
    SLASHING_THRESHOLD = 50
    MinSubmissions = 2
    MaxSubmissions = 2
    MaxVotes = 3
SPECIFICATION Spec
SYMMETRY ValidatorSymmetry
INVARIANTS RegistryAgrees OneVoteEach ConsensusHasSupport
PROPERTIES StoredIsRecomputed SlashingJustified
