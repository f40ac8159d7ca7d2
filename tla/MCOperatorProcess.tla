------------------------- MODULE MCOperatorProcess -------------------------
EXTENDS OperatorProcess

Entry(c) == [id |-> c, complete |-> TRUE, key |-> TRUE]

\* A configuration with everything in place.
Complete(list) ==
    [chains |-> list, registryCoordinator |-> TRUE, spokePool |-> TRUE, acrossNumbers |-> TRUE]

TwoChains == Complete(<<Entry("ethereum"), Entry("arbitrum")>>)

\* Complete ones with and without the source chain, one that names a chain
\* twice, and one for each thing that can be missing or wrong.
AllConfigs ==
    {TwoChains, Complete(<< >>), Complete(<<Entry("arbitrum")>>),
     Complete(<<Entry("ethereum"), Entry("ethereum")>>),
     [TwoChains EXCEPT !.chains[2].complete = FALSE], [TwoChains EXCEPT !.chains[2].key = FALSE],
     [TwoChains EXCEPT !.registryCoordinator = FALSE],
     [TwoChains EXCEPT !.spokePool = FALSE],
     [TwoChains EXCEPT !.acrossNumbers = FALSE]}

=============================================================================
