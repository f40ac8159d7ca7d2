------------------------- MODULE MCAcrossIntegration -------------------------
EXTENDS AcrossIntegration

\* Two settings that are accepted and one whose limits are crossed; the
\* constructor takes that one too.
Settings == {[fee |-> 10, max |-> 4, min |-> 2, cooldown |-> 1],
             [fee |-> 10, max |-> 4, min |-> 1, cooldown |-> 2],
             [fee |-> 10, max |-> 1, min |-> 2, cooldown |-> 0]}

TokenSymmetry == Permutations(Tokens)

=============================================================================
