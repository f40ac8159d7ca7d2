--------------------- MODULE MCStateValidationMiddleware ---------------------
EXTENDS StateValidationMiddleware
ValidatorSymmetry == Permutations(Validators \ Recorded)
=============================================================================
