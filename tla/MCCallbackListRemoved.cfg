\* The list as it is compiled, and two failures in a row.
CONSTANTS
    MaxCallbacks = 4
    MaxRounds = 1
    Hookless <- MCHookless
SPECIFICATION FairSpec
INVARIANT FailedAreRemoved
