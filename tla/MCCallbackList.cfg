\* The list as it is compiled.
CONSTANTS
    MaxCallbacks = 5
    MaxRounds = 3
    Hookless <- MCHookless
SPECIFICATION FairSpec
INVARIANTS
    TypeOK
    OneEnd
    HealthyStay
    YoungestNeverPassed
PROPERTIES
    RemovedStayRemoved
    RoundEnds
    Implements
