CONSTANTS
    NoText = NoText
    Symbols <- MCSymbols
    URI_MAX_PARAMS = 4
    BUILD_SIZE = 24
    COPA_MAX_OPTS = 10
    Discipline = "append"
    COMMAND_SIZE = 12
    DefaultPerPage = 20
    Lines <- MCLines
    TestUris <- MCTestUris
    ParamKeys <- MCParamKeys
    ParamValues <- MCParamValues
    MaxOps = 3
SPECIFICATION FairSpec
INVARIANTS
    TypeOK
    CommandIsWhatFollows
    ArraysFit
    ConfigFromLine
    EveryHostOnce
    PagesInOrder
    RoundTrip
    OverrunByOne
    NeverPasses
PROPERTY DistexecEnds
