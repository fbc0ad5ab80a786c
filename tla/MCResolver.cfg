SPECIFICATION FairSpec
CONSTANTS
    Threads = {t1, t2}
    Categories <- MCCategories
    NameOf <- MCNameOf
    LogLevels <- MCLogLevels
    DebugLists <- MCDebugLists
    References <- MCReferences
    Images <- MCImages
    Files <- MCFiles
    Broken <- MCBroken
    Needs <- MCNeeds
    Defines <- MCDefines
    Initialiser <- MCInitialiser
    Registers <- MCRegisters
    InitReference <- MCInitReference
    Meant <- MCMeant
    None = None
    Invalid = Invalid
    Budget = 3
INVARIANTS
    InitialisedOnce
    FunctionIsTheOneNamed
    SettingTakesEffect
PROPERTY CallsReturn
CHECK_DEADLOCK FALSE
