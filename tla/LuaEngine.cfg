SPECIFICATION Spec
CONSTANTS
    c1 = c1
    c2 = c2
    c3 = c3
    l1 = l1
    l2 = l2
    l3 = l3
    Nil = Nil
    Calls = {c1, c2, c3}
    Loads = {l1, l2}
    FileLoads = {l1, l2}
    Scripts = {"hooks", "extra"}
    Functions = {"before", "after"}
    ScriptOf <- MCScriptOf
    WalkedAfter <- MCAlone
    Defines <- MCDefines
    FunctionOf <- MCFunctionOf
    BadArgs = {c3}
INVARIANTS
    TypeOK
    LiveUsersExclusive
    CrashOnlyAfterAbandonment
    CleanupOwnsMutex
    AbandonedNeverEnds
    AnswerIsOwn
    ScriptSeesOwnContext
    FileLoadedOnce
PROPERTIES
    CloseWaits
SYMMETRY Symmetry
