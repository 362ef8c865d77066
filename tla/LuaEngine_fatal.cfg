SPECIFICATION Spec
CONSTANTS
    c1 = c1
    c2 = c2
    c3 = c3
    l1 = l1
    l2 = l2
    l3 = l3
    Nil = Nil
    Scripts = {"hooks", "extra"}
    Functions = {"before", "after"}
    ScriptOf <- MCScriptOf
    WalkedAfter <- MCAlone
    Defines <- MCDefines
    FunctionOf <- MCFunctionOf
    Calls = {c1, c2}
    Loads = {l1}
    FileLoads = {l1}
    BadArgs = {}
INVARIANTS
    SurvivesAbandonment
