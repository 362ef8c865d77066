SPECIFICATION LoadsEndSpec
CONSTANTS
    c1 = c1
    c2 = c2
    c3 = c3
    l1 = l1
    l2 = l2
    l3 = l3
    Nil = Nil
    Scripts = {"hooks", "extra"}
    Functions = {"before", "after"}
    ScriptOf <- MCScriptOf
    WalkedAfter <- MCWalk
    Defines <- MCDefines
    FunctionOf <- MCFunctionOf
    Calls = {c1, c3}
    Loads = {l1, l3}
    FileLoads = {l1, l3}
    BadArgs = {}
PROPERTIES
    CallersReturn
