SPECIFICATION ReflectionSpec
CONSTANTS
    acme = acme
    globex = globex
    ann = ann
    p1 = p1
    p2 = p2
    None = None
    NoText = ""
    Entities = {acme, globex}
    Users = {ann}
    Contents = {"", "cat"}
    Metas = {"plain"}
    Kept <- MCKept
    Ids = {1, 2}
    Times = {1}
    DefaultLimit = 100
    Callers <- MCCallers
    NewRecords = {}
    Queries <- MCQueries
    HookQueries <- MCHookQueries
    Data <- MCData
    MaxMemoriesToAnalyze = 1
    Procs = {p1, p2}
SYMMETRY Symmetry
INVARIANTS
    EncodesOnce
    RecordsAsAsked
PROPERTIES
    ReadsOwnWrites
