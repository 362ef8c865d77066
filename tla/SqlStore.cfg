SPECIFICATION Spec
CONSTANTS
    acme = acme
    globex = globex
    ann = ann
    bob = bob
    None = None
    Entities = {acme, globex}
    Users = {ann, bob}
    Contents = {"cat", "dog"}
    Metas = {"int", "float", "text"}
    Kept <- MCKept
    Ids = {1, 2}
    Times = {1, 2}
    DefaultLimit = 100
    Callers <- MCCallers
    NewRecords <- MCNewRecords
    Queries <- MCQueries
INVARIANTS
    AnswersRight
PROPERTIES
    EntityIsolation
    NothingOverwritten
    WritesImplementLTMStore
