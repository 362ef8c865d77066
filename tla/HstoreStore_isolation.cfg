SPECIFICATION Spec
CONSTANTS
    acme = acme
    globex = globex
    ann = ann
    bob = bob
    p1 = p1
    p2 = p2
    None = None
    Entities = {acme, globex}
    Users = {ann, bob}
    Contents = {"cat", "dog"}
    Metas = {"int", "digits", "text"}
    Kept <- MCKept
    Ids = {1, 2}
    Times = {1, 2}
    DefaultLimit = 100
    Callers <- MCCallers
    NewRecords <- MCNewRecords
    Queries <- MCQueries
    Procs = {p1, p2}
    ReadAs <- MCReadAs
PROPERTY EntityIsolation
