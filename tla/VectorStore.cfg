SPECIFICATION Spec
CONSTANTS
    acme = acme
    globex = globex
    ann = ann
    p1 = p1
    p2 = p2
    None = None
    Reused = Reused
    Entities = {acme, globex}
    Users = {ann}
    Contents = {"cat", "dog"}
    Metas = {"int", "float", "text", "claim"}
    Kept <- MCKept
    AsText <- MCAsText
    Claimed <- MCClaimed
    Ids = {1, 2}
    Times = {1, 2}
    DefaultLimit = 10
    Procs = {p1, p2}
    Callers <- MCCallers
    NewRecords <- MCNewRecords
    Embedded <- MCEmbedded
    EmbeddingOf <- MCEmbeddingOf
    Placeholder = 2
    Near = {4, None}
    Queries <- MCQueries
    ExactMatch <- MCExactMatch
    Maps <- MCMaps
SYMMETRY Symmetry
VIEW Unanswered
INVARIANTS
    NearestAnswered
    OwnEntityUnlessNamed
    AsTold
    EmbeddingsFit
PROPERTIES
    NoResurrection
