SPECIFICATION Spec
CONSTANTS
    g1 = g1
    g2 = g2
    acme = acme
    globex = globex
    Nobody = Nobody
    Callers = {g1, g2}
    Entities = {acme, globex}
    Frequency = 2
    Enabled = TRUE
    HistoryLimit = 3
    MaxInFlight = 2
    MaxRequests <- MCMaxRequests
SYMMETRY Symmetry
INVARIANT HistoryIsolated
