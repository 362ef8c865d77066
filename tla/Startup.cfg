SPECIFICATION StartSpec
CONSTANTS
    p1 = p1
    p2 = p2
    good = good
    endless = endless
    NoOne = NoOne
    Procs = {p1, p2}
    Files <- MCFiles
    Environments <- MCEnvironments
    Dirs = {good, endless}
    Endless = {endless}
    DefaultDirs <- MCDefaultDirs
    DefaultFrequency = 10
INVARIANTS
    ServedAsConfigured
PROPERTIES
    StartEnds
    ScriptsDoNotRefuse
