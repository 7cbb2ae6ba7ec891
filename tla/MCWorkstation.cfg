SPECIFICATION WorkstationSpec
CONSTANTS
    Procs = {"p1", "p2"}
    Repos = {"r1", "r2"}
    Absent = Absent
    Torn = Torn
    Blank = Blank
    NoOne = NoOne
    Scenes <- MCScenarios
    MaxMinted = 4
    MaxCommands = 3
    Attempts = {a1}
    Agents = {s1, s2}
SYMMETRY MCSymmetry
INVARIANTS
    HomeIsCoherent
    ConnectorStopsFirst
    
    BlockedIsSurfaced
CHECK_DEADLOCK FALSE
