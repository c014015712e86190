CONSTANTS
    Tasks = {a, b}
    Panes = {x, y}
    Streams = {s1, s2}
    NoPane = NoPane
    Torn = Torn
    NoStream = NoStream
    NoTask = NoTask
    MaxStatus = 1
    MaxMeta = 1
    MaxFaults = 1
SPECIFICATION MCSpec
CHECK_DEADLOCK FALSE
INVARIANTS
    ConnectedIsCovered
PROPERTIES
    LevelNeverOverridesEdge
    EdgesFollowTheRoute
    EveryPaneSettles
