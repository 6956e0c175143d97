\* Two frames, of them a selection or two, in a queue of one while connections are made,
\* lost, abandoned and made again, with one fault: a break, an overlapping send, a timeout
\* or a restart of either side.
CONSTANTS
    None = None
    Other = Other
    Conns = {1, 2}
    MaxQueued = 1
    MaxFrames = 2
    MaxTasks = 1
    MaxFaults = 1
SPECIFICATION Spec
INVARIANTS
    AgreedUnlessAstray
    NeverFalselyConnected
PROPERTIES
    Reconnects
    QueueDrains
