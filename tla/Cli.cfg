SPECIFICATION FairSpec
CONSTANTS
    First = a
    Second = b
    Servers = {a, b}
    TypeOf <- TwoTypes
    Clis = {p, q}
    Commands <- AllCommands
    MaxFaults = 1
INVARIANTS CountsPending DoneWhenTold
PROPERTIES EveryCommandAnswered
\* The tools and the servers end, and so does the system.
CHECK_DEADLOCK FALSE
