\* One handler, two files, room for one: a file evicted and asked for again.
CONSTANTS
    Handlers = {h1}
    Files = {a, b}
    NoFile = NoFile
    Nodes = {n1, n2}
    Capacities = {1}
SPECIFICATION FCSpec
INVARIANT
    ServedIsRequested
CHECK_DEADLOCK FALSE
