\* Two handlers, three files, room for two of them or for all, two services.
CONSTANTS
    Handlers = {h1, h2}
    Files = {a, b, c}
    NoFile = NoFile
    Nodes = {n1, n2, n3}
    Capacities = {2, 3}
    both = both
    getonly = getonly
    Services <- TwoServices
    Exports <- SomeExports
SPECIFICATION HostSpec
INVARIANTS
    HostTypeOK
    ServedWhenFits
    MapMatchesList
    ListSound
    OnlyWhileFilling
PROPERTY
    ImplementsLru
CHECK_DEADLOCK FALSE
