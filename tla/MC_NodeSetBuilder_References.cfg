CONSTANTS
    r = r
    a = a
    b = b
    c = c
    d = d
    Nodes <- MCNodes
    Root <- r
    Refs <- MCRefs
    NodeClassOf <- MCNodeClassOf
    ReactorThreads = 2

SPECIFICATION NodeSetSpec

INVARIANT ReferencesRecorded


\* run() returns and the builder stops.
CHECK_DEADLOCK FALSE
