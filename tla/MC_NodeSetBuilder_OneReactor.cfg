CONSTANTS
    r = r
    a = a
    b = b
    c = c
    d = d
    Nodes <- MCNodes
    Root <- r
    Refs <- MCRefs
    NodeClassOf <- MCNodeClassOf
    ReactorThreads = 1

SPECIFICATION NodeSetSpec

PROPERTY RunTerminates

\* run() returns and the builder stops, or it hangs: the stop is checked
\* by the temporal property.
CHECK_DEADLOCK FALSE
