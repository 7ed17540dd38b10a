SPECIFICATION Spec
CONSTANTS
    e1 = e1
    e2 = e2
    e3 = e3
    p1 = p1
    p2 = p2
    p3 = p3
    v = v
    Specs <- MCSpecs
    MaxEndpoints = 2
    MaxUnsynced = 2
SYMMETRY Symmetry
INVARIANT EnsureIsDurable
