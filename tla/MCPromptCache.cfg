SPECIFICATION Spec
CONSTANTS
    a = a
    b = b
    c = c
    d = d
    e = e
    None = None
    Threads = {t1, t2}
    PrefixIds = {a, b, c, d, e}
    Size <- MCSize
    Limit = 3
    Nodes = {n1, n2, n3, n4, n5}
SYMMETRY Symmetry
INVARIANTS
    ListMatchesMap
    SizeAgrees
PROPERTIES
    NodesStay
    ImplementsLru
