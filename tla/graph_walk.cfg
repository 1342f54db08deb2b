SPECIFICATION Spec
CONSTANTS
    c = c
    a = a
    b = b
    d = d
    e = e
    Objects = {c, a, b, d, e}
    Centre = c
    LinksOf <- Narrow
    MemberLimit = 1
    CountLimit = 3
INVARIANTS TypeOK DrawnAsTree ShortestWhenShut
SYMMETRY Alike
CHECK_DEADLOCK FALSE
