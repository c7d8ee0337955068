CONSTANTS
    c1 = c1
    c2 = c2
    i1 = i1
    r1 = r1
    Changes = {c1, c2}
    Instances = {i1}
    Readers = {r1}
    Nothing = Nothing
    MaxVersion = 2
    MaxFaults = 2

SPECIFICATION Spec

INVARIANTS
    TypeOK
    ToldIsSeen

PROPERTIES EventuallyFresh
