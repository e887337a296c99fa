SPECIFICATION Spec
CONSTANTS
    p1 = p1
    p2 = p2
    r1 = r1
    b1 = b1
    b2 = b2
    b3 = b3
    b4 = b4
    b5 = b5
    v1 = v1
    a1 = a1
    a2 = a2
    None = None
    Proc = {p1, p2}
    Repo = {r1}
    Limit <- OneByte
    Blob = {b1, b2, b3, b4, b5}
    Size <- UnitSize
    Volume = {v1}
    Addr = {a1, a2}
    FirstVolume = v1
    FirstAddr = a1
    MaxUpsets = 1
SYMMETRY Perms
INVARIANT TypeOK
INVARIANT SequentialHonest
INVARIANT UsageBounded
