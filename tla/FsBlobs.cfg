SPECIFICATION Spec
CONSTANTS
    p1 = p1
    p2 = p2
    p3 = p3
    c1 = c1
    c2 = c2
    m1 = m1
    m2 = m2
    t1 = t1
    t2 = t2
    s1 = s1
    s2 = s2
    u1 = u1
    u2 = u2
    Hole = Hole
    None = None
    Unlinked = Unlinked
    Proc = {p1, p2}
    Chunk = {c1, c2}
    Payload <- TwoPayloads
    Manifest = {}
    Tag = {}
    Stem <- NoStem
    Uuid = {u1, u2}
    MaxChunks = 2
    Exclusive = {"tmp", "session"}
    CrossFs = FALSE
    Failures = {"crash"}
SYMMETRY Perms
CHECK_DEADLOCK FALSE
INVARIANT TypeOK
INVARIANT ContentAddressed
PROPERTY Implements
