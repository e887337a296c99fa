SPECIFICATION FairSpec
CONSTANTS
    r1 = r1
    r2 = r2
    m1 = m1
    m2 = m2
    b1 = b1
    b2 = b2
    x1 = x1
    x2 = x2
    c1 = c1
    None = None
    Repo = {r1, r2}
    Hidden = {}
    Manifest = {m1, m2}
    Blob = {b1, b2}
    Refs <- SharedLayer
    Backend = {x1, x2}
    Home <- Routed
    Fallback = x1
    Client = {c1}
    MaxAborts = 1
INVARIANT TypeOK
INVARIANT SteadyKept
INVARIANT QuietRunCollects
PROPERTY RepeatedRunsCollect
