SPECIFICATION FairSpec
CONSTANTS
    r1 = r1
    r2 = r2
    t1 = t1
    m1 = m1
    m2 = m2
    b1 = b1
    b2 = b2
    v1 = v1
    v2 = v2
    c1 = c1
    c2 = c2
    None = None
    Repo = {r1, r2}
    Class = {r1}
    Hidden = {}
    Tag = {t1}
    Manifest = {m1}
    Blob = {b1}
    Refs <- SharedLayer
    Volume = {v1, v2}
    Origin = v1
    Target = {v2}
    Drains = {TRUE}
    Client = {c1}
    Ops = {"push", "delete", "abandon"}
    Paused = FALSE
    MaxRuns = 1
    MaxFails = 1
    MaxRestarts = 0
CHECK_DEADLOCK FALSE
INVARIANT TypeOK
INVARIANT ImagesKept
INVARIANT DrainReclaims
PROPERTY MigrationEnds
