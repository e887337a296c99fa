SPECIFICATION FairSpec
CONSTANTS
    p1 = p1
    p2 = p2
    b = b
    im = im
    ix = ix
    t = t
    loop = loop
    admin = admin
    None = None
    Partition = {p1, p2}
    Primary = p1
    Blob = {b}
    Manifest = {im, ix}
    Tag = {t}
    BlobsOf <- MCBlobsOf
    ChildrenOf <- MCChildrenOf
    Runner = {loop, admin}
    Globs <- MCGlobs
    Unfiltered = {loop}
    MaxCalls = 3
    MaxFails = 1
CHECK_DEADLOCK FALSE
INVARIANT TypeOK
INVARIANT ReplicaComplete
INVARIANT DeletedGone
PROPERTY Converges
