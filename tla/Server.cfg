SPECIFICATION Spec
CONSTANTS
    h1 = h1
    h2 = h2
    k1 = k1
    t1 = t1
    t2 = t2
    t3 = t3
    m1 = m1
    m2 = m2
    b1 = b1
    c1 = c1
    u1 = u1
    d1 = d1
    d2 = d2
    None = None
    Task = {h1, h2}
    Token = {k1}
    UserOf <- MCUser
    Namespace = {"a", "b"}
    DefaultNs = None
    Ttl = 2
    ReviewTimeout = 1
    AllowLoopback = TRUE
    Modes = {"none", "htpasswd", "k8s"}
    Accepted = {k1}
    Repo <- MCRepo
    Tag = {t1, t2, t3}
    Manifest = {m1, m2}
    SubjectOf <- MCSubject
    Chunk = {c1}
    Blob = {b1}
    Content <- MCContent
    Uuid = {u1}
    MaxChunks = 2
    Rank <- MCRank
    Decoded <- MCDecoded
    Root = {d1, d2}
    Pattern = {"*", "b/*"}
    Matches <- MCMatches
    Length <- MCLength
    Rules <- MCRules
    Disks <- MCDisks
    Request <- MCRequest
    MaxRequests <- MCMaxRequests
SYMMETRY Symmetry
CHECK_DEADLOCK FALSE
INVARIANT TypeOK
INVARIANT FreshVerdicts
INVARIANT Permitted
INVARIANT ListingExact
INVARIANT AckedVisible
