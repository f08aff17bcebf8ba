\* Two users publish and discover two organisations, with a crash or a wrong
\* answer of the storage gateway.
CONSTANTS
    t1 = t1
    t2 = t2
    name1 = name1
    name2 = name2
    key1 = key1
    key2 = key2
    o1 = o1
    o2 = o2
    s1 = s1
    m1 = m1
    Threads <- TwoThreads
    Names <- TwoNames
    Keys <- TwoKeys
    Bytes32 <- FirstBytes
    OrgMetas <- TwoOrgMetas
    OrgID <- Named
    Services <- OneService
    SrvMetas <- OneSrvMeta
    None = None
    NoHash = NoHash
    MaxOps = 4
    MaxFaults = 1
SYMMETRY Sym
SPECIFICATION Spec
INVARIANTS TypeOK PublishedReadable ActsOnAsked
CHECK_DEADLOCK FALSE
