CONSTANTS
    keccak512 = keccak512
    cubehash512 = cubehash512
    panama = panama
    whirlpool = whirlpool
    z_keccak = z_keccak
    z_cubehash = z_cubehash
    z_panama = z_panama
    z_whirlpool = z_whirlpool
    Prims <- MCPrims
    Objects <- MCObjects
    Fillz <- MCFillz
    ZSource <- MCZSource
    Warmers = {w1}
    NFields = 1
    ClearFirst = TRUE
    Threads = {t1}
    Bytes = {b0}
    MaxData = 1
    t1 = t1
    b0 = b0
SPECIFICATION Spec
INVARIANT CacheEquivalence
PROPERTY ImplementsZeroSpec
