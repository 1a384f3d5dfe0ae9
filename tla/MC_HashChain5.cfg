CONSTANTS
    Threads = {t1, t2}
    panama = panama
    whirlpool = whirlpool
    keccak512 = keccak512
    cubehash512 = cubehash512
    b0 = b0
    b1 = b1
    Junk = Junk
    Bytes = {b0, b1}
    Prims <- MCPrims
    Messages <- MCMessages
    K = 5
    Steps <- MCSteps
    DigestBytes <- MCDigestBytes
SPECIFICATION Spec
INVARIANTS TypeOK ChainLinked
PROPERTIES ImplementsChainSpec
