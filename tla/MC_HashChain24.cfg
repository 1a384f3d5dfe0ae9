CONSTANTS
    Threads = {t1}
    whirlpool1 = whirlpool1
    bmw = bmw
    groestl = groestl
    echo = echo
    hamsi = hamsi
    fugue = fugue
    shabal = shabal
    jh = jh
    keccak = keccak
    skein = skein
    luffa = luffa
    tiger = tiger
    cubehash = cubehash
    panama = panama
    sha512 = sha512
    shavite = shavite
    simd = simd
    blake = blake
    ripemd160 = ripemd160
    haval256_5 = haval256_5
    lowcube = lowcube
    tiger2 = tiger2
    whirlpool = whirlpool
    b0 = b0
    b1 = b1
    Junk = Junk
    Bytes = {b0, b1}
    Prims <- MCPrims
    Messages <- MCMessages
    K = 24
    Steps <- MCSteps
    DigestBytes <- MCDigestBytes
SPECIFICATION Spec
INVARIANTS ChainLinked
PROPERTIES ImplementsChainSpec
