\* Two threads calling two KEMs through the OQS random adapter, with plugin
\* reloads and DRBG addresses reused after free.
CONSTANTS
    t1 = t1
    t2 = t2
    k1 = k1
    k2 = k2
    d1 = d1
    d2 = d2
    d3 = d3
    NULL = NULL
    Threads <- TwoThreads
    Kems <- TwoKems
    Drbgs <- ThreeAddresses
SPECIFICATION Spec
PROPERTY DrawsOwnDrbg
