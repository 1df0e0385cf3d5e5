SPECIFICATION Spec
CONSTANTS
    Servers = {a, b}
    Clients = {b}
    Sessions = {s1, s2}
    Ids = {i1, i2}
    CacheSize = 1
    NULL = NULL
INVARIANTS RefsExact HashListAgree CacheBounded NegotiatedUnseen
SYMMETRY Symmetry
