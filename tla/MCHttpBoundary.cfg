SPECIFICATION HSpec
CONSTANTS
    Workers = {w1, w2}
    CallerIds = {u1}
    Minted = {m1, m2, m3}
    NoId = NoId
    Limit = 1
    Sizes = {0, 1, 2}
    NoLength = NoLength
SYMMETRY Interchangeable
INVARIANTS
    HTypeOK
    BodyBounded
    OnlyOversizeRefused
    OneIdPerRequest
PROPERTIES
    NoIdReused
