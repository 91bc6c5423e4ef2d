CONSTANTS
    Parts = {"verifier"}
    Null = Null
    Keys = {1, 2, 3}
    Hash <- CacheHash
    Ints = {1, 2}
    Nums = {7}
    Texts = {"s"}
    Blobs = {"b"}
    TblCap = 1
    VecCap = 1
    MapCap = 2
    RegionCap = 16
    ImageCap = 8
    MaxUsed = 26
    MaxIds = 2
    MaxFields = 2
    CacheCap = 4
    IntMax = 7
    Vars = {"x", "y"}
    Coeffs <- FmCoeffs
    Consts <- FmConsts
    MaxAtoms = 3
    SharedSlices = {"i64", "str", "vec"}
    MaxStmts = 3
    Holes = {"loops"}
    WorldIds = {1, 2}
    LocalNames = {1, 2}
    Tasks = {1, 2, 3}
    ChanCap = 2
    Setups <- PSetups
    MaxShares = 2
    WorldHoles = {}

SPECIFICATION Spec
\* A world that was freed stays freed.
CHECK_DEADLOCK FALSE

INVARIANT VerdictTrue
