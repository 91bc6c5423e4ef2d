CONSTANTS
    Parts = {"cache", "region", "containers", "ownership", "fm", "symbolic", "verifier", "waitfor", "worlds", "bits"}
    Null = Null
    Keys = {1, 2, 3}
    Hash <- CacheHash
    Ints = {0}
    Nums = {7}
    Texts = {"s"}
    Blobs = {"b"}
    TblCap = 1
    VecCap = 1
    MapCap = 2
    RegionCap = 16
    ImageCap = 8
    MaxUsed = 29
    MaxIds = 2
    MaxFields = 2
    CacheCap = 2
    IntMax = 7
    Vars = {"x", "y"}
    Coeffs <- FmCoeffs
    Consts <- FmConsts
    MaxAtoms = 3
    SharedSlices = {"i64", "str", "vec"}
    MaxStmts = 3
    Holes = {}
    WorldIds = {1, 2}
    LocalNames = {1, 2}
    Tasks = {1, 2, 3}
    ChanCap = 2
    Setups <- PSetups
    MaxShares = 2
    WorldHoles = {}

SPECIFICATION Spec
\* A function returns, a proof is found or given up, a world that was freed stays freed.
CHECK_DEADLOCK FALSE
INVARIANT CacheSound
INVARIANT RegionFaithful
INVARIANT BlocksExact
INVARIANT BackendsAgree
INVARIANT NoDangling
INVARIANT Balanced
INVARIANT FmSound
INVARIANT SymbolicTrue
INVARIANT VerdictTrue
INVARIANT WaitForTrue
INVARIANT WorldsSafe
INVARIANT BitsTrue
