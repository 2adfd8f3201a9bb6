CONSTANTS
    Checked = {"schema_drift"}
    Grants = {"all"}
    Absent = Absent
    NONE = NONE
    k1 = k1
    k2 = k2
    r1 = r1
    r2 = r2
    r3 = r3
    settled = settled
    recent = recent
    c1 = c1
    c2 = c2
    _synced = _synced
    id = id
    amount = amount
    Rows <- MCRows
    MaxWrites <- MCMaxWrites
    Pinned = {"source"}
    MaxTime = 2
    MaxLag = 1
    WarnLag = 0
    Column = "auto"
    Candidates <- MCCandidates
    Engine <- MCEngine
    Stamped <- MCStamped
    RowContents = {settled, recent}
    Matching = {settled}
    Tolerance = 40
    Columns = {c1, c2}
    MaxDiff = 40
    Types = {"number", "truth"}
    Spelling <- MCDialects
    Ignored = {_synced}
    OptionSets <- MCOptionSets
    Null = Null
    NaN = NaN
    Word = Word
    Naive = Naive
    Nums = {0, 1, 2, 10, 11, 12}
    One = 10
    Times = {8, 10}
    Zone <- Offsets
    AbsTol = 1
    RelDen = 10
    Pairings <- PlainPairs
SPECIFICATION Spec
SYMMETRY Symmetry
CHECK_DEADLOCK FALSE
INVARIANTS
    NoDialectNoise
