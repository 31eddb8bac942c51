CONSTANTS
    Names = {"a", "b"}
    Skus = {"a", "b"}
    Lower <- LowerCase
    Prices = {1, 2}
    InitialProducts <- OnlyA
    Absent = Absent
    Imports = {"first", "second"}
    File <- Opposite
    EmptyRow = EmptyRow
    NamelessRow = NamelessRow
    SkulessRow = SkulessRow
    Invalid <- SecondInvalid
    Pathless <- FirstPathless
    Flagged <- ThirdFlagged
    Filters <- SecondFiltered
    ChunkSize = 2
    Workers = {w1, w2}
    Admins = {a}
    MaxAsked = 2
    MayDie = TRUE
    None = None

SPECIFICATION FairSpec
INVARIANTS TypeOK RunsAlone OutcomesAddUp
PROPERTIES VisibleWithOutcome RunsEnd
CHECK_DEADLOCK FALSE
