SPECIFICATION MCSpec
CONSTANTS
    SrcReplica = {s1, s2}
    DstReplica = {d1, d2}
    NKey = 2
    Request = {put, commit}
    put = put
    commit = commit
    KeyOf <- MCKeyOf
    Kind <- MCKind
    Row0 <- MCRow0
    Base = Base
    Root = {r1, r2}
    JobGroup = {g1, g2}
    Intent = Intent
    None = None
    MaxMove = 2
    MaxFault = 2
    Calm = TRUE
INVARIANTS RowsAreKept OneOwner SourceHasDest JobsAreSound
CHECK_DEADLOCK FALSE
SYMMETRY MCSymmetry
