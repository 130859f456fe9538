SPECIFICATION MCSpec
CONSTANTS
    Parts = {"txn", "pair"}
    t1 = t1  t2 = t2  t3 = t3  r1 = r1  r2 = r2  k1 = k1  k2 = k2
    Txn = {t1, t2, t3}
    Reader = {}
    Key = {k1}
    Version = {1, 2, 3, 4, 5, 6}
    Write <- Mixed
    Payload <- MixedValues
    Wrap = 3
    Tombstone = Tombstone
    Absent = Absent
    Nop = Nop
    NoTxn = NoTxn
    NoReq = NoReq
    MaxLeaderChange = 0
INVARIANTS WritesChained FirstCommitterWins
PROPERTY PairIsolation
CHECK_DEADLOCK FALSE
