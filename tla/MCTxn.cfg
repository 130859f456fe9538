SPECIFICATION MCSpec
CONSTANTS
    Parts = {"txn"}
    t1 = t1  t2 = t2  t3 = t3  r1 = r1  r2 = r2  k1 = k1  k2 = k2
    Txn = {t1, t2}
    Reader = {r1}
    Key = {k1}
    Version = {1, 2, 3, 4, 5}
    Write <- Puts
    Payload <- PutValues
    Wrap = 2
    Tombstone = Tombstone
    Absent = Absent
    Nop = Nop
    NoTxn = NoTxn
    NoReq = NoReq
    MaxLeaderChange = 1
INVARIANTS IInv 
PROPERTIES OutcomeStable 
CHECK_DEADLOCK FALSE
