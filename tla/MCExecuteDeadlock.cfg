SPECIFICATION FairSpec
CONSTANTS
    Txn = {t1, t2}
    Meta = {m1}
    NoTxn = NoTxn
    MaxCancel = 0
PROPERTY RequestsAnswered
CHECK_DEADLOCK FALSE
