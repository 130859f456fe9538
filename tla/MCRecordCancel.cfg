SPECIFICATION MCSpec
CONSTANTS
    b1 = b1  b2 = b2  c1 = c1  c2 = c2  a1 = a1  a2 = a2
    Req = {b1, b2, c1, c2, a1, a2}
    Op <- Ops
    NoReq = NoReq
    MaxCancel = 2
    Txn = {t1, t2}
    Meta = {m1, m2}
    NoTxn = NoTxn
CHECK_DEADLOCK FALSE
PROPERTY OutcomeFinal
