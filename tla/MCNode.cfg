SPECIFICATION MCFairSpec
CONSTANTS
    w1 = w1
    w2 = w2
    wi = wi
    ci = ci
    Req <- MCReq
    Key = {1, 2}
    KeysOf <- MCKeysOf
    Resolver <- MCResolver
    Signaller <- MCSignaller
INVARIANTS  ReplicasAreWhole WritesAreWhole 
 
CHECK_DEADLOCK FALSE
