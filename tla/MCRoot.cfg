SPECIFICATION MCFairSpec
CONSTANTS
    Node = {n1, n2}
    Client = {c1, c2}
    Clock = {0, 2}
    Step = 2
    MaxBump = 3
    MaxLeaderChange = 2
INVARIANTS UniqueIds  
 
CHECK_DEADLOCK FALSE
