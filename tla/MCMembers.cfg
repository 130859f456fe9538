SPECIFICATION MCSpec
CONSTANTS
    Replica = {1, 2, 3}
    InitVoters <- MCInitVoters
    Required = 3
    MaxLog = 4
    MaxElections = 1
    MaxRestores = 1
    RestoreInJoint = FALSE
INVARIANTS QuorumsOverlap  TasksKeepApart
PROPERTY VotersAreKept
CHECK_DEADLOCK FALSE
