SPECIFICATION MCFairSpec
CONSTANTS
    Parts = {"scan", "route", "root", "etcd"}
    MaxByte = 2
    GroupLen = 2
    IntentVersion = 9
    MaxRetries = 1
    Scenarios <- MCScenarios
INVARIANTS  RoutesAreTrue EtcdIsTrue
PROPERTIES RoutesNeverGoBack 
CHECK_DEADLOCK FALSE
