SPECIFICATION FairSpec
CONSTANTS
    Keys = {k1, k2, k3}
    Workers = {w1, w2}
    MaxRetries = 1
    ForgetAfterSuccess = TRUE
    NoKey = NoKey
INVARIANTS NoConcurrentReconcile QueueIsPendingWork FailedKeyIsRetried
PROPERTIES ImplementsScheduler EveryAddIsReconciled ShutDownCompletes
