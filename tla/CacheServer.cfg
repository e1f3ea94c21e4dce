SPECIFICATION SafeSpec
CONSTANTS
    Customer = {k1, k2}
    NoCustomer = NoCustomer
    Email = {e1}
    NoEmail = NoEmail
    ValidEmail = {e1}
    Like <- LikeItself
    Request = {r1, r2}
    NoList = NoList
    MinCacheTimeout = 1
    MaxCacheTimeout = 1
    MaxDbChanges = 2
    MaxFailures = 1
    MaxTasks = 2
SYMMETRY Symmetry
INVARIANTS
    TypeOK
    IdleWorkerHoldsNothing
PROPERTIES
    ImplementsLaggingReplica
    DuplicateTasksAreSkipped
CHECK_DEADLOCK FALSE
