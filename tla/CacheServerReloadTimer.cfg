SPECIFICATION SafeSpec
CONSTANTS
    Customer = {k1, k2}
    NoCustomer = NoCustomer
    Email = {e1}
    NoEmail = NoEmail
    ValidEmail = {e1}
    Like <- LikeItself
    Request = {r1}
    NoList = NoList
    MinCacheTimeout = 1
    MaxCacheTimeout = 2
    MaxDbChanges = 1
    MaxFailures = 0
    MaxTasks = 2
PROPERTIES
    ReloadedCacheIsNotDue
CHECK_DEADLOCK FALSE
