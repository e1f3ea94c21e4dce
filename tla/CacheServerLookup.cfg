SPECIFICATION SafeSpec
CONSTANTS
    Customer = {k1}
    NoCustomer = NoCustomer
    Email = {e1}
    NoEmail = NoEmail
    ValidEmail = {e1}
    Like <- LikeItself
    Request = {r1}
    NoList = NoList
    MinCacheTimeout = 1
    MaxCacheTimeout = 1
    MaxDbChanges = 0
    MaxFailures = 0
    MaxTasks = 2
PROPERTIES
    CachedEmailIsAnswered
CHECK_DEADLOCK FALSE
