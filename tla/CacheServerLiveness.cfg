SPECIFICATION Spec
CONSTANTS
    Customer = {k1}
    NoCustomer = NoCustomer
    Email = {e1, e2}
    NoEmail = NoEmail
    ValidEmail = {e1, e2}
    Like <- LikeItself
    Request = {r1}
    NoList = NoList
    MinCacheTimeout = 1
    MaxCacheTimeout = 1
    MaxDbChanges = 1
    MaxFailures = 1
    MaxTasks = 2
PROPERTIES
    CacheConverges
    ScheduledUpdateHappens
CHECK_DEADLOCK FALSE
