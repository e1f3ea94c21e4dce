SPECIFICATION SafeSpec
CONSTANTS
    Customer = {k1, k2}
    NoCustomer = NoCustomer
    Email = {e1, e2}
    NoEmail = NoEmail
    ValidEmail = {e1, e2}
    Like <- LikeWildcard
    Request = {r1}
    NoList = NoList
    MinCacheTimeout = 1
    MaxCacheTimeout = 2
    MaxDbChanges = 0
    MaxFailures = 0
    MaxTasks = 2
PROPERTIES
    CustomerIsTheContacts
CHECK_DEADLOCK FALSE
