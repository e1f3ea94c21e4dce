SPECIFICATION Spec
CONSTANTS
    HostsCount = 2
    Ip = {ip1, ip2}
    NoIp = NoIp
    Client = {c1}
    Worker = Worker
    MaxTries = 1
    MaxDnsChanges = 1
    MaxThrows = 1
INVARIANTS
    TypeOK
    OneUpdateAtATime
    HostIsAuthorized
PROPERTIES
    EveryClientIsAnswered
    ChecksComeToAnEnd
    NewAddressIsNoticed
