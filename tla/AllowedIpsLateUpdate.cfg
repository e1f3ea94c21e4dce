SPECIFICATION SafeSpec
CONSTANTS
    HostsCount = 1
    Ip = {ip1, ip2}
    NoIp = NoIp
    Client = {c1}
    Worker = Worker
    MaxTries = 2
    MaxDnsChanges = 0
    MaxThrows = 0
PROPERTIES
    UpdateIsUsed
