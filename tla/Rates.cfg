SPECIFICATION Spec
CONSTANTS
    lo = lo
    eth0 = eth0
    eth1 = eth1
    sda = sda
    sdb = sdb
    Interface = {lo, eth0, eth1}
    Loopback = lo
    Device = {sda, sdb}
    MaxCount = 2
    MaxEpoch = 2
    None = None
INVARIANTS TypeOK NetworkWithinTraffic BlkioWithinTraffic RateExact
