SPECIFICATION Spec
CONSTANTS
    Key = {k1}
    Addr = {a1, a2}
    TcpSession = {t1, t2}
    UdpSession = {u1}
    None = None
    Ttl = 2
    Interval = 2
    MaxDelay = 1
    MaxTime = 5
INVARIANTS Fresh ExpiredIsPurged
PROPERTIES RepeatsSkipResolution
