SPECIFICATION Spec
CONSTANTS
    Calls = {c1, c2, c3}
    FailureThreshold = 2
    SuccessThreshold = 2
    HalfOpenMax = 2
    Ips = {i1, i2}
    Sockets = {s1, s2, s3, s4}
    i1 = i1
    i2 = i2
    s1 = s1
    s2 = s2
    s3 = s3
    s4 = s4
    IpOf <- MCIpOf
    MaxPerIp = 2
    MaxTotal = 2
    Tenants = {t1, t2}
    Conns = {k1, k2, k3}
    NoTenant = NoTenant
    DefaultTenant = t1
    Unlimited = Unlimited
    Limits <- MCLimits
    Domains = {d1, d2, d3}
    d1 = d1
    d2 = d2
    MaxSize = 2
    Ttl = 2
    Prewarm <- MCPrewarm
INVARIANTS
    TypeOK
    SlotsBalance
    RecoveryEarned
    CountsBalance
    LruContract
