\* Two requests of any kind, two configurations reloaded at any time.
CONSTANTS
    None = None
    NoRule = NoRule
    NoLimit = NoLimit
    DefaultLimit = 1
    CacheCap = 1
    Labels <- MCLabels
    Addresses = {"public", "private", "backup"}
    Requests = {r1, r2}
    Asks <- MCAsks
    Content <- MCContent
    Configs <- MCConfigs
    Answers <- MCAnswers
SPECIFICATION FairSpec
INVARIANTS
    TypeOK
    ClientQuota
PROPERTIES
    RequestSettles
    ImplementsPolicy
