\* One request, and what the documentation says of names that resolve badly.
CONSTANTS
    None = None
    NoRule = NoRule
    NoLimit = NoLimit
    DefaultLimit = 1
    CacheCap = 1
    Labels <- MCLabels
    Addresses = {"public", "private", "backup"}
    Requests = {r1}
    Asks <- MCAsks
    Content <- MCContent
    Configs <- MCConfigs
    Answers <- MCAnswers
SPECIFICATION Spec
PROPERTIES
    RebindingBlocked
