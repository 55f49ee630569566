SPECIFICATION Spec
CONSTANTS
    c1 = c1
    c2 = c2
    s1 = s1
    s2 = s2
    Configs <- MCConfigs
    Valid = {c1, c2}
    Options = {}
    Services <- MCServices
    Svc <- MCSvc
    Rounds <- MCRounds
    ResumeFlags <- MCFlags
    MaxGrants = 1
    NoCfg = NoCfg
    NoOptions = NoOptions
    NoService = NoService
INVARIANTS
    RoundsOfOneConfig
