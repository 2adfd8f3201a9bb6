CONSTANTS
    c1 = c1
    o1 = o1
    o2 = o2
    t1 = t1
    t2 = t2
    Names = {c1}
    OptNames = {o1, o2}
    OptVals <- MCOptVals
    Templates = {t1, t2}
    Unset = Unset
    Off = Off
    Silent = Silent
    NoTemplate = NoTemplate
    Configs <- MCConfigs
SPECIFICATION Spec
CHECK_DEADLOCK FALSE
INVARIANTS
    TypeOK
    LaterRulesWin
    RunsUnlessDisabled
    LastRenameWins
