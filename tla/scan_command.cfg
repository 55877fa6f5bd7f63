SPECIFICATION FairSpec
CONSTANTS
    Unset = Unset
    BadValue = BadValue
    Defaults <- MCDefaults
    RuleOrder <- MCRuleOrder
    Worlds <- MCWorlds
INVARIANTS
    ScanCommandTypeOK
    SettingsAreLayered
    LowerSourcesDoNotDecide
    AgentHasItsKey
    StrictScansReportNoErrors
    WrittenReportsAreWhole
    RenderingsAgree
    RankingFollowsBuckets
PROPERTIES
    EveryCommandEnds
CHECK_DEADLOCK FALSE
