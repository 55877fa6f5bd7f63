SPECIFICATION Spec
CONSTANTS
    Unset = Unset
    BadValue = BadValue
    Defaults <- MCDefaults
    RuleOrder <- MCRuleOrder
    Worlds <- MCWorlds
INVARIANT
    ConfiguredSarifPathIsUsed
CHECK_DEADLOCK FALSE
