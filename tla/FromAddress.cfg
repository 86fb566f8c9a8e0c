SPECIFICATION Spec
CONSTANTS
    None = None
    Refused = Refused
    Malformed = Malformed
    me = me
    team = team
    alias = alias
    other = other
    RoleAddresses = {team}
    Addresses = {me, team, alias, other}
    Ids = {1, 2}
    Inputs <- MCInputs
INVARIANTS FromIsEntitled OrderIrrelevant IdentityFits
CHECK_DEADLOCK FALSE
