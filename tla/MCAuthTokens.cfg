SPECIFICATION Spec
CONSTANTS
    Users = {u1}
    Agents = {web, bare}
    Roles = {subscriber, admin}
    InitialRoles = {subscriber}
    NoHeader = bare
    NoRow = NoRow
    Second = 2
    AccessLife = 4
    RefreshLife = 6
    MaxPairs = 3
    MaxNow = 4
INVARIANTS AuthTypeOK SupersededIsRefused
PROPERTIES RoleTakenEndsSessions
CHECK_DEADLOCK FALSE
