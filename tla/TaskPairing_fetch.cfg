SPECIFICATION Spec
CONSTANTS
    anna = anna
    bob = bob
    Users = {anna, bob}
    AppleUsers = {}
    TaskIds = {t1}
    LastDay = 4
    Ranks = {1}
    MaxOutbox = 2
    Roles <- FetchRoles
    NoTask = NoTask
    NoUser = NoUser
INVARIANTS NotOnItsOwnDay RepliesSound
PROPERTIES ExpiredForever
CHECK_DEADLOCK FALSE
