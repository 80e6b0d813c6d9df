SPECIFICATION Spec
CONSTANTS
    anna = anna
    bob = bob
    Users = {anna, bob}
    AppleUsers = {bob}
    TaskIds = {t1, t2}
    LastDay = 2
    Ranks = {1}
    MaxOutbox = 2
    Roles <- FriendRoles
    NoTask = NoTask
    NoUser = NoUser
CONSTRAINT FirstTaskFirst
INVARIANTS FriendsSound LatestSound
PROPERTIES LatestReachesUserDoc
CHECK_DEADLOCK FALSE
