SPECIFICATION Spec
CONSTANTS
    Devices = {d1, d2}
    GroupIds = {g1}
    Taps = {t1, t2}
    LimitInputs <- Limits
    Ids <- ShippedIds
    UserId <- ShippedUserId
    NoGroup = NoGroup
INVARIANTS GroupsSound
PROPERTIES TermsKept AnnouncedJoinsArrive ImplementsMembership
CHECK_DEADLOCK FALSE
