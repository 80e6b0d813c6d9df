SPECIFICATION Spec
CONSTANTS
    Users <- Two
    Letters = {l1, l2}
    NoUser = NoUser
INVARIANTS LettersReachTheFriend
CHECK_DEADLOCK FALSE
