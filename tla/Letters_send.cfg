SPECIFICATION Spec
CONSTANTS
    Users <- Two
    Letters = {l1, l2}
    NoUser = NoUser
INVARIANTS LettersSound
PROPERTIES LettersArrive
CHECK_DEADLOCK FALSE
