SPECIFICATION Spec
CONSTANTS
    Friends = {anna, bob}
    EmptyId = EmptyId
INVARIANTS NeverEmptyPath
CHECK_DEADLOCK FALSE
