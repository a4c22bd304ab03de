SPECIFICATION Spec
CONSTANTS
    OtherTypes = {"Z"}
    MaxLength = 52
INVARIANTS HaltReadToItsEnd
CHECK_DEADLOCK FALSE
