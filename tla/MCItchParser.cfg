SPECIFICATION Spec
CONSTANTS
    OtherTypes = {"Z"}
    MaxLength = 52
INVARIANTS ReadsExact GeneratedMessagesParse
CHECK_DEADLOCK FALSE
