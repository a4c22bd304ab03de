SPECIFICATION MainSpec
CONSTANTS
    Sessions = {"A", "B"}
    Sequences_ = {1, 2, 3, 4}
    Lengths = {0, 1, 2}
    MaxCount = 2
    MaxBody = 7
    Wrap = 6
    MaxLog = 6
    Parse <- MCParse
VIEW MainView
INVARIANTS ExitZeroMeansWhole BookGetsPrefix NeverTwice NoSilentLoss
PROPERTIES GapHoldsBook Transactional
CHECK_DEADLOCK FALSE
