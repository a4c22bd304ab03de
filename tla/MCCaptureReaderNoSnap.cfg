SPECIFICATION Spec
CONSTANTS
    LinkTypes = {1, 101}
    SnapLengths = {0, 5}
    PacketLengths = {0, 1, 4, 8, 9}
    Totals = {0, 8, 12, 16, 20, 24, 28, 30, 32, 36, 40, 44, 52, 56}
    Lefts = {2, 6, 10, 15, 18, 25, 34, 60}
    MaxPacket = 8
    MaxInterfaces = 1
VIEW ReaderView
PROPERTIES SimplePacketsRead
CHECK_DEADLOCK FALSE
