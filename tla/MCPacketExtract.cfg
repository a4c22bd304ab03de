SPECIFICATION ExtractSpec
CONSTANTS
    MaxTags = 2
    HeaderWords = {4, 5, 6}
    TotalLengths = {19, 27, 28, 31, 33}
    UdpLengths = {7, 8, 11, 13}
    Sizes = {0, 13, 14, 17, 18, 21, 27, 28, 31, 33, 41, 42, 47, 49, 55, 60}
    Ports = {7}
    FilterPorts = {0, 8}
    SizeRange = 1073741824
INVARIANTS PayloadExact ReadsInPacket
CHECK_DEADLOCK FALSE
