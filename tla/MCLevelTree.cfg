SPECIFICATION Spec
CONSTANTS
    Prices = {1, 2, 3, 4, 5, 6, 7, 8, 9, 10}
    Quoted <- MCQuoted
    MaxLevels = 9
    Spans = {1, 4, 10}
VIEW Shape
INVARIANTS PoolExact FindExact Balanced DepthExact
PROPERTIES LoopsEnd
