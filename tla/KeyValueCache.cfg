\* Keys that share a bucket which grows; a page that a few values fill.
SPECIFICATION Spec
CONSTANTS
    Keys = {a, b}
    Crowded = {a, b}
    LongKeys = {b}
    Strings = {s, long}
    LongStrings = {long}
    Numbers = {n}
    ElementSize = 1
    ResizeQuantity = 2
    PageSize = 9
    MaxKeys = 2
    MaxSwaps = 2
    NoKey = NoKey
INVARIANTS AnswersTrue
PROPERTIES PutAnswered SwapLosesOnly
CHECK_DEADLOCK FALSE
