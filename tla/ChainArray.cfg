\* A list of at most three values.
SPECIFICATION Spec
CONSTANTS
    Capacity = 3
    NoValue = NoValue
    Values = {u, v}
INVARIANT OneList
PROPERTIES ImplementsList WalkComplete
