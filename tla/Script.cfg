\* One function, three statements, run twice with a variable set before each run.
SPECIFICATION Spec
CONSTANTS
    Programs <- AllPrograms
    MaxTurns = 6
    Given = {"x"}
    Numbers = {3}
    MaxRuns = 2
INVARIANTS ParsedToTheEnd StackEmptied MeansWhatItSays
CHECK_DEADLOCK FALSE
