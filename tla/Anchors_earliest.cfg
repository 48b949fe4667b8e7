SPECIFICATION AnchorSpec
CONSTANTS
    StreamOrder <- MCStreamOrder
    Notes <- MCNotes
    ConsoleKey = "console"
    Scenarios <- MCScenarios
INVARIANTS
    EarliestCovers
CHECK_DEADLOCK FALSE
