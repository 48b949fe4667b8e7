SPECIFICATION AnchorSpec
CONSTANTS
    StreamOrder <- MCStreamOrder
    Notes <- MCNotes
    ConsoleKey = "console"
    Scenarios <- MCScenarios
INVARIANTS
    HonestAnchorsCount
    EarliestBounds
    AnchoredEarned
CHECK_DEADLOCK FALSE
