SPECIFICATION BundleSpec
CONSTANTS
    InvalidNames = {"../up"}
    SlashNames = {"added/"}
    Scenarios <- MCScenarios
INVARIANTS
    FinishedReadable
CHECK_DEADLOCK FALSE
