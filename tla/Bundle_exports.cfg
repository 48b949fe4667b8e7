SPECIFICATION BundleSpec
CONSTANTS
    InvalidNames = {"../up"}
    SlashNames = {"added/"}
    Scenarios <- MCScenarios
INVARIANTS
    WriterTypeOK
    CanonicalOrder
    RoundTrip
    EditsReported
CHECK_DEADLOCK FALSE
