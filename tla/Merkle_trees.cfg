SPECIFICATION MerkleSpec
CONSTANTS
    LeafBytes <- MCLeafBytes
    MaxLeaves = 9
    MaxClaimed = 4
    MaxSteps = 2
INVARIANTS
    HonestProofs
    InclusionSound
    RootsInjective
CHECK_DEADLOCK FALSE
