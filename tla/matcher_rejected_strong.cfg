SPECIFICATION Spec
CONSTANTS
    Keypoints <- MCKeypoints
    Fits <- MCFits
    Stored <- MCStored
    MaxSamples = 2
INVARIANTS
    MatchNeedsStrongFitOrConsensus
