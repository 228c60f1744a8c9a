SPECIFICATION Spec
CONSTANTS
    Keypoints <- MCKeypoints
    Fits <- MCFits
    Stored <- MCStored
    MaxSamples = 3
INVARIANTS
    OwnPrintsDecode
    VerdictWeighsAllEntries
    DamagedGalleryDecidesNothing
    PythonMatchesOnlyWithDriver
