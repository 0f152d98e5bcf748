\* Builds of any of the three commits, in any order, with each patch file.
SPECIFICATION Spec
CONSTANTS
    Commits <- MCCommits
    Pins <- MCCommits
    GgufCpp <- MCGgufCpp
    Hunks <- MCHunks
    Patches <- MCPatches
    Fits <- MCFits
INVARIANTS TypeOK RetryWorks
PROPERTIES BinaryAsAsked
