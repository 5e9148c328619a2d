SPECIFICATION Spec
CONSTANTS
    Byte = 2
    Size = 8
    MaxLen = 2
    Tags <- MCTags
    Bases <- MCBases
    Height = 3
INVARIANTS
    IteratorFollowsTheFile
    ReadsWhatIsConfigured
    RequestsAreLegal
    StartsUp
