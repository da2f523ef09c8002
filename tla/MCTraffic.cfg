\* Two CPUs; frames on every side of every check, and enough polls for two mixes
\* with a failed poll between them.
CONSTANTS
    NumCPUs = 2
    Frames <- MCFrames
    MaxFrames = 2
    MaxPolls = 3
    MaxMixes = 3
SPECIFICATION Spec
INVARIANTS TypeOK MixesTile
PROPERTIES PaddingIsIgnored SnapshotsBracketed
CHECK_DEADLOCK FALSE
