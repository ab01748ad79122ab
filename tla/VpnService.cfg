CONSTANTS
    MaxEvents = 3
    None = None
SPECIFICATION Spec
INVARIANTS CleanAfterStop 
PROPERTIES DestroyedLoopsEnd
CHECK_DEADLOCK FALSE
