\* Two readers of a transcript that is rewritten under their eyes.
SPECIFICATION Spec
CONSTANTS
    short = short
    long = long
    Reader = {r1, r2}
    Conv = {v1}
    Text = {short, long}
    Length <- LengthOf
    NoFile = NoFile
    NoPin = NoPin
    Keep = 2
    Clip = 4
    Room = 8
    MaxLines = 3
    Rewrites = TRUE
SYMMETRY Symmetry
INVARIANTS
    ConsistentHistory
    ShownLongest
    AlarmHasCause
PROPERTIES
    PinsGrow
