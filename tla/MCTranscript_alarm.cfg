\* Two readers of an honest transcript.
SPECIFICATION Spec
CONSTANTS
    short = short
    long = long
    Reader = {r1, r2}
    Conv = {v1}
    Text = {short}
    Length <- LengthOf
    NoFile = NoFile
    NoPin = NoPin
    Keep = 2
    Clip = 4
    Room = 7
    MaxLines = 2
    Rewrites = FALSE
SYMMETRY Symmetry
INVARIANTS
    NoFalseAlarm
