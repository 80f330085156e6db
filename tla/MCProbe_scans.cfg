\* Three scans of one conversation, with a crash at any step.
SPECIFICATION Spec
CONSTANTS
    Call = {c1, c2, c3}
    Conv = {v1}
    MaxSteps = 3
    MayDie = TRUE
INVARIANTS
    TriggersCovered
PROPERTIES
    MarkNeverFalls
    WarningGiven
CHECK_DEADLOCK FALSE
