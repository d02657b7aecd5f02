\* Sizes below, at and above the widths of an int and of the threshold; a header
\* of a status line, two fields and its end.
CONSTANTS
    Sizes <- SomeSizes
    IntMod = 64
    ShrinkAbove = 4
    Slack = 6
    Parts = 4
SPECIFICATION ResponseSpec
INVARIANTS
    ResponseTypeOK
    ExactWhenWhole
    FaultHasACause
    SentIsPrefix
CHECK_DEADLOCK FALSE
