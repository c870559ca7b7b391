SPECIFICATION MCSpec
CONSTANTS
    w1 = w1
    w2 = w2
    c1 = c1
    c2 = c2
INVARIANTS Admitted OriginJudged ContentScreened FiledOnce  Reported
PROPERTY StepsKept
CHECK_DEADLOCK FALSE
