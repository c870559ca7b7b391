SPECIFICATION FairSpec
CONSTANTS
    Emails = {m1, m2}
    Boxes = {b1, b2}
    Inbox = b1
    Retain = 2
    Limits = {1, 2}
    MaxSeq = 4
INVARIANTS MCNoLostChange
PROPERTY Converges
CHECK_DEADLOCK FALSE
