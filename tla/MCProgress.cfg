SPECIFICATION MCSpec
CONSTANTS
    in = in
    out = out
    desk = desk
    far = far
    d1 = d1
    d2 = d2
    d3 = d3
    o1 = o1
    o2 = o2
    near = near
    msg = msg
    w = w
INVARIANTS MCCustodyTrue
PROPERTIES MCCustodyKept MCScheduleEnds MCSettles MCLossStops
CHECK_DEADLOCK FALSE
