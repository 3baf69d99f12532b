SPECIFICATION Spec
CONSTANTS
    None = None
    p1 = p1
    q1 = q1
    c1 = c1
    d1 = d1
    e1 = e1
PROPERTIES
    WorkEnds
    WaitsEnd
CHECK_DEADLOCK FALSE
