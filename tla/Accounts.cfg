SPECIFICATION Spec
CONSTANTS
    None = None
    p1 = p1
    q1 = q1
    c1 = c1
    d1 = d1
    s1 = s1
    t1 = t1
    u1 = u1
    z1 = z1
    w1 = w1
    e1 = e1
    f1 = f1
    old = old
    new = new
    other = other
SYMMETRY Alike
PROPERTIES
    SeatsAreSound
    CodesAreSound
    QuotasAreSound
    SessionsAreSound
    RotationIsSound
    MaintenanceIsSound
CHECK_DEADLOCK FALSE
