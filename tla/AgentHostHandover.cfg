SPECIFICATION Spec
CONSTANTS
    w1 = w1
    w2 = w2
    p = p
    r = r
    a1 = a1
    a2 = a2
    c = c
    p1 = p1
    p2 = p2
    Handlers = {w1, w2}
    None = None
    Messages <- MCOnce
    MaxHosts = 3
    MaxQuestions = 2
SYMMETRY MCSymmetry
INVARIANTS
    HostTypeOK
    QuietAtRest
    HostListens
    AttendedOrTold
PROPERTIES
    EndedIsFinal
CHECK_DEADLOCK FALSE
