SPECIFICATION Spec
CONSTANTS
    o1 = o1  o2 = o2  c1 = c1  c2 = c2  Nobody = Nobody
    Ops = {o1, o2}
    Clients = {c1, c2}
    Kinds = {"approval"}
    Choices = {"ACCEPT"}
    MaxGen = 2
    MaxVersion = 1
    MaxRequest = 1
    MaxEpoch = 2
    Faults = {"stream"}
SYMMETRY Sym
INVARIANTS ControlInv AtMostOnce OneDecision ReceiptIsTrue NoConflict
PROPERTIES ReservationHolds
CHECK_DEADLOCK FALSE
