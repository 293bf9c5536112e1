SPECIFICATION FairSpec
CONSTANTS
    o1 = o1  o2 = o2  c1 = c1  c2 = c2  Nobody = Nobody
    Ops = {o1}
    Clients = {c1}
    Kinds = {"approval"}
    Choices = {"ACCEPT"}
    MaxGen = 1
    MaxVersion = 1
    MaxRequest = 2
    MaxEpoch = 2
    Faults = {}
PROPERTIES FinalAckIsRecorded
CHECK_DEADLOCK FALSE
