SPECIFICATION FairSpec
CONSTANTS
    o1 = o1  o2 = o2  c1 = c1  c2 = c2  Nobody = Nobody
    Ops = {o1}
    Clients = {c1}
    Kinds = {"approval", "input", "resume"}
    Choices = {"REJECT"}
    MaxGen = 1
    MaxVersion = 2
    MaxRequest = 1
    MaxEpoch = 2
    Faults = {"stream", "store"}
PROPERTIES FinalAckIsRecorded
CHECK_DEADLOCK FALSE
