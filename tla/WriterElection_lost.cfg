SPECIFICATION Spec
CONSTANTS
    Nodes = {n1, n2}
    MaxEnvelope = 3
    MaxStamp = 1
    MaxFaults = 0
INVARIANTS
    EnvelopeIsStored
CHECK_DEADLOCK FALSE
