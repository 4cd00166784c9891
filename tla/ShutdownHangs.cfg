SPECIFICATION FairSpec
CONSTANTS
    Nodes = {n1, n2}
    NoNode = NoNode
    MaxFds = 2
    MaxPending = 1
    Faults = {}
PROPERTY SignalEnds
