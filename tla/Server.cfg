SPECIFICATION HelpedSpec
CONSTANTS
    Nodes = {n1, n2}
    NoNode = NoNode
    MaxFds = 2
    MaxPending = 1
    Faults = {"socket", "bind", "accept", "pthread_create", "recv", "EINTR", "SIGPIPE"}
INVARIANTS
    TypeOK
    ListHoldsNodes
    NodesOutliveThreads
    CleanEnd
    DescriptorsApart
PROPERTIES
    OnlyFailuresLeak
    CompleteIsReaped
    EndsWithHelp
