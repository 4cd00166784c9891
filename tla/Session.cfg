SPECIFICATION FairSpec
CONSTANTS
    Clients = {c1, c2}
    Patient = {c1}
    Console = Console
    Newline = Newline
    Lines <- SomeLines
    RECV_BUFFER_LENGTH_BYTES = 3
    MaxBytes = 4
    MaxFds = 3
INVARIANTS
    TypeOK
    CommandsInOrder
    OwnArguments
    StdoutComesBack
    OutputToItsClient
    OnlyRedirectorsHear

    
