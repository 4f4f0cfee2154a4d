SPECIFICATION FairSpec
CONSTANTS
    u1 = u1  u2 = u2  p1 = p1  h1 = h1  h2 = h2  n1 = n1  n2 = n2  b1 = b1  b2 = b2
    MaxFd = 4
    Users <- MCUsers
    Passwords <- MCPasswords
    Stored <- MCStored
    Accounts <- MCAccounts
    Hosts <- MCHosts
    HostTexts <- MCHostTexts
    AddressOf <- MCAddressOf
    BadHost = BadHost
    AnyHost = AnyHost
    PortPairs <- MCPortPairs
    Names <- MCNames
    Blocks <- MCBlocks
    Uploads <- MCUploads
    Empty = Empty
    Malformed = Malformed
    NoPort = NoPort
    NoLine = NoLine
    Missing = Missing
\* The process stops for good when SIGPIPE ends it.
CHECK_DEADLOCK FALSE
INVARIANTS
    TypeOK
    NoDescriptorLeak
    LoginSound
    HostFromAcceptedPort
    ReplyDiscipline
    ReplyTellsState
    FaithfulTransfer
PROPERTIES
    FilesChangeUnderTransfer
    SessionEnds
    CommandAnswered
