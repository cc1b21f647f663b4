SPECIFICATION FairSpec
CONSTANTS
    Ops <- WriteOps
    Codes <- WriteCodes
    Framings <- WriteFramings
    MaxHops = 0
INVARIANTS
    TypeOK
    SuccessIsTheServersAnswer
    RepeatedOnlyIfAnswerLost
    KeptConnectionIsInStep
    RetryGetsANewConnection
    CancelledRequestIsMute
PROPERTIES
    ReturnsOnceTheNetworkIsUp
    ImplementsDAVCall
