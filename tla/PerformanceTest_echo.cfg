SPECIFICATION FairSpec
CONSTANTS
    Block = 4
    UpCap = 2
    DownCap = 1
    SrvBuf = 3
    Resolution = 1
    Duration = 3
INVARIANTS
    TypeOK
    EchoAligned
    NoStall
    AnswerComes
    EveryByteReported
PROPERTIES
    TestEnds
CHECK_DEADLOCK FALSE
