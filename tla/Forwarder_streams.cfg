\* One forwarder with up to two bytes in each direction.
CONSTANTS
    Bytes = 2
    Cap = 2
    Rates = {0, 10}
SPECIFICATION FairSpec
\* The forwarder ends.
CHECK_DEADLOCK FALSE
INVARIANTS
    TypeOK
    AnswerKept
    UploadKept
PROPERTIES
    ForwarderEnds
    LifeCycle
