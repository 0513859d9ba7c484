\* Two local programs, both callers, every fault.
CONSTANTS
    Programs = 2
    Bytes = 2
    Faults = {"dial", "listen", "accept", "refuse", "break", "remote"}
SPECIFICATION FairSpec
\* The tunnel is closed in the end.
CHECK_DEADLOCK FALSE
INVARIANT
    TypeOK
PROPERTIES
    TunnelReleased
    ProgramServed
