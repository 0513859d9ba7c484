\* Two requests of any type on two hosts, every fault.
CONSTANTS
    Reqs = {r1, r2}
    Hosts = {h1, h2}
    Ops = {"new", "fwd", "lm", "fwdlm", "remove"}
    Faults = {"api", "slow", "port", "net", "hang", "crash"}
    None = None
SPECIFICATION FairSpec
\* All requests have been served.
CHECK_DEADLOCK FALSE
INVARIANTS
    TypeOK
    LockHeld
    ServiceListed
PROPERTY
    RequestsEnd
