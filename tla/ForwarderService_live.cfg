\* Two migrations and one client under every environment fault: which calls
\* return, and who is served in the end.
CONSTANTS
    c1 = c1  c2 = c2
    m1 = m1  m2 = m2
    src = src  dst1 = dst1  dst2 = dst2
    Conns = {c1}
    Migrations = {m1, m2}
    Addrs = {src, dst1, dst2}
    SrcAddr = src
    DstPodAddr <- MCDstPodAddr
    DataRates = {0, 10}
    EnvFaults = {"stall", "accept"}
SPECIFICATION FairSpec
CHECK_DEADLOCK FALSE
PROPERTIES
    SuspendAcked
    CloseAllEnds
    BacklogServed
    ListenerStops
