\* Two migrations over one service, two clients, all environment faults.
CONSTANTS
    c1 = c1  c2 = c2
    m1 = m1  m2 = m2
    src = src  dst1 = dst1  dst2 = dst2
    Conns = {c1, c2}
    Migrations = {m1, m2}
    Addrs = {src, dst1, dst2}
    SrcAddr = src
    DstPodAddr <- MCDstPodAddr
    DataRates = {0, 10}
    EnvFaults = {"stall", "accept"}
SPECIFICATION Spec
SYMMETRY ConnSymmetry
\* The process may have crashed, and Suspend may wait for a listener that ended.
CHECK_DEADLOCK FALSE
INVARIANTS
    TypeOK
    QuietDuringDump
    RouteCurrent
    OnlyNilPanic
    AckNeverBlocks
PROPERTY
    SwitchesRoute
