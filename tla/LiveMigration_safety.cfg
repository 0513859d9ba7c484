\* Two migrations of one application, with crashes.
CONSTANTS
    m1 = m1  m2 = m2  a1 = a1  a2 = a2  s1 = s1  s2 = s2
    Migrations = {m1, m2}
    Sources = {s1}
    Apps = {a1}
    App <- SameApp
    Source <- OneSource
    Iteration <- NoPreDump
    FwdMigrations = {m1}
    MaxIteration = 2
    Faults = {"pod", "net", "restore", "slow", "hang", "crash"}
SPECIFICATION FairSpec
\* Both migrations end.
CHECK_DEADLOCK FALSE
INVARIANTS
    TypeOK
    AtMostOneInstance
    LeavesOnlyDumped
PROPERTIES
    KilledOnlyInFinalDump
    MigrationEnds
    SourceReleased
    DumpedRestored
