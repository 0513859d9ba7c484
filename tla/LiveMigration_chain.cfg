\* Two migrations from two hosts, every fault but crashes.
CONSTANTS
    m1 = m1  m2 = m2  a1 = a1  a2 = a2  s1 = s1  s2 = s2
    Migrations = {m1, m2}
    Sources = {s1, s2}
    Apps = {a1, a2}
    App <- TwoApps
    Source <- MCSource
    Iteration <- MCIteration
    FwdMigrations = {m1}
    MaxIteration = 2
    Faults = {"pod", "net", "criu", "rsync", "restore", "slow", "accept", "hang"}
SPECIFICATION Spec
\* Both migrations end.
CHECK_DEADLOCK FALSE
INVARIANTS
    RestoreChain
    SwitchedToRunning
