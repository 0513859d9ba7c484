\* Three requests of any type on two hosts; slow pods and failing listens.
CONSTANTS
    Reqs = {r1, r2, r3}
    Hosts = {h1, h2}
    Ops = {"new", "fwd", "lm", "fwdlm", "remove"}
    Faults = {"slow", "port"}
    None = None
SPECIFICATION Spec
SYMMETRY Symmetry
\* All requests have been served.
CHECK_DEADLOCK FALSE
INVARIANTS
    MigratesOwnPod
    MigratesItsService
    RemovedStaysRemoved
