\* Deployments of both kinds, no faults.
CONSTANTS
    Reqs = {r1, r2, r3}
    Hosts = {h1, h2}
    Ops = {"new", "fwdlm"}
    Faults = {}
    None = None
SPECIFICATION Spec
CHECK_DEADLOCK FALSE
INVARIANT
    SwitchesToPod
