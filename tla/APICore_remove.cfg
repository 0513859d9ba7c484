\* One DeployFwdLM and one Remove, no faults.
CONSTANTS
    Reqs = {r1, r2}
    Hosts = {h1, h2}
    Ops = {"fwdlm", "remove"}
    Faults = {}
    None = None
SPECIFICATION Spec
CHECK_DEADLOCK FALSE
INVARIANT
    RemoveRemoves
