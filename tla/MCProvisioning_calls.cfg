SPECIFICATION Spec
CONSTANTS
    Exts = {e1, e2}
    Calls = {c1, c2, c3, c4}
    Kinds = {"create", "register", "remove"}
    MaxAtOnce = 2
    MaxFaults = 1
SYMMETRY Symmetry
INVARIANTS TypeOK CreatedStaysUsable EndpointHasAuth SerialCallsKeepUnique
