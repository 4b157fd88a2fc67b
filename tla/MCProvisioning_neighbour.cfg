SPECIFICATION Spec
CONSTANTS
    Exts = {e1, e2}
    Calls = {c1, c2, c3}
    Kinds = {"create", "remove"}
    MaxAtOnce = 1
    MaxFaults = 0
PROPERTIES RemovesOnlyItsOwn
