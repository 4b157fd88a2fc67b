SPECIFICATION Spec
CONSTANTS
    NoRow = NoRow
    NoAnswer = NoAnswer
    Failed = Failed
    Users = {u1, u2}
    Logins = {c1, c2, c3}
    Others = {d1}
    Taken = {3003}
    SeedRows = {u1}
    SeedExts = {3001}
    Exts = {3001, 3004}
    MaxAtOnce = 2
    MaxFaults = 1
SYMMETRY Symmetry
INVARIANTS ProvisionedIsStored LoggedInRegisters
