SPECIFICATION Spec
CONSTANTS
    NoRow = NoRow
    NoAnswer = NoAnswer
    Failed = Failed
    Users = {u1, u2, u3}
    Calls = {c1, c2, c3}
    Kinds = {"login", "register", "sync"}
    Taken = {3003, 9998}
    SeedRows = {u1}
    SeedExts = {3001}
    SyncRole = "Admin"
    MaxFaults = 1
SYMMETRY Symmetry
INVARIANTS TypeOK UniqueExtensions RefusedLostToAnother AnswersAreStored
PROPERTIES RegisterTakesMaxPlusOne
