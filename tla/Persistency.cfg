SPECIFICATION Spec
CONSTANTS
    c1 = c1
    c2 = c2
    None = None
    Client = {c1, c2}
    Modes = {"memory", "persist", "wal"}
    Access = {"read_write"}
    Keys = 2
    MaxValue = 2
    Capacity = 3
    MaxTransactions = 2
    MaxGeneration = 3
    MaxRestarts = 1
INVARIANT WriterExclusive
PROPERTIES  ImplementsStore
SYMMETRY ClientSymmetry
