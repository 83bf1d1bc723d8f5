SPECIFICATION Spec
CONSTANTS
    c1 = c1
    c2 = c2
    Clients = {c1, c2}
    Workloads = {"keys", "input", "records", "async"}
    MaxKeys = 2
    MaxContexts = 2
    Generations = 4
    Sequences = 2
    MaxReleases = 2
    MaxUpdates = 1
    MaxRecords = 3
    MaxNonces = 1
    MaxTickets = 3
CHECK_DEADLOCK FALSE
INVARIANTS HandlesExact FinishCoversUpdates RecordsInOrder CompletionsLand
PROPERTY OperationsReturn
