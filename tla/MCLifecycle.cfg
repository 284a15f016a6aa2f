CONSTANTS
    q1 = q1
    q2 = q2
    Requests <- MCRequests
    Commands <- AllCommands
    Environments <- MCEnvironments
    Files <- MCFiles
    BatchSize = 1
SPECIFICATION Spec
INVARIANTS
    TypeOK
    DatabaseOutlivesItsUsers
    ExitTellsWhy
PROPERTIES
    ExitsWhenStopped
    RequestsAreAnswered
    JobsGoOn
