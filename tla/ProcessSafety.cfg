SPECIFICATION Spec
CONSTANTS
    Processes = {p1}
    Connections = {c1, c2}
    NoConnection = NoConnection
    NoProcess = NoProcess
    Budgets <- SafetyBudgets
    History = 2
    Retained = 2
SYMMETRY ConnectionSymmetry
CHECK_DEADLOCK FALSE
INVARIANTS
    TypeOK
    ChunksInOrder
    ReportsAreTrue
