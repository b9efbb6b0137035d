SPECIFICATION FairSpec
CONSTANTS
    Processes = {p1}
    Connections = {c1, c2}
    NoConnection = NoConnection
    NoProcess = NoProcess
    Budgets <- ProgressBudgets
    History = 2
    Retained = 2
CHECK_DEADLOCK FALSE
PROPERTIES
    ActiveRowsEnd
    WaiterWakes
