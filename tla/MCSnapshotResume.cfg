\* A restored VM is started again.
CONSTANTS
    None = None
    MaxContainers = 1
    MaxWrites = 2
    MaxRestarts = 1
SPECIFICATION Spec
INVARIANT ExactState
CHECK_DEADLOCK FALSE
