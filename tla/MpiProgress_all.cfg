SPECIFICATION Spec
CONSTANTS
    A = A
    B = B
    Nodes <- MCNodes
    Confs <- MCConfs
INVARIANTS DataInOrder RequestsSettled
PROPERTY CallsReturn
CHECK_DEADLOCK FALSE
