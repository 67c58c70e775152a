CONSTANTS
    n1 = n1
    n2 = n2
    Names = {n1, n2}
    MaxUploads = 3
    FaultKinds = {"file", "power"}
    MaxFaults = 5
SPECIFICATION Spec
INVARIANTS
    FlashRecoverable
PROPERTIES
    ImplementsStore
SYMMETRY Symmetry
CHECK_DEADLOCK FALSE
