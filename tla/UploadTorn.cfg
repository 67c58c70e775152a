CONSTANTS
    n1 = n1
    n2 = n2
    Names = {n1, n2}
    MaxUploads = 2
    FaultKinds = {"power"}
    MaxFaults = 2
SPECIFICATION Spec
INVARIANT RecoveryCompletes
SYMMETRY Symmetry
CHECK_DEADLOCK FALSE
