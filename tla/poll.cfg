SPECIFICATION Spec
CONSTANT Nbios = {n1, n2}
INVARIANT StillPolled
CHECK_DEADLOCK FALSE
