CONSTANTS
    p1 = p1
    p2 = p2
    p3 = p3
    Procs = {p1, p2, p3}
    First = p1
    None = None
    PipeSize = 2
    Modulus = 4
    Sizes = {3}
SPECIFICATION Spec
SYMMETRY Heirs
CHECK_DEADLOCK FALSE
INVARIANTS PipeIsFifo SleepsForAReason PipeLives
