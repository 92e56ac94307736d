SPECIFICATION Spec
CONSTANTS
    MaxWrites = 2
    MaxMishaps = 2
INVARIANTS NeverCorrupt

CHECK_DEADLOCK FALSE
