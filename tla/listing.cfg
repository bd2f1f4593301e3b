SPECIFICATION Spec
CONSTANTS
    k1 = k1  k2 = k2  k3 = k3
    None = None
    Key = {k1, k2, k3}
    MaxWrites = 7
CHECK_DEADLOCK FALSE
SYMMETRY MCSymmetry
INVARIANT ListedIfThere
