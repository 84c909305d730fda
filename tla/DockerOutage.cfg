CONSTANTS
    Containers = {c1, c2}
    Volumes = {v1, v2}
    MaxChanges = 2

SPECIFICATION Spec

SYMMETRY WorldSymmetry

INVARIANT
    OutageOnlyOmits
