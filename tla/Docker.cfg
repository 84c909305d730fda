CONSTANTS
    Files <- TreeFiles
    Roots <- TreeRoots
    Ignored = {"tmp"}
    Sizes = {1, 2}
    Top = 2
    Containers = {c1, c2}
    Volumes = {v1, v2}
    MaxWrites = 1
    MaxChanges = 2

SPECIFICATION PassSpec

SYMMETRY WorldSymmetry

INVARIANTS
    PassTypeOK
    OrphansWereUnused
    UsedWereMounted
    DirectoriesAddUp
    BiggestFilesAreKept
