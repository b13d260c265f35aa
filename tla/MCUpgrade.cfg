\* Two releases with migrations, one of them without a version number; two changes, two faults.
SPECIFICATION Spec
CONSTANTS
    MaxVersion = 3
    Migrations = {2, 3}
    Unversioned = {2}
    Work = {w1, w2}
    w1 = w1
    w2 = w2
    None = None
    MaxFaults = 2
SYMMETRY MCSymmetry
INVARIANTS
    ResultExactlyOnce
    RunPutsItBack
    WorkStaysHome
    MigrationsAccounted
