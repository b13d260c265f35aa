\* One release whose VERSION file is no version number, no failures.
SPECIFICATION Spec
CONSTANTS
    MaxVersion = 3
    Migrations = {2}
    Unversioned = {2}
    Work = {}
    w1 = w1
    w2 = w2
    None = None
    MaxFaults = 0
INVARIANT
    WindowSurvivesMiss
