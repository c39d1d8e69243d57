SPECIFICATION Spec
CONSTANTS
    b1 = b1
    b2 = b2
    i1 = i1
    i2 = i2
    app1 = app1
    app2 = app2
    None = None
    Boots = {b1, b2}
    Installs = {i1, i2}
    Builds = {app1, app2}
    MaxJoins = 2
    MaxRequests = 2
    MaxTrouble = 1
SYMMETRY Symmetric
INVARIANTS
    InstalledIsReal
CHECK_DEADLOCK FALSE
