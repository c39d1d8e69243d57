SPECIFICATION Spec
CONSTANTS
    Runs = {"r1"}
    Flows = {1}
    Sockets = {"s1", "s2"}
    Outcomes = {"passed", "failed"}
    Devices = {"d1", "d2"}
    Shots = {1, 2, 3}
    Requests = {"q1", "q2"}
    NoShot = NoShot
INVARIANTS
    FlowRunsInv
    ShotFilesMatch
PROPERTIES
    FirstAccountStands
    OrphanIsClosed
CHECK_DEADLOCK FALSE
