SPECIFICATION Spec
CONSTANTS
    Runs = {"a", "b"}
    Sockets = {"s1"}
    Outcomes = {"passed"}
    MaxSeq = 1
    CutsOf <- Cuts
    LenOf <- Lengths
    KeySeqs = {0}
    Passed = {"b"}
    Cap = 3
    Disk = 4
    MaxVideo = 3
    LaneRoom = 1
    Faulty = {"a"}
    MaxFaults = 1
    Watched = {"b"}
    Requests = {1, 2}
    NoReq = 0
    NoFile = NoFile
INVARIANTS
    VideosInv
    BytesAreWhole
    PlayableAndKept
CHECK_DEADLOCK FALSE
