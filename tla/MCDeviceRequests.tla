------------------------- MODULE MCDeviceRequests -------------------------
EXTENDS DeviceRequests, TLC
CONSTANTS b1, b2, i1, i2, app1, app2

\* Requests are told apart by their ids only, and so are the builds.
Symmetric == Permutations(Boots) \cup Permutations(Installs) \cup Permutations(Builds)
=============================================================================
