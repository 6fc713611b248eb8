SPECIFICATION Spec
CONSTANTS
    l1 = l1
    l2 = l2
    l3 = l3
    l4 = l4
    hostA = hostA
    hostB = hostB
    NoFile = NoFile
    Launch <- MCLaunch
    Host <- MCHost
    HostOf <- MCHostOf
SYMMETRY MCSymmetry
INVARIANTS
    MutualExclusion
CHECK_DEADLOCK FALSE
