CONSTANTS
    l1 = l1  l2 = l2  a = a  b = b
    Models = {a, b}
    Launches = {l1, l2}
    ModelOf <- TwoStarts
    Stoppers = {s1}
    MaxRetries = 1
    ConfigSets <- Edited
    AnyModel = AnyModel
    NoServer = NoServer
    NoPid = NoPid
    NoLaunch = NoLaunch
SPECIFICATION FairSpec
INVARIANTS NoOrphan OneLiveContext
PROPERTIES StopEndsItsProcess SlotSpec OrphanKilled LaunchSettles StoppingEnds
CHECK_DEADLOCK FALSE
