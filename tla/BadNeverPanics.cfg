CONSTANTS
    l1 = l1  l2 = l2  a = a  b = b
    Models = {a, b}
    Launches = {l1, l2}
    ModelOf <- TwoStarts
    Stoppers = {s1}
    MaxRetries = 1
    ConfigSets <- Fixed
    AnyModel = AnyModel
    NoServer = NoServer
    NoPid = NoPid
    NoLaunch = NoLaunch
SPECIFICATION Spec
INVARIANT NeverPanics
CHECK_DEADLOCK FALSE
