CONSTANTS
    v1 = v1  v2 = v2  u1 = u1  a = a  k1 = k1  k2 = k2  w1 = w1  w2 = w2
    BadUrl = BadUrl
    Viewers = {v1, v2}
    Rebuilders = {}
    Urls = {u1}
    Models = {a}
    NoModel = NoModel
    KeyOf <- Keys
    EditedUrls = {u1}
    LocalMachine = LocalMachine
    NoName = NoName
    NoSnapshot = NoSnapshot
    FirstConfig <- First
    Configs <- Edits
SPECIFICATION FleetSpec
INVARIANTS ActiveAsLaunched
CHECK_DEADLOCK FALSE
