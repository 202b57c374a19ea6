CONSTANTS
    a = a  ours = ours  theirs = theirs
    v1 = v1  v2 = v2  u1 = u1  c1 = c1
    Models = {a}
    Idle = Idle
    Rests = {ours, theirs}
    FirstFile <- First
    Views = {v1, v2}
    Actions = {u1}
    Changes = {c1}
    Unknown = Unknown
    Null = Null
    Offline = Offline
    NoFile = NoFile
    NoCall = NoCall
    MaxWork = 2
SPECIFICATION FairSpec
INVARIANTS StoreTypeOK
PROPERTIES ToggleKeepsOthers StatusSettles SwitchSettles
