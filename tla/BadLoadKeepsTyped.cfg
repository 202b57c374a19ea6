CONSTANTS
    good = good  better = better  wrong = wrong
    Machines = {m1}
    FirstMachine = m1
    Text <- Texts
    Valid <- Savable
    Absent = Absent
    NoText = NoText
    AnyText = AnyText
    NoCall = NoCall
    Loads = {l1}
    Reloads = {d1}
    Lates = {o1}
    MaxWork = 3
SPECIFICATION Spec
PROPERTIES LoadKeepsTyped
CHECK_DEADLOCK FALSE
