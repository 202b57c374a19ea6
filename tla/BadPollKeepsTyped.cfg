CONSTANTS
    good = good  better = better  wrong = wrong
    Machines = {m1}
    FirstMachine = m1
    Text = {good, better, wrong, other}
    Valid <- Savable
    Absent = Absent
    NoText = NoText
    AnyText = AnyText
    NoCall = NoCall
    Loads = {l1}
    Reloads = {d1}
    Lates = {o1}
    MaxWork = 4
SPECIFICATION Spec
PROPERTIES PollKeepsTyped
CHECK_DEADLOCK FALSE
