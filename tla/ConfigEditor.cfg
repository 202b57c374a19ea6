CONSTANTS
    good = good  better = better  wrong = wrong
    Machines = {m1, m2}
    FirstMachine = m1
    Text <- Texts
    Valid <- Savable
    Absent = Absent
    NoText = NoText
    AnyText = AnyText
    NoCall = NoCall
    Loads = {l1}
    Reloads = {d1}
    Lates = {o1}
    MaxWork = 3
SPECIFICATION FairSpec
INVARIANTS PollingIsOwed ShownHasEtag
PROPERTIES UnseenIsKept FileIsNoticed
CHECK_DEADLOCK FALSE
