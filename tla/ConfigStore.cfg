CONSTANTS
    good = good  better = better  dup = dup  trailing = trailing
    Text <- Texts
    Loadable <- Loads
    Acceptable <- Passes
    Absent = Absent
    AnyText = AnyText
    Saver = {s1, s2}
    Watcher = watcher
    NoOne = NoOne
    MaxWrites = 2
    MaxEarly = 0
SPECIFICATION FairSpec
INVARIANTS NothingIsMissed PartsAgree
PROPERTIES SavesDoNotCollide ReloadsGoForward SettledIsApplied SaveAnswered
CHECK_DEADLOCK FALSE
