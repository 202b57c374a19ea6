CONSTANTS
    r1 = r1  r2 = r2
    Requests = {r1, r2}
    MaxGap = 2
    MaxNap = 1
    Word = 1024
    MaxCount = 2
    MaxTime = 5
SPECIFICATION Spec
INVARIANTS UsageIsShare WindowIsRecent
