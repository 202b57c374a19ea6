CONSTANTS
    r1 = r1  r2 = r2  h = h  p1 = p1  p2 = p2
    Requests = {r1, r2}
    Addresses = {p1, p2}
    HostOf <- OneHost
    Burst = 2
    Interval = 3
    MaxStall = 1
    MaxTime = 9
    From = 5
SPECIFICATION Spec
INVARIANTS WindowBound HeldIsListed MapIsSwept
PROPERTIES BucketSpec
CHECK_DEADLOCK FALSE
