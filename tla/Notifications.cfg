SPECIFICATION MCSpec
CONSTANTS
    o1 = o1
    r1 = r1
    r2 = r2
    Orders = {o1}
    Receivers = {r1, r2}
    Unknown = Unknown
    Idle = Idle
    MaxAnnounced = 2
    MaxGets = 3
    MaxVisits = 1
    MaxHubRestarts = 1
    MaxSubscribings = 1
    MaxHookRestarts = 1
INVARIANTS NotificationsTypeOK PageCatchesUp NobodyIsForgotten
PROPERTIES NewsReachesThePage EverybodyIsCalled
CHECK_DEADLOCK FALSE
