SPECIFICATION Spec
CONSTANTS
    u1 = u1
    u2 = u2
    Users = {u1, u2}
    Horizon = 8
    NoUsersThreshold = 4
    AllDisconnectedThreshold = 3
    InactiveUserThreshold = 5
    WarningPeriod = 4
    MinimumUptime = 3
    RecentActivityThreshold = 3
    WarningCheckInterval = 1
    MinCheckInterval = 1
    NotificationThrottle = 2
    NotifierPresent = TRUE
    MaxSend = 1
    MaxCall = 1
    Faults = {"azure", "late", "restart"}
SYMMETRY UserSymmetry
INVARIANTS WarningIsPolled CountsFromResume
PROPERTIES WarnedBeforeHibernation NoInputSinceWarning CanceledForActivity RepeatsAreThrottled CountdownNeverRestarts KeepsPromise
