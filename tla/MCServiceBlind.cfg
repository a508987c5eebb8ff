SPECIFICATION Spec
CONSTANTS
    u1 = u1
    Users = {u1}
    Horizon = 6
    NoUsersThreshold = 3
    AllDisconnectedThreshold = 4
    InactiveUserThreshold = 4
    WarningPeriod = 3
    MinimumUptime = 2
    RecentActivityThreshold = 2
    WarningCheckInterval = 1
    MinCheckInterval = 1
    NotificationThrottle = 2
    NotifierPresent = TRUE
    MaxSend = 1
    MaxCall = 1
    Faults = {"enumerate"}
PROPERTY WarnedBeforeHibernation
