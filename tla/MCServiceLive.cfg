SPECIFICATION FairSpec
CONSTANTS
    u1 = u1
    Users = {u1}
    Horizon = 4
    NoUsersThreshold = 3
    AllDisconnectedThreshold = 3
    InactiveUserThreshold = 3
    WarningPeriod = 2
    MinimumUptime = 2
    RecentActivityThreshold = 2
    WarningCheckInterval = 1
    MinCheckInterval = 1
    NotificationThrottle = 2
    NotifierPresent = TRUE
    MaxSend = 1
    MaxCall = 1
    Faults = {"slow", "lateEvent"}
PROPERTIES EmptyMachineHibernates LeftMachineHibernates IdleMachineHibernates ActivityIsAnswered
