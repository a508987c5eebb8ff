SPECIFICATION FairSpec
CONSTANTS
    MaxRelease = 4
    NumFiles = 4
    UpdaterFile = 2
    MainFile = 3
    k1 = k1
    k2 = k2
    Keys = {k1, k2}
    Shipped <- AddsSecond
    UpdateFaults = {"network", "stop", "edit"}

PROPERTIES KeepsPromise ReplacedOnlyWhileStopped ServiceReturns UpdateArrives

