SPECIFICATION Spec
CONSTANTS
    MaxRelease = 2
    NumFiles = 2
    UpdaterFile = 1
    MainFile = 2
    k1 = k1
    k2 = k2
    Keys = {k1}
    Shipped <- AddsFirst
    UpdateFaults = {"network", "stop", "query", "start", "slow", "rename", "copy", "merge",
                    "metadata", "power", "edit", "typo", "race", "admin"}
INVARIANTS TypeOK HelpersNotOlder ChoicesKept RegisteredHasSource

