SPECIFICATION InstallerSpec
CONSTANTS
    k1 = k1
    k2 = k2
    s1 = s1
    Files = {k1, k2}
    NoFile = NoFile
    NoSecret = NoSecret
    Secrets = {s1}
    Rows <- MCRows
    MaxRuns = 2
INVARIANTS
    TypeOK
    InstallerTypeOK
    PassedMeansUsable
    InventoryFits
    ReadyMeansInstalled
    InstallsOnControlPlane
CHECK_DEADLOCK FALSE
