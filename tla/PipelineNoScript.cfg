SPECIFICATION Spec
CONSTANTS
    c1 = c1
    c2 = c2
    r1 = r1
    r2 = r2
    r3 = r3
    NoRun = NoRun
    Clusters = {c1, c2}
    Runs = {r1, r2, r3}
    ClusterOf <- MCClusterOf
    SpawnFaults = {}
    UncaughtExits = TRUE
INVARIANTS
    NoEntryMeansNoScript
