SPECIFICATION Spec
CONSTANTS
    c1 = c1
    c2 = c2
    Clusters <- MCClusters
    WithMaster <- MCWithMaster
    There <- MCThere
    NoCluster = NoCluster
    MaxGets = 2
    MaxAttempts = 2
    MaxClicks = 2
    MaxEdits = 1
    MaxSurprises = 1
INVARIANTS
    TypeOK
    OnlySignedIn
    ListHasOwn
    RunsWhatWasShown
    FormShowsStored
    OnlineMeansInstalled
CHECK_DEADLOCK FALSE
