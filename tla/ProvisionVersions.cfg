SPECIFICATION Spec
CONSTANTS
    c1 = c1
    c2 = c2
    r1 = r1
    r2 = r2
    r3 = r3
    v1 = v1
    v2 = v2
    None = None
    Shared = Shared
    Clusters = {c1, c2}
    Runs = {r1, r3}
    Configs = {A}
    ClusterOf <- MCClusterOf
    RuntimeOf <- MCSameRuntime
    VersionOf <- MCVersionOf
INVARIANTS
    AnsibleSeesOwnVersion
