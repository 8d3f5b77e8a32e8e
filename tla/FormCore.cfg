SPECIFICATION Spec
CONSTANTS
    k1 = k1
    k2 = k2
    doc = doc
    Files = {k1, k2, doc}
    NoFile = NoFile
    NoSecret = NoSecret
    Secrets = {s1}
    Typed <- MCTyped
    Versions <- MCVersions
    KeyNamed = {k1, k2}
    MaxCalls = 2
    MaxNodes = 2
    MaxOwn = 1
    MaxLate = 1
INVARIANTS
    TypeOK
    CredentialsComplete
    StoredAsShown
    RetrySendsSame
    VersionFits
CHECK_DEADLOCK FALSE
