SPECIFICATION MCSpec
CONSTANTS
    q1 = q1
    q2 = q2
    q3 = q3
    q4 = q4
    e1 = e1
    e2 = e2
    n1 = n1
    n2 = n2
    Nobody = Nobody
    Requests = {q1, q2, q3, q4}
    Emails = {e1, e2}
    Names = {n1, n2}
    FirstUser = e1
SYMMETRY Symmetry
INVARIANTS
    TypeOK
    RowsUnique
    RepliesTrue
    ConfigWhole
    OwnerWrites
PROPERTIES
    ReadyByInstaller
CHECK_DEADLOCK FALSE
