SPECIFICATION FailoverSpec
CONSTANTS
    p1 = p1  b1 = b1  t1 = t1   d1 = d1
    h1 = h1  h2 = h2  h3 = h3  h4 = h4
    None = None
    Node <- MCNode
    BACKUP_MAP <- MCBackupMap
    Connection <- MCConnection
    Table = {t1}
    TableArg = {t1}
    Time = {d1}
CHECK_DEADLOCK FALSE
CONSTANTS
    Http = {h1, h2}
    Customer = {h1, h2}
    Faults = {"timeout"}
SYMMETRY MCSymmetry
INVARIANT ConfirmedServed
