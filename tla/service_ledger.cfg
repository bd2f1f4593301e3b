SPECIFICATION FairSpec
CONSTANTS
    p1 = p1  b1 = b1
    t1 = t1  t2 = t2  tx = tx
    d1 = d1
    ann = ann  bob = bob
    c1 = c1  c2 = c2  c3 = c3  c4 = c4
    None = None
    Node <- MCNode
    BACKUP_MAP <- MCBackupMap
    Time = {d1}
CHECK_DEADLOCK FALSE
CONSTANTS
    Table = {t1}
    TableArg = {t1}
    Customer = {ann}
    Connection = {c1, c2, c3}
    Faults = {"timeout", "crash"}
PROPERTIES PrimaryIsLedger EveryRequestAnswered
