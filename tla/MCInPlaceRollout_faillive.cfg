CONSTANTS
    m1 = m1
    m2 = m2
    m3 = m3
    m4 = m4
    o1 = o1
    o2 = o2
    New = New
    NoMS = NoMS
    Machines = {m1, m2, m3, m4}
    OldSeq <- MCOldSeq
    InitOwner <- MCInitOwner
    Replicas = 3
    MaxUnavail = 1
    MaxFailures = 0
    MaxMachineFails = 1
    ProtectTransfer = TRUE
    SeparateClusters = FALSE
    NodeLabelFails = FALSE
    PriorInPlace = FALSE
SPECIFICATION FairSpec
PROPERTY RolloutCompletes
