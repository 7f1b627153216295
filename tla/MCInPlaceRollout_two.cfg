CONSTANTS
    m1 = m1
    m2 = m2
    m3 = m3
    m4 = m4
    o1 = o1
    o2 = o2
    New = New
    NoMS = NoMS
    Machines = {m1, m2, m3, m4}
    OldSeq <- MCOldSeq2
    InitOwner <- MCInitOwner2
    Replicas = 3
    MaxUnavail = 2
    MaxFailures = 2
    MaxMachineFails = 0
    ProtectTransfer = TRUE
    SeparateClusters = FALSE
    NodeLabelFails = FALSE
    PriorInPlace = FALSE
SPECIFICATION FairSpec
INVARIANT TypeOK
INVARIANT NoSurge
INVARIANT UnavailableCounted
PROPERTY OnlyUpdatedMachinesMove
PROPERTY RolloutCompletes
PROPERTY RolloutRefinement
