SPECIFICATION FairSpec
CONSTANTS
    QueueLimit = 2
    SlackLimit = 1
    SlackKinds = {"moved"}
    MaxAttempts = 2
    MaxTold = 4
    MaxUpsets = 2
INVARIANTS RowIsNewest RestIsStored LossIsCounted
PROPERTIES KeepsHistory ClosesInTime
CHECK_DEADLOCK FALSE
