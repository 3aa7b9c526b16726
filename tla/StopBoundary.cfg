SPECIFICATION FairSpec
CONSTANTS
    MaxExecutions = 2
    MaxDeliveries = 2
    MaxContinues = 1
    MaxWithdrawals = 1
    MaxRestarts = 1
    MailboxLimit = 1
CONSTRAINT Instances
INVARIANT GuidanceAnswered
INVARIANT StopFence
INVARIANT GuidanceOwned
PROPERTY WakeConsumed
CHECK_DEADLOCK FALSE
