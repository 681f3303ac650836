SPECIFICATION Spec
CONSTANTS
    Jobs = {"poll", "warm"}
    Recorded = {"poll"}
    Period <- HalfHours
    Budget <- PollSix
    MaxTicks <- PollSix
    Pid = {1, 2, 3}
INVARIANTS OneRunPerName FinishedHasCommitted BudgetCoversMisses
PROPERTIES NameIsGivenBack SilenceIsSeen
