SPECIFICATION Spec
CONSTANTS
    Null = Null
    Hours <- MCHours
    Answers <- MCAnswers
    Now = 8785
    Config <- MCConfig
    Former <- MCFormer
    Histories <- MCHistories
    Sinces = {0}
    MaxWrites = 1
INVARIANTS BucketsAreWhole CoarseShareIsBetween RecomputeReachesEveryRow
CHECK_DEADLOCK FALSE
