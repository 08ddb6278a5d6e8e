SPECIFICATION SequentialSpec
CONSTANTS
    r1 = r1
    r2 = r2
    Runners = {r1, r2}
    Specs <- AllSpecs
    MaxCount = 1000
    MaxMockValue = 100
    MaxLease = 300
    MaxSamples = 3
    MaxHypothesis = 4096
    MaxTemperature = 180
    MaxPower = 250
    MaxErrors = 0
    Baselines <- Readings
    MaxTrials = 1
    Samples <- SmallSamples
    Bounds <- SmallBounds
    MaxSet = 2
    Words = {"a", "b"}
    MaxArguments = 4
INVARIANTS
    ReplayAccepts
    AppliedIsInside
    AnswerNamesOwnTrial
    PromotionIsInside
    ParsedAsDocumented
PROPERTIES
    MutationIsReported
    TighteningNeverPromotes
CHECK_DEADLOCK FALSE
