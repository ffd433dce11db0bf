SPECIFICATION DeliverySpec
CONSTANTS
    Parents = {"p"}
    Children = {"a", "b"}
    Kids <- MCKids
    Index <- MCIndex
    Category <- MCCategory
    Configs <- MCConfigs
    MaxParallel = 2
    MaxAttempts <- MCMaxAttempts
    MaxCrashes <- MCMaxCrashes
    Fan = "p"
    MaxDeliveries <- MCMaxDeliveries
CHECK_DEADLOCK FALSE
PROPERTIES DrainedMeansMerged DeliveredMeansPublished
