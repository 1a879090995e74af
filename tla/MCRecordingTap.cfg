SPECIFICATION LiveSpec
CONSTANTS
    Ops = {o1}
    o1 = o1
    o2 = o2
    Modes = {"demonstration"}
    Routes = {"screenshots_to_cloud"}
    RetentionLimit = 1
    MaxRecs = 1
    MaxTokens = 1
    MaxSteps = 1
    MaxReviews = 0
PROPERTY StopTearsDownTheTap
