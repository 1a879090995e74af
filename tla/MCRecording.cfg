SPECIFICATION Spec
CONSTANTS
    Ops = {o1, o2}
    o1 = o1
    o2 = o2
    Modes = {"demonstration"}
    Routes = {"extract_then_cloud", "screenshots_to_cloud"}
    RetentionLimit = 1
    MaxRecs = 2
    MaxTokens = 2
    MaxSteps = 1
    MaxReviews = 2
SYMMETRY Symmetry
INVARIANT ActiveCanBeStopped
INVARIANT ConsentPerRecording
INVARIANT ReviewsStand
