SPECIFICATION Spec
CONSTANTS
    user = user
    workspace = workspace
    Scope = {user, workspace}
    Rank <- SearchOrder
    Packages <- SomePackages
    NoHash = NoHash
    Content = {"sound", "plain", "flawed"}
    Passing = {"sound", "plain"}
    Ready = {"sound"}
    Risk = {"low", "high"}
    Nothing = Nothing
    Partial = Partial
    MaxChanges = 2
    MaxFaults = 1
    PackageMaturity = "stable"
    MaxReviews = 1
    MaxAudits = 1
    MaxRequests = 1
    MaxPlans = 1
    MaxEdits = 1
INVARIANTS
    ActivationBacked
    IndexAgrees
    PromotionEarned
PROPERTIES
    RequestSpentOnce
CHECK_DEADLOCK FALSE
