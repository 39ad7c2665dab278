CONSTANTS
    p1 = p1
    p2 = p2
    PRs = {p1}
    None = None
    Handlers = {h1}
    Pref = "all"
    Kinds <- ReviewAndCheck
    Links <- NoneOrOne
    MaxMessages = 1
    MaxReviews = 2
    MaxChanges = 2
    MaxUserActions = 2
    MaxFaults = 0
    MaxRestarts = 0
    MaxEvents = 3
SPECIFICATION Spec
INVARIANT ReactionsTrue
CHECK_DEADLOCK FALSE
