CONSTANTS
    p1 = p1
    p2 = p2
    PRs = {p1, p2}
    None = None
    Handlers = {h1, h2}
    Pref = "all"
    Kinds <- AllThenClose
    Links <- NoneOrBoth
    MaxMessages = 2
    MaxReviews = 2
    MaxChanges = 2
    MaxUserActions = 2
    MaxFaults = 1
    MaxRestarts = 1
    MaxEvents = 3
SPECIFICATION Spec
INVARIANTS TypeOK ShowsRows RowsTrue NoExtraDm AutopostOnce
SYMMETRY HandlerSymmetry
CHECK_DEADLOCK FALSE
