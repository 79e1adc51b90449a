CONSTANTS
    Size = 1
    Versions = {right}
    Right = right
    NoTag = notag
    MaxTries = 1
    Users = {u1}
    Stamps = 3
SPECIFICATION Spec
INVARIANTS LeasedBundleStays DownloadSettles FailedDeletesAreUndone
PROPERTIES StartupReconciles
