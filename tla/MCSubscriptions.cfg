SPECIFICATION Spec
CONSTANTS
    Urls = {u1, u2}
    Links = {"a", "b"}
    Replies <- MCReplies
    MaxBytes = 1
    MaxLinks = 2
    Workers = 2
    MaxId = 2
    MaxFetches = 2
SYMMETRY Alike
CHECK_DEADLOCK FALSE
INVARIANTS
    ServedSound
    ReportTruthful
