CONSTANTS
    Holders = {c1, c2}
    Asynchronous = FALSE
    Backends = {"thread", "process", "subprocess", "cloud", "broker", "kubernetes"}
    Reports = {"running", "succeeded", "failed", "cancelled"}
    MaxRetries = 1
SPECIFICATION PollingSpec
INVARIANTS TerminalCacheIsTrue AnswersAreFresh
PROPERTY StaleSnapshotsDieOut
