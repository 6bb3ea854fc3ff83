SPECIFICATION PipeFairSpec
CONSTANTS
    Users = {rep}
    Reporter = rep
    Devices = {dr}
    ReporterDevice = dr
    Scores = {"HIGH"}
    Threshold = 1
    MaxComments = 0
    MaxAttempts = 2
    Txns <- MCTxns
    Scorers <- MCScorers
    Listeners <- MCListeners
    MaxFaults = 2
    MaxOutages = 1
INVARIANTS NothingLost CopiesBounded
PROPERTIES EventuallyScored EventuallyDrained
CHECK_DEADLOCK FALSE
