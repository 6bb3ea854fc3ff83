SPECIFICATION Spec
CONSTANTS
    Users = {rep, u1, u2}
    Reporter = rep
    Devices = {dr, d1, d2}
    ReporterDevice = dr
    Txns = {t1, t2}
    Scores = {"HIGH"}
    Threshold = 2
    MaxComments = 1
PROPERTIES ResolvedStays
