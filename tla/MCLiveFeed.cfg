SPECIFICATION LiveFairSpec
CONSTANTS
    Users = {rep}
    Reporter = rep
    Devices = {dr}
    ReporterDevice = dr
    Txns = {t1, t2}
    Scores = {}
    Threshold = 1
    MaxComments = 1
    Maps = {m1}
    Slots = {s1}
    MaxNews = 2
PROPERTIES GoneForGood MapsConverge
