SPECIFICATION DispatchSpec
CONSTANTS
    u = u
    Users = {u}
    Watchers = {u}
    Zones = {z1, z2}
    Owner <- OwnerOf
    Devices = {d1}
    Holder <- HolderOf
    Places <- MCPlaces
    Reach = 1
    Handlers = {h1, h2}
    MaxScored = 1
    MaxTouched = 1
    MaxFaults = 1
INVARIANTS AtMostOncePush ServedMeansNotified NothingDropped SettledUserHearsOnce
CHECK_DEADLOCK FALSE
SYMMETRY Interchangeable
