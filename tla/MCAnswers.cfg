SPECIFICATION Spec
CONSTANTS
    Alerts = {a, b}
    Comments = {p, q}
    None = None
    Views = {v, w}
    Far = Far
    NoView = NoView
    StationIds = {s}
    Accounts = {a, b}
    Nobody = Nobody
    Values = {x, y}
    Unloaded = Unloaded
    MaxChanges = 2
    Zones = {z, d}
    OfDevice = {d}
    Versions = {p, q}
    Absent = Absent
    Gone = Gone
    Null = Null
    MaxLoads = 2
    MaxWrites = 2
    Endpoints = {e1, e2, e3}
    NoEndpoint = NoEndpoint
    MaxToggles = 2
SYMMETRY Alike
INVARIANTS ThreadIsOwn OnlyKnownGaps StationsSettled SettingsTrue ListIsTrue PushTrue
CONSTRAINT Few
