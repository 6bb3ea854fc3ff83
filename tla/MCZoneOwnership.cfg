SPECIFICATION Spec
CONSTANTS
    Zones = {z0, z1}
    Legacy = {z0}
    Endpoints = {e1}
    Accounts = {u1, u2}
    Fingerprints = {f1, f2}
    Bodies = {b1, b2}
    Txns = {t1, t2}
    MaxInserts = 2
    NONE = NONE
SYMMETRY Interchangeable
INVARIANTS RightfulOwners
