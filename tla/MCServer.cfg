SPECIFICATION Spec
CONSTANTS
    s = s
    u = u
    a = a
    w = w
    SubjectKeys = {s, u}
    AddressKeys = {a}
    WriteKeys = {w}
    LimitOf <- MCLimitOf
    SignIns = {i1, i2, i3}
    Workers = {w1, w2}
    Readers = {r1}
    Ttl = 2
    Emails = {e1}
    Passwords = {p1, p2}
    Options = {o1, o2}
    Tokens = {t1, t2}
    Requests = {q1, q2}
INVARIANTS ResetsHold WindowsHold StatsCatchUp
CONSTRAINT Few
SYMMETRY Alike
