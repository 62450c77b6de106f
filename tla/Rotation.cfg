SPECIFICATION Spec
CONSTANTS
    Servers = {s1, s2, s3}
    Callers = {c1, c2}
    MaxRotations = 2
    NoSecret = NoSecret
    None = None
SYMMETRY Symmetry
INVARIANTS
    TypeOK
    NobodyIsRefused
    RetiredStaysRefused
