CONSTANTS
    k1 = k1
    k2 = k2
    f1 = f1
    f2 = f2
    Keys = {k1}
    Fields = {f1, f2}
    TicksPerSecond = 2
    MaxSeconds = 2
    MaxTicks = 4
    MaxArgs = 2
    Absent = Absent
    NoTtl = NoTtl
    NotAnInt = NotAnInt
SPECIFICATION Spec
CONSTRAINT WithoutExpiry
INVARIANT HashCountIsFields

