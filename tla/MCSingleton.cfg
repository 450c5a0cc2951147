SPECIFICATION SingletonSpec
CONSTANTS
    Values = {v, w, x}
    a = a
    b = b
    v = v
    w = w
    x = x
    Insts = {a}
    MaxGen = 3
    Absent = Absent
PROPERTIES
    ImplementsRegister
