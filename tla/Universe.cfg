SPECIFICATION Spec
CONSTANTS
    a = a
    b = b
    c = c
    d = d
    None = None
    Symbols = {a, b, c, d}
    Synthetic = {d}
    Lists <- MCLists
    Known = {b}
    MaxVersion = 5
INVARIANTS CurrentIsComplete NeverMixed
PROPERTIES CurrentNeverOlder
