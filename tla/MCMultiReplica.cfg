CONSTANTS
    Clients = {c1, c2}
    Keys = {k1, k2}
    None = None
    MaxQueue = 1
    Replica = TRUE
    Ops = {"SET", "DEL", "SWAPDB", "GET"}
SPECIFICATION Spec
SYMMETRY Symmetry
INVARIANTS
    NoSpuriousDirtyCas
