CONSTANTS
    Workers = {w1, w2}
    Clients = {c1, c2, c3, c4}
    NoClient = NoClient
SPECIFICATION Spec
INVARIANTS NothingLeaks ReconcilerFollows
PROPERTIES Reconnects
