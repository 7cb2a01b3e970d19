SPECIFICATION WsSpec
CONSTANTS
    Conversations = {c1, c2}
    Datasets = {d1}
    Readers = {r1, r2}
    Capacity = 1
    MaxWrites = 2
    Nobody = Nobody
INVARIANTS
    CacheFresh
CHECK_DEADLOCK FALSE
