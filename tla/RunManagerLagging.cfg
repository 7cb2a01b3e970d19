SPECIFICATION ManagerSpec
CONSTANTS
    r1 = r1
    r2 = r2
    c = c
    s1 = s1
    s2 = s2
    s3 = s3
    Runs = {r1, r2}
    Conversations = {c}
    ConversationOf <- MCConversationOf
    Readers = {s1, s2, s3}
    MaxHosts = 3
    QueueSize = 2
    None = None
SYMMETRY MCSymmetry
INVARIANT OneHostPerConversation
CHECK_DEADLOCK FALSE
