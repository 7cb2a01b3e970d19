SPECIFICATION MCSpec
CONSTANTS
    r1 = r1
    r2 = r2
    conversation = conversation
    c1 = c1
    c2 = c2
    s1 = s1
    s2 = s2
    s3 = s3
    Runs = {r1, r2}
    Conversations = {conversation}
    ConversationOf <- MCConversationOf
    Readers = {s1, s2, s3}
    MaxHosts = 2
    QueueSize = 2
    None = None
    Clients = {c1, c2}
    Commands = {"pause", "revise", "cancel", "resume"}
    MaxLog = 4
    MaxTries = 2
    f1 = f1
    f2 = f2
    Threads = {c1, c2}
    Flows = {f1, f2}
    Nowhere = None
    MaxAsked = 1
SYMMETRY MCSymmetry
CONSTRAINT ClientBounds
INVARIANTS
    RegistryKept
    RestTold
    NothingMissed
    PageSound
CHECK_DEADLOCK FALSE
