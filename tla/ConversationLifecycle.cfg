\* Two requests in one conversation, long enough for one to go stale while the
\* other begins.
SPECIFICATION LifeFairSpec
CONSTANTS
    Messages = {m1, m2}
    Conversations = {c1}
    None = None
    StaleAfter = 1
    MaxTime = 3
INVARIANTS
    OneStreaming
    ToldAsStored
    ConversationsAreWhole
    ContextIsSettled
PROPERTIES
    StreamingEnds
CHECK_DEADLOCK FALSE
