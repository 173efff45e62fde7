SPECIFICATION FairSpec
CONSTANTS
    Posters = {t1, t2}
    Owner = owner
    Messages = {m1, m2, m3}
    Quit = quit
    NoMessage = NoMessage
    MaxPosts = 3
INVARIANTS
    NoDeletedRead
    EveryMessageCounted
PROPERTIES
    ImplementsMailbox
    QuitReturns
CHECK_DEADLOCK FALSE
