SPECIFICATION Spec
CONSTANTS
    None = None
    Panes <- MCPanes
    Threads = {t1, t2}
    Peers = {c1}
    MaxSubs = 1
    Resumed = {t2}
    MaxChanges = 3
    MaxSends = 2
    MaxDeeds = 4
    MaxTurns = 1
    MaxMishaps = 1
    MaxWaiting = 1
INVARIANTS
    MailToItsThread
    NoStraySubscription
    WantsServed
    SubscriberTold
PROPERTIES
    NoticeEarned
CHECK_DEADLOCK FALSE
