SPECIFICATION FairSpec
CONSTANTS
    Procs <- TwoProcs
    MailboxLimit = 1
    Budget <- MixedBudget
    Ops = {"send", "recv", "close", "done", "spawn", "host", "snapshot", "pause", "resume", "held"}
    TicketSpace = 4
PROPERTIES
    QueuedRuns
    DoneReturns
