SPECIFICATION Spec
CONSTANTS
    Procs <- TwoProcs
    MailboxLimit = 1
    Budget <- MailBudget
    Ops = {"send", "recv", "spawn", "done", "self"}
    TicketSpace = 4
INVARIANTS
    DeadlockIsReal
