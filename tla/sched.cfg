SPECIFICATION Spec
CONSTANTS
    Procs <- TwoProcs
    MailboxLimit = 1
    Budget <- MixedBudget
    Ops = {"send", "recv", "close", "done", "spawn", "pause", "resume", "held", "host"}
    TicketSpace = 8
INVARIANTS
    TypeOK
    OneValidEntry
    ReadyIsQueued
    BlockedIsIndexed
