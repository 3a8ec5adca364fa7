SPECIFICATION Spec
CONSTANTS
    Procs <- TwoProcs
    MailboxLimit = 1
    Budget <- TinyBudget
    Ops = {"done", "spawn", "host"}
    TicketSpace = 4
PROPERTIES
    CrashIsValue
