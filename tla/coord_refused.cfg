CONSTANTS
  Procs = {1, 2}
  Held = {3}
  Holder <- Holders
  MailboxLimit = 1
  Programs <- PausedSender
SPECIFICATION Spec
INVARIANT CommitsAccepted
