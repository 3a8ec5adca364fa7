CONSTANTS
  Procs = {1, 2}
  Held = {3}
  Holder <- Holders
  MailboxLimit = 1
  Programs <- SafePrograms
SPECIFICATION FairSpec
INVARIANTS NeverRefused TypeOK OnePlace PausedIsAtRest
PROPERTIES ImplementsSerialWorld RootEndReturns
