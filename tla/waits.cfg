CONSTANTS
  Stream <- ThreeBytes
  INPUT_CHUNK_BYTES = 2
  INPUT_CHUNKS = 1
  MAX_INPUT_BUFFER = 3
  MAX_PENDING_IO = 2
  Machines = {1, 2}
  Procs = {1}
  Programs <- Cases
  max_waits = 5
SPECIFICATION FairSpec
INVARIANTS TypeOK WaitTreeWellFormed BytesConserved OrderKept TokensAgree FailsOnlyLate PendingExact
PROPERTIES ReadEnds
