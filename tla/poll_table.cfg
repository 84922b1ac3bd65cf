SPECIFICATION TableSpec
CONSTANTS
  BACKLOG_MAX = 64
  EntrySize = 8
  MaxEntries = 70
CHECK_DEADLOCK FALSE
INVARIANTS
  EntriesAreAllocated
