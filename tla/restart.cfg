SPECIFICATION Spec
CONSTANT MaxProcesses = 4
INVARIANTS
  EntryOfLast
  LostToPredecessor
