SPECIFICATION MCSpec
CONSTANTS
  PIDs = {p1, p2}
  MaxOwners = 2
  MaxTotal = 2
  MaxIO = 0
SYMMETRY Symmetry
CHECK_DEADLOCK FALSE
INVARIANTS
  TypeOK
  CPUWindowCovers
  CPUSharesAddUp
  MemoryTypeOK
  MemoryIsOfTheProcess
PROPERTY
  SharesMissNothing
