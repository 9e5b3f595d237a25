SPECIFICATION MCSpec
CONSTANTS
  PIDs = {p1, p2}
  MaxOwners = 2
  MaxTotal = 2
  MaxIO = 1
SYMMETRY Symmetry
CHECK_DEADLOCK FALSE
INVARIANT IORateIsOfTheProcess
