CONSTANTS
  None = None
  Tags = {1, 2, 3}
  Bad = {3}
  Layouts = {"managed", "leftover", "standalone", "partial"}
  Spool = "app"
  Weak = {}
  MaxWrites = 3
  MaxPins = 2
  MaxFaults = 2
  MaxStops = 1
SPECIFICATION Spec
INVARIANTS NewestKept NothingToDo
PROPERTIES ComesBack Converges RequestKept ImplementsUpgrade
CHECK_DEADLOCK FALSE
