SPECIFICATION Spec
CONSTANTS
  FactIds = {f1}
  MinItems = 1
  MaxClicks = 1  MaxTrouble = 0
INVARIANT DotsTellTheGates
CHECK_DEADLOCK FALSE
