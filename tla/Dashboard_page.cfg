SPECIFICATION Spec
CONSTANTS
  FactIds = {f1}
  MinItems = 1
  MaxClicks = 2  MaxTrouble = 1
INVARIANT TicksStayInStep
PROPERTIES SeenRunIsFollowed LookingCatchesUp
