SPECIFICATION Spec
CONSTANTS
  NiceValues <- SmallNiceValues
  MaxPower = 3181
INVARIANT SetniceTakesEffect
