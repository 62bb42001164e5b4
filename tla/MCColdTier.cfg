CONSTANTS
  Value = {"a", "b"}
  MaxLen = 3
  MaxCold = 2
SPECIFICATION Spec
INVARIANTS
  DecodesToItself
  RunsAreMaximal
  PoolsAreTiled
  PromotionIsTopFrame
