SPECIFICATION Spec
CONSTANTS
  N = 1
  Threshold = 2
  Cooldown = 2
  MaxCalls = 3
PROPERTY
  OpenLastsForCooldown
