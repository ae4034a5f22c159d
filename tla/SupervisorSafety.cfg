SPECIFICATION FairSpec
CONSTANTS
  Plugin = {s1, s2}
  Gap = {1, 3}
  CrashWindow = 3
  CrashLoopThreshold = 2
  BaseBackoff = 1
  MaxBackoff = 2
  Cooldown = 3
INVARIANTS
  TypeOK
  FailureRateBounded
  DegradedCanRecover
PROPERTIES
  KeptAlive
