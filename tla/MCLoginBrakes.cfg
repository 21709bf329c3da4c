SPECIFICATION Spec
CONSTANTS
  c1 = c1
  c2 = c2
  k1 = k1
  Calls <- MCCalls
  Keys <- MCKeys
  Burst = 2
  Rate = 1
  Unit = 2
  SweepInterval = 2
  BucketTTL = 4
  MaxFailedAttempts = 2
  LockoutDuration = 1
  MaxLockoutDuration = 3
  Retain = 1
  MaxFailures = 4
  MaxNow = 6
SYMMETRY Symmetry
INVARIANTS
  NoMoreThanTheRate
  LocksHold
PROPERTIES
  LocksYieldOnlyToStraddlers
