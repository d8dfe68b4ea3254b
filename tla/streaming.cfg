CONSTANTS
  Durations <- ShortOrLong
  Period = 2
  Step = 3
  Places <- Layout
  Open = 0
  Hold <- Closed
  Grips <- Found
  MaxVelocity = 600
  MaxAcceleration = 150
  GripLimits <- Limits
SPECIFICATION Spec
INVARIANTS StreamFollowsPath SentAsValidated SentWithinLimits SampledPartOpenInPlace
