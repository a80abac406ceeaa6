CONSTANTS
  Turn = 4
  Commands <- MCCommands
  Delays = {1, 2}
  MaxCommands = 3
  QueueDepth = 2
  ForeignMessages <- MCForeign
  MaxForeign = 1
  ClockSteps <- MCClockSteps
  MaxClockSteps = 1
  Lowest <- MCLowest
  Highest = 2
SPECIFICATION AimSpec
INVARIANTS AimTypeOK FrameStaysInLimits
PROPERTIES SweepReachesBothEnds FrameFollowsAim
