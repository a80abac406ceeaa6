CONSTANTS
  RobotIds <- MCRobotIds
  Progresses <- MCProgresses
  SetDetectorColor = TRUE
  RecordRosbag = TRUE
SPECIFICATION ShutdownSpec
INVARIANTS OneCallPerChange OneRequestAtATime PortClosedWhenGone
PROPERTIES DestructorReturns ColorIsEventuallyAccepted
CHECK_DEADLOCK FALSE
