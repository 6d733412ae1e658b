SPECIFICATION FairSpec
CONSTANTS
  Ordinary = {"o"}
  Stops = {"s"}
  Connections = 1
  Crowds = {{"o"}, {"s"}, {"o", "s"}}
  Behind = TRUE
CHECK_DEADLOCK FALSE
INVARIANT AnswersTrue
PROPERTY AnsweredAsRecorded
PROPERTY RootCauseKept
PROPERTY ConnectionsEnd
PROPERTY ShutdownExits
