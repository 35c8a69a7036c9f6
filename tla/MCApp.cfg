SPECIFICATION AppSpec
CONSTANTS
  None = None
  Task = {t1, t2}
  MaxSignIns = 2
  Ad = {a1, a2, a3}
  MaxShows = 2
PROPERTIES
  OutageIsNotSignOut
  SplashAlwaysEnds
  QueueIsEmptied
CHECK_DEADLOCK FALSE
