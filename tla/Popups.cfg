SPECIFICATION PopupsSpec
CONSTANTS
  Ids = {n1}
  Contents <- MCContents
  Callers = {c1, c2}
  Texts = {t1, t2}
  KeepClips = 1
  MaxReports = 3
  Sim = Sim
  None = None
SYMMETRY Alike
INVARIANTS
  StalePopupHasCause
  SettledUiFollowsCalls
PROPERTIES
  ControlFitsCall
CHECK_DEADLOCK FALSE
