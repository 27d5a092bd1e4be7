SPECIFICATION Spec
CONSTANTS
  chat = chat
  page = page
  Correctors = {chat, page}
  Rows = {1, 2, 3}
  Dates = {0, 1, 2}
  InitialDates = {1}
  Leads = {1}
  Bodies = {1}
  MaxEdits = 2
  MaxMishaps = 1
SYMMETRY Interchangeable
CHECK_DEADLOCK FALSE
INVARIANTS PrefsAreFollowed
PROPERTIES OverwrittenIsRecorded LandsRight ClosedIsQuiet
