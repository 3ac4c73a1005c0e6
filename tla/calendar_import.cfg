SPECIFICATION Spec
CONSTANTS
  c1 = c1
  c2 = c2
  c3 = c3
  r1 = r1
  r2 = r2
  r3 = r3
  open = open
  closed = closed
  tehran = tehran
  utc = utc
  Callers = {c1, c2, c3}
  Requests = {r1, r2, r3}
  Dates = {1, 2, 3}
  Sessions = {open, closed}
  Timezones = {tehran, utc}
  Calendars <- AllCalendars
  Documents <- MixedDocuments
  MaxFaults <- UnevenFaults
  None = None
INVARIANTS
  TypeOK
  CalendarIsSound
PROPERTIES
  BatchesEnd
CHECK_DEADLOCK FALSE
