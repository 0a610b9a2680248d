SPECIFICATION LoopsSpec
CONSTANTS
  hourly = hourly
  nightly = nightly
  Beats = {hourly, nightly}
  Allowed <- TwoPeriods
  MaxTime = 5
  MaxFaults = 1
  Reports = {r1}
  HoursPerDay = 2
  DaysPerWeek = 2
  Dates = {2, 28}
  DateOf <- MonthEnds
  MaxHours = 4
  MaxRequests = 2
  MaxSlips = 1
  MinutesPerDay = 4
  WeekDays = 3
  MaxMinutes = 14
  MaxWindows = 1
INVARIANTS EventsTellStatus ReportsOnTime
PROPERTIES SilenceIsNoticed RecoveryIsNoticed AlertsSilenced
