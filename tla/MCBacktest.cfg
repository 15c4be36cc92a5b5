SPECIFICATION Spec
CONSTANTS
  Windows = 4
  WindowDays = 2
  WarmupDays = 2
  Dates = 10
  Faulty = TRUE
INVARIANT TypeOK
INVARIANT OneSessionLag
INVARIANT EveryDayOnce
INVARIANT RowsAreThere
INVARIANT EveryTradeCharged
