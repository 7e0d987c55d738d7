SPECIFICATION FairSpec
CONSTANTS
  NWorkers = 2
  Tasks = {t1}
  NoTask = none
CHECK_DEADLOCK FALSE
PROPERTIES RollbackReturns
