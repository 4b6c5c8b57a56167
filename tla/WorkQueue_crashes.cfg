SPECIFICATION QueueSpec
CONSTANTS
  w1 = w1
  w2 = w2
  i1 = i1
  i2 = i2
  Workers <- TwoWorkers
  Items <- TwoItems
  Shutdown = Shutdown
  Nobody = Nobody
  MaxMail = 2
  MaxDeaths = 2
 
 
PROPERTY EveryItemIsDone
PROPERTY EveryWorkerStops
CHECK_DEADLOCK FALSE
