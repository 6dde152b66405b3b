CONSTANTS
  r1 = r1
  r2 = r2
  Caller = {r1, r2}
  Tasks <- MCTasks
  TaskOf <- MCTaskOf
  MaxDeaths = 1
SPECIFICATION FairSpec
INVARIANTS TypeOK
CHECK_DEADLOCK FALSE
PROPERTIES EveryRequestSettles KeptAlive LeavesWithTheProxy PauseQuiets TurnComes AnsweredForItself
