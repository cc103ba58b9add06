SPECIFICATION CallsSpec
CONSTANTS
  t1 = t1
  t2 = t2
  Tasks <- MCTasks
  LinesOf <- MCLinesOf
  Deadline = 3
INVARIANT OutcomesTrue
CHECK_DEADLOCK FALSE
