\* Two fills by three threads.
SPECIFICATION Spec
CONSTANTS
  t1 = t1
  t2 = t2
  t3 = t3
  Workers <- ThreeThreads
  MaxGeneration = 4
INVARIANTS TasksAreQuiet
PROPERTIES FillsInTwoPasses FillEnds
CHECK_DEADLOCK FALSE
