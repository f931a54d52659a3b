SPECIFICATION Spec
CONSTANTS
  Mutexes = {m1, m2}
  Sems = {s1}
  MaxNest = 2
  MaxCtr = 1
INVARIANTS
  RunsMostUrgent
  PriorityInherited
  ListsConsistent
  NoTimeSlicing
PROPERTIES
  ImplementsRtos
