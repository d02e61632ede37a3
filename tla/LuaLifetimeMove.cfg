CONSTANTS
  Instances = {i1}
  Threads = {c1}
  Objects = {o1, o2, o3}
  Nobody = Nobody
SPECIFICATION MovingSpec
INVARIANT ClosedOnce
CHECK_DEADLOCK FALSE
