SPECIFICATION Spec
CONSTANTS
  t1 = t1
  t2 = t2
  main1 = main1
  co1 = co1
  main2 = main2
  o1 = o1
  o2 = o2
  Trees = {t1, t2}
  States = {main1, co1, main2}
  NoState = NoState
  TreeOf <- TwoTreeOf
  Objects = {o1, o2}
  Home <- TwoHome
  Nil = Nil
  Handles = {h1, h2, h3}
  MaxRef = 2
INVARIANTS
  TypeOK
  NoDanglingReference
  ExclusiveOwnership
  FreeChainIntact
  ValuesStayHome
PROPERTIES
  LeaksOnlyByAssignment
  LeakedSlotsStayPinned
  ImplementsValueHandles
CHECK_DEADLOCK FALSE
VIEW View
