SPECIFICATION SpecNumberKeys
CONSTANTS
  t1 = t1
  t2 = t2
  main1 = main1
  co1 = co1
  main2 = main2
  o1 = o1
  o2 = o2
  Trees = {t1}
  States = {main1, co1}
  NoState = NoState
  TreeOf <- OneTreeOf
  Objects = {o1, o2}
  Home <- OneHome
  Nil = Nil
  Handles = {h1, h2}
  MaxRef = 2
CHECK_DEADLOCK FALSE
PROPERTY ReservedForLuaRef
VIEW View
