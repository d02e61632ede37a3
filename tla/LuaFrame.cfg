SPECIFICATION Spec
CONSTANTS
  States = {s1, s2}
  Tables = {G, t}
  Globals = G
  Plain = {a, b}
  Texts = {a}
  Threads = {}
  Foreign = {f}
  f = f
  Names = {a}
  Nil = Nil
  MaxStack = 3
  MaxFields = 1
  s1 = s1
  s2 = s2
  G = G
  t = t
  a = a
  b = b
INVARIANT TypeOK
PROPERTY ImplementsClientView
SYMMETRY Symmetry
VIEW Now
