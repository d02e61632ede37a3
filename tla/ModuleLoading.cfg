CONSTANTS
  Names = {n1, n2}
  MaxModules = 3
  MaxStack = 12
  MaxOwn = 3
  WithField = {2}
  Plain = Plain
  Table = Table
  Package = Package
  Loaded = Loaded
  Scripted = Scripted
  NoRef = NoRef
  Nil = Nil
SYMMETRY Symmetry
SPECIFICATION Spec
INVARIANTS TypeOK StaleOnlyByScript
PROPERTIES InUseIsNotFreed EndsAllOrNothing EvictsOnlyInner
