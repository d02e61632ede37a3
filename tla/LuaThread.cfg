SPECIFICATION Spec
CONSTANTS
  Main = Main
  Coroutines = {c1, c2}
  c1 = c1
  c2 = c2
  Functions = {f}
  f = f
  Plain = {v}
  v = v
  Foreign = Foreign
  MaxStack = 2
SYMMETRY Symmetry
INVARIANTS TypeOK OneResumeEach
PROPERTIES WaitersUndisturbed GivenIsReceived ImplementsCoroutine
