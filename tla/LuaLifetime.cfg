CONSTANTS
  Instances = {i1, i2}
  Threads = {c1, c2}
  Objects = {o1, o2, o3, o4, o5}
  Nobody = Nobody
SPECIFICATION Spec
INVARIANTS TypeOK NoFault OneOwner
SYMMETRY Symmetry
