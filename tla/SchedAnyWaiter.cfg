SPECIFICATION Spec
CONSTANTS
  Slots = {b, i, s1, s2, s3}
  Boot = b
  Idle = i
  Pml4s = {k, q1, q2, q3}
  KernelPml4 = k
  NULL = null
  MaxId = 6
  AnyWaiter = TRUE
SYMMETRY ProcessSymmetry
INVARIANT NoLostWake
