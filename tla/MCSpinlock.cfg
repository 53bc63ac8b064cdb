SPECIFICATION Spec
CONSTANTS
  Cpu = {c0, c1}
  Thread = {t0, t1}
  wait_lock = wait_lock
  kmem = kmem
  Dev = {wait_lock, kmem}
  Nests <- MCNests
  None = None
SYMMETRY Symmetry
INVARIANTS
  IntrRestored
  WfiSafe
  NoDeadlock
PROPERTY ImplementsLock
