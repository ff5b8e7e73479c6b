SPECIFICATION Spec
CONSTANTS
  N = 2
  Pool = {f1, f2, f3, f4, f5}
  Pages = {4}
  Procs = {p1, p2}
  Kernel = kernel
  UserSizes = {29, 32}
  KernelSizes = {29, 32}
  NoFrame = none
SYMMETRY Symmetry
INVARIANTS TypeOK ProcessTranslation KernelTranslation
