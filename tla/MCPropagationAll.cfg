SPECIFICATION Spec
CONSTANTS
  Regs = {"RAX", "RDX"}
  RAX = "RAX"
  RDX = "RDX"
  RBP = "RBP"
  RSP = "RSP"
  Scratch = "SCRATCH"
  Xmm = "XMM"
  Mem = "mem"
  W = 2
  L = 3
  Q = 4
  Size = 4
  Input = {0, 3}
  Sources = {s1}
  Program = {"plain", "imul3", "leave", "extend", "div", "memdiv", "mul", "shift", "sse", "bitscan", "std", "lea32", "cmpxchg8"}
  Widths = {1, 2, 3, 4}
  MaxIns = 2
INVARIANTS
  TypeOK
\* MaxIns instructions executed, the program has ended.
CHECK_DEADLOCK FALSE
