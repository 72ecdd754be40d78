SPECIFICATION Spec
CONSTANTS
  Regs = {"RAX", "RDX"}
  RAX = "RAX"
  RDX = "RDX"
  RBP = "RBP"
  RSP = "RSP"
  Scratch = "SCRATCH"
  Xmm = "XMM"
  Mem = "mem"
  W = 2
  L = 3
  Q = 4
  Size = 4
  Input = {0, 3}
  Sources = {s1}
  Program = {"plain", "div", "memdiv", "extend", "shift", "sse", "leave"}
  Widths = {1, 4}
  MaxIns = 3
INVARIANTS
  NoStaleTag
\* MaxIns instructions executed, the program has ended.
CHECK_DEADLOCK FALSE
