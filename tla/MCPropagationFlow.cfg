SPECIFICATION Spec
\* No frame and no vector in this program: RBP, RSP and Xmm name no register of
\* their own.
CONSTANTS
  Regs = {"RAX", "RDX"}
  RAX = "RAX"
  RDX = "RDX"
  RBP = "RDX"
  RSP = "RDX"
  Scratch = "SCRATCH"
  Xmm = "RDX"
  Mem = "mem"
  W = 2
  L = 3
  Q = 4
  Size = 4
  Input = {0, 3}
  Sources = {s1}
  Program = {"plain", "imul3", "div"}
  Widths = {1, 3, 4}
  MaxIns = 3
INVARIANTS
  NoLostFlow
\* MaxIns instructions executed, the program has ended.
CHECK_DEADLOCK FALSE
