SPECIFICATION Spec
CONSTANTS
  Regs = {5, 7}
  Size = 36
  Starts = {0, 7}
  Frames = {0, 4}
  Counts = {2, 9, 15}
  Input <- MCInput
  Program = {"plain", "bitscan", "movsxw", "memext", "div", "memdiv", "mul", "imul3", "xchgw", "xadd", "xaddmem", "cmpxchg8", "stosb", "stosn", "stosm", "std", "shift", "popa", "popaoff", "lea16", "enter", "sse"}
  KeepFlow = {"plain", "imul3", "div", "stosb", "stosn", "popa"}
  KeepClean = {"plain", "bitscan", "movsxw", "div", "memdiv", "xadd", "stosb", "shift", "popa"}
  MaxIns = 2
INVARIANTS
  TypeOK
  NoLostFlow
  NoStaleTag
\* MaxIns instructions executed, the program has ended.
CHECK_DEADLOCK FALSE
