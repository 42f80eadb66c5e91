CONSTANTS
  c1 = c1
  c2 = c2
  c3 = c3
  Cpu = {c1, c2}
  NoCpu = NoCpu
  Reorder = {c1, c2}
  Nest = 1
SPECIFICATION CliSpec
INVARIANT NobodyInInterrupt
