CONSTANTS
  c1 = c1
  c2 = c2
  c3 = c3
  Cpu = {c1, c2, c3}
  NoCpu = NoCpu
  Reorder = {c3}
  Nest = 2
SPECIFICATION CliFairSpec
INVARIANTS GlobalCli OneOwner
PROPERTY AllIsServed
