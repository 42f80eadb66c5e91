CONSTANTS
  c1 = c1
  c2 = c2
  d1 = d1
  d2 = d2
  d3 = d3
  Cpu = {c1, c2}
  Driver = {d1, d2, d3}
  Shirq = {d1, d2, d3}
  Null = Null
SPECIFICATION FairSpec
INVARIANTS TypeOK OneCpuAtATime DisabledIsQuiet FreedIsUnused EdgeIsRemembered
PROPERTY EdgeIsServed
