CONSTANTS
  c1 = c1
  c2 = c2
  d1 = d1
  d2 = d2
  d3 = d3
  Cpu = {c1, c2}
  Driver = {d1, d2}
  Shirq = {d1, d2}
  Null = Null
SPECIFICATION Spec
INVARIANT MaskedIsRecorded
