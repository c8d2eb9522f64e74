SPECIFICATION Spec
CONSTANTS
  Pixels = {p1, p2}
  Ys = {y0, y1}
  Capacity = 2
  Modulus = 4
  NoLine = NoLine
INVARIANT NoSlotRace
PROPERTY ImplementsFifo
