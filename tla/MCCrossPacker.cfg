SPECIFICATION FairSpec
CONSTANTS
  a1 = a1  a2 = a2  a3 = a3  b1 = b1  b2 = b2  c1 = c1  d1 = d1
  Balls = {a1, a2, a3, b1, b2, c1, d1}
  ColourOf <- ThreeAndTwo
  NoBall = NoBall
PROPERTIES ImplementsPacking AllPairsReturn
CHECK_DEADLOCK FALSE
