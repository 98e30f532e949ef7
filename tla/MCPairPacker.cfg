SPECIFICATION FairSpec
CONSTANTS
  Balls = {1, 2, 3, 4, 5, 6, 7}
  Colours = {1, 2}
  ColourOf <- FiveAndTwo
  MinusOnes = {}
  NoBall = NoBall
PROPERTIES ImplementsPacking AllPairsReturn
CHECK_DEADLOCK FALSE
