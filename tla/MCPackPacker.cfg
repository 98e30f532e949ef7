SPECIFICATION FairSpec
CONSTANTS
  N = 3  Same = 6  Collected = {1, 3}
  Balls = {1, 2, 3, 4, 5, 6}
  Colours = {1, 2}
  ColourOf <- TwoColours
  Id <- TwoAlike
  Junk = Junk  NULL = NULL
PROPERTIES ImplementsPacking AllPacksReturn
CHECK_DEADLOCK FALSE
