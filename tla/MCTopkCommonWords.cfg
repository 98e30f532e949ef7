SPECIFICATION Spec
CONSTANTS
  Words = {1, 2, 3, 4}
  Skipped = {4}
  Texts <- FewTexts
  kValue = 2
  Absent = Absent
  MaxRuns = 2
INVARIANTS CountsConserved TopKOfCommonWords LeftoversDoNotStopIt
PROPERTY RunEnds
CHECK_DEADLOCK FALSE
