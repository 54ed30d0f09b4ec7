\* Two overlapping imports, failures.
SPECIFICATION Spec
CONSTANTS
  a = a
  b = b
  r1 = r1
  r2 = r2
  NoId = NoId
  NoRun = NoRun
  Slots <- MCSlots
  Values <- MCValues
  Runs <- MCRuns
  Answers <- MCAnswers
  Faults = TRUE
SYMMETRY MCSymmetry
INVARIANT ReimportSettles
PROPERTIES CommitsWholeAnswers IdsAreKept
