\* The search as the documentation tells it.
SPECIFICATION Spec
CONSTANTS
  a = a
  b = b
  r1 = r1
  r2 = r2
  NoId = NoId
  NoRun = NoRun
  Slots <- MCSlots
  Values <- MCValues
  Runs <- MCRuns
  Answers <- MCAnswers
  Faults = TRUE
SYMMETRY MCSymmetry
INVARIANT SearchNeverFails
