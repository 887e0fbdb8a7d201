SPECIFICATION Spec
CONSTANTS
  Executors = {e1, e2}
  Options = 2
  Scores <- MCScores
  BootstrapWeeks = 1
  ValidationWeeks = 2
  StepWeeks = 1
  TestWeeks = 1
  DataWeeks = 5
  RowsPerWeek = 3
  Batch = 2
  MaxFaults = 2
  LosesAt <- InLastTest
  Ancestries <- MCAncestries
  None = None
INVARIANTS
  NoLookAhead
  StudySound
  SelectionSound
PROPERTIES
  DecisionStays
  StudyEnds
