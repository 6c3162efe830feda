\* Numbering, assignment and export of the incidents of a day.
CONSTANTS
  alice = alice
  ip = ip
  url = url
  Indicators <- MCIndicators
  Analysts <- MCAnalysts
  Base = 3
  Width = 1
  PageSize = 1
  ClockSteps <- MCSteps
  MaxCases = 2
  MaxRows = 2
  MaxTime = 2
SYMMETRY MCSymmetry
SPECIFICATION Spec
INVARIANTS
  NumbersStayFresh
  CasesAccountedFor
  ExportsAgree
  CountsAreTrue
  AssignmentsTakeEffect
CHECK_DEADLOCK FALSE
