CONSTANTS
  Workers = {w1, w2}
  None = None
  Cases <- MCCases
  Outcomes <- MCOutcomes
  Invocations = {"none", "-n"}
  MaxDeaths = 1
SPECIFICATION Spec
INVARIANT TypeOK
INVARIANT VerdictIsEarned
INVARIANT OneRunPerFile
CHECK_DEADLOCK FALSE
