CONSTANTS
  Tests = {t1, t2}
  None = None
  Answers <- MCAnswers
  MaxCalls = 2
  MaxSessions = 2
SPECIFICATION Spec
INVARIANT TypeOK
INVARIANT VerdictFollowsAuthority
INVARIANT DisagreementIsPreserved
PROPERTY EvidenceIsKept
SYMMETRY Symmetry
CHECK_DEADLOCK FALSE
