SPECIFICATION Spec
CONSTANTS
  Subjects = {s1, s2}
  Versions = {v1, v2}
  Requests = {q1, q2}
  MaxTokens = 3
  N = 3
  PageSize = 2
  MaxTime = 3
  Calls = {c1, c2}
  Refs = {o1}
  MaxAttempts = 2
  MaxSessions = 2
  MaxIssued = 3
  Tokens = {t1, t2}
  Dispatches = {d1, d2}
SYMMETRY Symmetry
INVARIANTS
  CredentialFollowsConsent
  AgentsCannotMint
  WalkIsExact
  OneConnectionAttempt
  CredentialSurvives
  OneOrderPerRequest
  OnlyDeadAreForgotten
CHECK_DEADLOCK FALSE
