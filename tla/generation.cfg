\* Two requests, one thread, one permit; three candidates, two results.
CONSTANTS
  Requests = {q1, q2}
  Rows = {a, b}
  MaxCandidates = 3
  MaxConcurrent = 1
  PoolSize = 1
SPECIFICATION FairSpec
INVARIANTS GenerationTypeOK PermitsAccounted AnswerFitsCandidates LoggedOnce
PROPERTY GenerationsAnswered
\* The system stops when every request is answered.
CHECK_DEADLOCK FALSE
