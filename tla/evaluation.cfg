\* Four examples in batches of two, and two interruptions.
CONSTANTS
  Examples = {0, 1, 2, 3}
  SaveEvery = 2
  MaxCrashes = 2
SPECIFICATION FairSpec
INVARIANTS EvalTypeOK ScoredOnce NothingDropped OneHistory
PROPERTIES LossBounded EveryExampleScored
\* A file that cannot be read stops every program.
CHECK_DEADLOCK FALSE
