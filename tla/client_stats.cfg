\* One worker with two clients, the clock over 1..4 and up to two requests,
\* in count mode and in timing mode with a warm-up.  The run ends once the
\* statistics are reduced, so a final state is not a deadlock.
CONSTANTS
  Clients = {c1, c2}
  MaxTime = 3
  MaxReqs = 2

SPECIFICATION Spec
CHECK_DEADLOCK FALSE
INVARIANT TypeOK StatsExact SamplesOrdered RpsMeasuresMain SuccessesAttributed
