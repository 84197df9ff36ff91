SPECIFICATION WiFlySpec
CONSTANTS
  Phrases <- MCPhrases
INVARIANTS JoinedAsTold
PROPERTIES AnswersAreOwn EndsUnlessMasked
\* The driver waits without a time-out, and ends.
CHECK_DEADLOCK FALSE
