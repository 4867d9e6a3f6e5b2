CONSTANTS
  MAXARGS = 3
  NPROC = 6
  PIPESIZE = 1
  INPUT = 2
  MAXLINE = 5
  MaxLeft = 2
  SHORT = 2
  Lines <- MCLines
SPECIFICATION Spec
INVARIANTS ParsesGrammar StdioOnly ForegroundDone
PROPERTY PromptReturns
