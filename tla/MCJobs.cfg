SPECIFICATION Spec
CONSTANTS
  MaxPid = 3
  MaxJobs = 2
  Lines <- MCLines
  WaitMax = 2
  ForkFails = {3}
  Chars <- MCChars
  MaxChars = 5
  MaxTokens = 6
INVARIANTS ZombieNoticed Tracked TerminalPassed LinesLexed LinesParsed
CHECK_DEADLOCK FALSE
