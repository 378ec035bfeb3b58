SPECIFICATION SudokuSpec
CONSTANTS
  Worker = {w1, w2}
  Line <- MCLine
  Puzzle <- MCPuzzle
  Solved <- MCSolved
  solution <- MCSolution
  MaxLines = 2
  None = None
  Base = 2
CHECK_DEADLOCK FALSE
INVARIANTS
  TypeOK
  JobsSeparate
  PrintedPrefix
  MatrixMatches
  SolutionRight
PROPERTIES
  Ends
  ImplementsPool
