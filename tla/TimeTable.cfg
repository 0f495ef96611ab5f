SPECIFICATION Spec
CONSTANTS
  Lines = {mon, tue}
  NoLine = NoLine
  Day = 6
  MinGap = 2
  Pixel = 1
  MaxBlocks = 3
  Presses <- MCPresses
  Deltas <- MCDeltas
  Times <- MCTimes
  Opening <- MCOpening
  MaxAnswers = 1
SYMMETRY MCSymmetry
CONSTRAINT Few
INVARIANTS TypeOK Disjoint NoEmptyBlock NoDragUnderForm
