SPECIFICATION Spec
CONSTANTS
  Files <- Inputs
  Options <- Lines
  Lengths = {14}
  Period = {2, 3}
  DefaultMatch = 4
  DefaultCdc = 4
  CdcMatch = 2
  Slices = 2
  WindowHash <- Sum2
  HashSlots = 2
  Cycles = 2
  Lookahead = 2
  Piece = 3
  Stripe = 9
  WinSize = 1
  MinimalMatch = 2
  MaxMarks = 1
INVARIANTS
  TypeOK
  RecordsReproduce
  HeaderAgrees
