SPECIFICATION Spec
CONSTANTS
  Token = {1, 2}
  MaxTokens = 9
  MaxCandidates = 3
  BlockSize = 3
  OverlapCredit = 2
  Decay = 1
  PrefillLoadScale = 1
  RequestWeight = 1
  Softmin = FALSE
INVARIANTS
  OneHashPerFullBlock
  TurnsShareBlocks
  UnbiasedTies
  LoadNeverHelps
CHECK_DEADLOCK FALSE
