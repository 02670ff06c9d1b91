SPECIFICATION FairSpec
CONSTANTS
  r1 = r1  r2 = r2
  PrefillPorts <- TwoPrefillPorts
  DecodePorts <- OneDecodePort
  SidePortArgs <- DefaultSidePorts
  Req = {r1, r2}
  Id = {i1, i2}
  Absent = Absent
  None = None
  MaxTokens <- MCMaxTokens
  MaxCompletionTokens <- MCMaxCompletionTokens
INVARIANTS
  TypeOK
  OwnCache
  TransferAfterOneToken
PROPERTIES
  LegsMeet
  HeldIsLetGo
