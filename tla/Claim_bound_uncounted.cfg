SPECIFICATION Spec
CONSTANTS
  r1 = r1  r2 = r2  r3 = r3  r4 = r4
  s1 = s1  s2 = s2
  p0 = p0  p1 = p1  d0 = d0  d1 = d1
  Url = {p0, p1, d0, d1}
  NumPrefill = 1
  NumDecode = 1
  PrefillUrls <- OnePrefill
  DecodeUrls <- OneDecode
  Hash <- MCHash
  Mode = "kv"
  BlockSize = 2
  OverlapCredit = 1
  Decay = 0
  PrefillLoadScale = 1
  RequestWeight = 0
  Softmin = FALSE
  NoLimit = NoLimit
  PrefillThreshold = NoLimit
  DecodeThreshold = NoLimit
  Req = {r1, r2}
  Session = {s1, s2}
  NoSession = NoSession
  SessionOf <- OneConversation
  Isl <- MCIsl
  Blocks <- MCBlocks
  NoRoute = NoRoute
  NoBinding = NoBinding
INVARIANTS
  StreamIsCounted
