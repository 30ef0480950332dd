SPECIFICATION PostboxSpec
CONSTANTS
  kMaxMessages = 3
  Msg = {m1, m2}
  ZeroMsg = ZeroMsg
  NoMsg = NoMsg
  MaxSends = 5
INVARIANTS ForwardsWhatWasSent
