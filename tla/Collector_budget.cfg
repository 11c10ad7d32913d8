SPECIFICATION Spec
CONSTANTS
  r1 = r1  r2 = r2  w1 = w1  w2 = w2  b1 = b1  b2 = b2  b3 = b3
  NoBlock = NoBlock
  Readers = {r1}
  Writers = {w1, w2}
  Blocks = {b1, b2, b3}
  Classed = {b1}
  Bytes <- MixedBytes
  NumStripes = 2
  StripeOf <- TwoStripes
  Budget = 2
  InitialLive = {b1, b2, b3}
  MaxEpoch = 3
INVARIANTS
  TypeOK NoUseAfterFree OneOwner AccountingExact BudgetRespected NothingOutlives
