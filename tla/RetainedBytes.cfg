SPECIFICATION ObserverSpec
CONSTANTS
  r1 = r1  w1 = w1  b1 = b1  b2 = b2
  NoBlock = NoBlock
  Readers = {r1}
  Writers = {w1}
  Blocks = {b1, b2}
  Classed = {}
  Bytes <- UnitBytes
  NumStripes = 1
  StripeOf <- OneStripe
  Budget = 1
  InitialLive = {b1, b2}
  MaxEpoch = 3
INVARIANT
  NeverReadsCarriedAsFreed
