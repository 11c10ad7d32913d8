SPECIFICATION FairSpec
CONSTANTS
  r1 = r1  r2 = r2  w1 = w1  w2 = w2  b1 = b1  b2 = b2  b3 = b3
  NoBlock = NoBlock
  Readers = {r1}
  Writers = {w1, w2}
  Blocks = {b1}
  Classed = {b1}
  Bytes <- UnitBytes
  NumStripes = 1
  StripeOf <- OneStripe
  Budget = 9
  InitialLive = {b1}
  MaxEpoch = 4
PROPERTIES
  Reclaimed
