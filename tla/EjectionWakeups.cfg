SPECIFICATION FairSpec
CONSTANTS
  a = a
  b = b
  d = d
  Vnets = {0, 1}
  VCs = {a, b, d}
  VnetOf <- TwoVnets
  MaxCredit = 1
  MaxFlits = 2
  Slots = 1
PROPERTIES
  WorkGoesOn
