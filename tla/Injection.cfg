SPECIFICATION FairSpec
CONSTANTS
  Vnets = 1
  VcPerVnet = 3
  Ordered <- OrderedVnet
  Dests = {0, 1}
  MaxFlits = 2
  MaxCredit = 2
INVARIANTS
  OnePacketPerDestination
  IdleVCsAreEmpty
  OrderedPacketsNotMixed
  NoLostWakeup
PROPERTIES
  ImplementsPort
  PacketsAreSent
