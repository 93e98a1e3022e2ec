SPECIFICATION FairSpec
CONSTANTS
  NumVCs = 2
  Sources = {s1, s2}
  MaxCredit = 2
  MaxFlits = 3
  EscapeRouting = TRUE
  EVC = 1
INVARIANTS
  CreditsConserved
  AssertionsHold
  IdleVCIsEmpty
  OnePacketPerVC
PROPERTIES
  ImplementsPortAndPipe
  VCsAreFreed
