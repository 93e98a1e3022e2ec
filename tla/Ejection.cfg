SPECIFICATION BusySpec
CONSTANTS
  a = a
  b = b
  d = d
  Vnets = {0, 1}
  VCs = {a, b, d}
  VnetOf <- TwoVnets
  MaxCredit = 2
  MaxFlits = 3
  Slots = 1
INVARIANTS
  CallbackWhileStalled
  SlotsAccountedFor
  IdleVCsAreEmpty
PROPERTIES
  NoOvertaking
  StalledMessagesLeave
