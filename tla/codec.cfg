CONSTANTS
  c1 = c1
  c2 = c2
  Clients <- TwoClients
  Programs <- TwoNumbers
  Base = 2
  MaxUInt = 11
  PrefixLen = 1
  Areas <- BlankOrDigits
  Leftovers <- SomeLeftovers
SYMMETRY Symmetry
SPECIFICATION Spec
CHECK_DEADLOCK FALSE
INVARIANT TypeOK
INVARIANT ExactUnlessShorter
INVARIANT BufferIsOverlay
