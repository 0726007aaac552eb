SPECIFICATION Spec
CONSTANTS
  Bits = 2
  Stealth = {s1, s2}
  MaxRoutes = 3
INVARIANTS
  LookupIsLongestMatch
  ResolvedAddressRoutesBack
PROPERTIES
  AddingARouteIsLocal
CHECK_DEADLOCK FALSE
