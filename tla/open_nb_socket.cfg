SPECIFICATION Spec
CONSTANTS
  N = 3
  FDs = {3, 4}
INVARIANTS NothingLeaks FirstGoodAddress
PROPERTY Returns
