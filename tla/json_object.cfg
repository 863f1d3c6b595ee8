SPECIFICATION Spec
CONSTANTS
  k1 = k1
  k2 = k2
  k3 = k3
  k4 = k4
  NULL = NULL
  Keys = {k1, k2, k3, k4}
  Values <- MCValues
  Offered <- MCOffered
  Hashes = {0, 3, 7}
  STARTING_CAPACITY = 4
SYMMETRY MCSymmetry
INVARIANTS TypeOK CellsMatchItems EnumeratesWhatIsFound HoldsItsValues
PROPERTY ImplementsMap
