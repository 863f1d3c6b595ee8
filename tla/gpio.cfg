SPECIFICATION Spec
CONSTANTS
  Bindings <- MCBindings
  Chips = {0, 1}
  ChipOf <- MCChipOf
  LineOf <- MCLineOf
  Direction <- MCDirection
  Sets <- MCSets
  Handles = {1, 2, 3}
INVARIANTS ChipsCounted NoHandleLost
