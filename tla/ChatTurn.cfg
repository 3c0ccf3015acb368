SPECIFICATION ChatSpec
CONSTANTS
  Prices = {1, 3}
  Ceiling = 2
  MaxOffers = 2
  Total = 10
  MinSlice = 1
  Slice = 5
  LocalSlice = 6
  Wait = 1
INVARIANTS WithinBudget PaidOnceAndTold
PROPERTY TurnAnswered
CHECK_DEADLOCK FALSE
