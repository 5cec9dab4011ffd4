SPECIFICATION Spec
CONSTANTS
  Sizes = {1, 2}
  Rates = {15, 30}
  Rate = 30
  MaxModes = 2
  MaxRates = 2
  MaxPlugs = 2
  MaxFaults = 2
INVARIANTS PowerMatchesHandle ModeOffered
