SPECIFICATION Spec
CONSTANTS
  Interval = 6
  Timeout = 5
  StoreMax = 4
INVARIANT TypeOK OneMissTolerated
