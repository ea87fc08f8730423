\* One root that cannot be watched beside one that is busy.
CONSTANTS
  a1 = a1  a2 = a2
  Unset = Unset
  Agents = {a1, a2}
  Watched <- OnlyFirst
  Interval = 3
  Debounce = 2
  MaxErrors = 0
SPECIFICATION FairSpec
PROPERTIES EventuallyScanned
