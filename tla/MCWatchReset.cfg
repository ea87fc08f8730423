\* The interval after a periodic run that failed.
CONSTANTS
  a1 = a1  a2 = a2
  Unset = Unset
  Agents = {a1, a2}
  Watched <- BothWatched
  Interval = 2
  Debounce = 2
  MaxErrors = 1
SPECIFICATION Spec
PROPERTIES FailureResetsInterval
