\* The loop with both roots watched and runs that fail.
CONSTANTS
  a1 = a1  a2 = a2
  Unset = Unset
  Agents = {a1, a2}
  Watched <- BothWatched
  Interval = 2
  Debounce = 2
  MaxErrors = 1
SPECIFICATION FairSpec
INVARIANTS SilenceBounded NotificationKept
PROPERTIES EventuallyScanned StopHonoured
