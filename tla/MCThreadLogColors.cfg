CONSTANTS
  Chains <- MCChains
  MaxIdx <- MCMaxIdx
  MaxEntries <- MCColorsEntries
  MaxSnapshots <- MCControlSnapshots
  MaxErrors <- MCCoreErrors
  MaxMultis <- MCNoMultis
  Requests <- MCColorsRequests
  MAX_PREFETCH <- MCMaxPrefetch
  ProbeIdx <- MCProbeIdx
  MyColors <- MCColors

SPECIFICATION Spec

INVARIANT ReadYourWrites

\* Once the bounds are used up the coordinator idles in recv_timeout.
CHECK_DEADLOCK FALSE
