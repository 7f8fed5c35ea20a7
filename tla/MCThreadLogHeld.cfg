\* A whole-log snapshot of a multiappend and an entry queued behind it.
CONSTANTS
  Chains <- MCChains
  MaxIdx <- MCMaxIdx
  MaxEntries <- MCHeldEntries
  MaxSnapshots <- MCControlSnapshots
  MaxErrors <- MCCoreErrors
  MaxMultis <- MCOneMulti
  Requests <- MCHeldRequests
  MAX_PREFETCH <- MCMaxPrefetch
  ProbeIdx <- MCProbeIdx
  MyColors <- MCMyColors

SPECIFICATION Spec

INVARIANT SnapshotComplete

\* Once the bounds are used up the coordinator idles in recv_timeout.
CHECK_DEADLOCK FALSE
