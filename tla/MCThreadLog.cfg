CONSTANTS
  Chains <- MCChains
  MaxIdx <- MCMaxIdx
  MaxEntries <- MCMaxEntries
  MaxSnapshots <- MCCoreSnapshots
  MaxErrors <- MCCoreErrors
  MaxMultis <- MCNoMultis
  Requests <- MCCoreRequests
  MAX_PREFETCH <- MCMaxPrefetch
  ProbeIdx <- MCProbeIdx
  MyColors <- MCMyColors

SPECIFICATION Spec

INVARIANT TypeOK
INVARIANT ChainOrder
INVARIANT CausalOrder
INVARIANT SnapshotComplete
INVARIANT NoPanic
PROPERTY SnapshotsAnswered

\* Once the bounds are used up the coordinator idles in recv_timeout.
CHECK_DEADLOCK FALSE
