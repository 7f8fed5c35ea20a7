\* The client's own appends with read-your-writes dependencies on both
\* chains, read by snapshots, ReadUntil, Fastforward and strong snapshots;
\* checked against the abstract causal log of CausalLog.tla.
CONSTANTS
  Chains <- MCChains
  MaxIdx <- MCMaxIdx
  MaxEntries <- MCMaxEntries
  MaxSnapshots <- MCControlSnapshots
  MaxErrors <- MCCoreErrors
  MaxMultis <- MCOneMulti
  Requests <- MCWritesRequests
  MAX_PREFETCH <- MCMaxPrefetch
  ProbeIdx <- MCProbeIdx
  MyColors <- MCColors

SPECIFICATION Spec

INVARIANT ChainOrder
INVARIANT CausalOrder
PROPERTY CausalLogSpec

\* Once the bounds are used up the coordinator idles in recv_timeout.
CHECK_DEADLOCK FALSE
