CONSTANTS
  Chains <- MCChains
  MaxIdx <- MCMaxIdx
  MaxEntries <- MCMaxEntries
  MaxSnapshots <- MCControlSnapshots
  MaxErrors <- MCControlErrors
  MaxMultis <- MCOneMulti
  Requests <- MCControlRequests
  MAX_PREFETCH <- MCMaxPrefetch
  ProbeIdx <- MCProbeIdx
  MyColors <- MCMyColors

SPECIFICATION Spec

INVARIANT ChainOrder
INVARIANT CausalOrder
\* SnapshotComplete is not checked here: with two entries a whole-log
\* snapshot cannot reach the multiappend-plus-dependent case that the
\* held_packet run finds violating it.
PROPERTY SnapshotsAnswered

\* Once the bounds are used up the coordinator idles in recv_timeout.
CHECK_DEADLOCK FALSE
