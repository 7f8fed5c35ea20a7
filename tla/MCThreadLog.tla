----------------------------- MODULE MCThreadLog -----------------------------
(***************************************************************************)
(* Instances of ThreadLog for TLC.  Two chains with at most two entries in *)
(* the whole store: enough for a completion to overtake its predecessor    *)
(* on the same chain, for an entry to depend on an entry of the other      *)
(* chain that the client has not read yet, and for a probe answer to be   *)
(* stale because a writer appended after the store answered it.           *)
(*                                                                         *)
(* The core run sends two snapshot requests (per chain, per chain set or   *)
(* ReadUntil); the control run sends one whole-log snapshot or ReadUntil,  *)
(* together with the control requests, lets another client write one      *)
(* multiappend and lets the store fail one read.                           *)
(***************************************************************************)
EXTENDS ThreadLog

MCChains == {1, 2}
MCMaxIdx == 2
MCMaxEntries == 2
MCMaxPrefetch == 1
MCProbeIdx == 99
MCMyColors == {}
MCNoMultis == 0
MCOneMulti == 1

MCCoreSnapshots == 2
MCCoreErrors == 0
MCCoreRequests == {"SnapshotAndPrefetch", "MultiSnapshotAndPrefetch", "ReadUntil"}

MCControlSnapshots == 1
MCControlErrors == 1
MCControlRequests == {"SnapshotAndPrefetchAll", "ReadUntil",
                      "StopAckingWrites", "Shutdown"}

\* Read-your-writes: the client writes to both chains and reads them,
\* with read-your-writes tracking on both.
MCColors == {1, 2}
MCColorsEntries == 3
MCColorsRequests == {"SnapshotAndPrefetch", "PerformAppend"}

\* Writes: the client's appends, read by every kind of snapshot request,
\* against CausalLog.
MCWritesRequests == {"SnapshotAndPrefetch", "ReadUntil", "PerformAppend",
                     "Fastforward", "StrongSnapshotAndPrefetch"}

\* Held packet: a multiappend on both chains and one more entry, read by
\* one whole-log snapshot.
MCHeldEntries == 3
MCHeldRequests == {"SnapshotAndPrefetchAll"}

=============================================================================
