------------------------------ MODULE ThreadLog ------------------------------
(***************************************************************************)
(* The client coordinator of the fuzzy log (ThreadLog in                   *)
(* fuzzy_log_client/src/fuzzy_log/mod.rs) together with the store it      *)
(* reads from.  The coordinator handles one message at a time; each        *)
(* handler is one atomic action whose body is the sequential code of the   *)
(* handler, written as operators from a coordinator state record to a new *)
(* one.  The store serves read requests in any order and other clients     *)
(* append to it at any time, so completions arrive out of order and        *)
(* snapshot answers can be stale.                                          *)
(*                                                                         *)
(* Entries are single-chain Data entries with at most one dependency on    *)
(* another chain, or multiappends of other clients with one piece on each *)
(* of several chains, every piece carrying all of its positions.  An entry *)
(* is identified by its position <<chain, index>> (a multiappend by any of *)
(* its positions, see LocsAt); a reference-counted packet (Rc<Vec<u8>>)   *)
(* by <<chain, index, gen>>, gen numbering the Rc::new calls for that     *)
(* position.                                                               *)
(***************************************************************************)
EXTENDS PerColor, Integers, Sequences, FiniteSets, Bags, BagsExt,
        FiniteSetsExt, SequencesExt

CONSTANTS
  Chains,        \* chain ids (order), none of them 0; all are registered
  MaxIdx,        \* bound: entries per chain in the store
  MaxEntries,    \* bound: entries in the whole store
  MaxSnapshots,  \* bound: snapshot requests by the client
  MaxErrors,     \* bound: I/O errors the store reports
  MaxMultis,     \* bound: multiappends other clients write
  Requests,      \* the FromClient variants the client sends
  ProbeIdx,      \* u64::MAX: the index of a horizon probe read
  MyColors       \* my_colors_chains (read-your-writes tracking)

ASSUME Chains \subseteq Nat \ {0}
ASSUME MaxIdx \in Nat \ {0} /\ MaxSnapshots \in Nat /\ MaxErrors \in Nat
ASSUME MaxMultis \in Nat
ASSUME ProbeIdx > MaxIdx + MAX_PREFETCH * (MaxSnapshots + 1)
ASSUME MyColors \subseteq Chains
\* "SnapshotAndPrefetch" is any chain, "SnapshotAndPrefetchAll" chain 0 only
ASSUME Requests \subseteq {"SnapshotAndPrefetch", "SnapshotAndPrefetchAll",
                           "MultiSnapshotAndPrefetch",
                           "ReadUntil", "StopAckingWrites", "Shutdown",
                           "PerformAppend", "Fastforward",
                           "StrongSnapshotAndPrefetch"}

Pos == Chains \X (1..MaxIdx)

VARIABLES
  store,      \* [Chains -> Seq(Seq(Pos))]: the dependencies of each entry
  multis,     \* the locs of each multiappend in the store, sorted by chain
  fromStore,  \* bag of completions in flight
  tl,         \* the coordinator: the fields of ThreadLog, see below
  snapFloors, \* history: per snapshot request, the store length of its chains
  appendLog   \* history: per PerformAppend, its chain, the positions of
              \* MyColors the client had observed, and where it landed

(***************************************************************************)
(* The fields of tl:                                                       *)
(*   pc            per_chains: [Chains -> PerColor]                        *)
(*   blockers      [Pos -> Seq(packet)]: packets waiting on a position     *)
(*   gen           [Pos -> Nat]: Rc::new count per position                *)
(*   nlb           no_longer_blocked, empty between messages               *)
(*   held          the packet a handler frame holds an Rc of while it runs *)
(*   out           history of ready_reads: entries and end markers        *)
(*   toStore       to_store: bag of read requests <<chain, index>>         *)
(*   strongs       to_store: bag of strong snapshot packets (their chains) *)
(*   numSnapshots  num_snapshots                                           *)
(*   prefetch      the adaptive prefetch window                            *)
(*   lastSeen      last_seen_entries                                       *)
(*   panicked      an assertion of the coordinator failed                  *)
(*   finished      the run loop has stopped                                *)
(*   ackWrites     ack_writes                                              *)
(*   numErrors     num_errors                                              *)
(*   acks          history of finished_writes: write acks and errors       *)
(*   appends       to_store: bag of append requests [chain, deps, id]      *)
(***************************************************************************)

vars == <<store, multis, fromStore, tl, snapFloors, appendLog>>

\* The locs of the entry stored at loc: every piece of a multiappend, or
\* the position alone.
IsMulti(loc) == \E m \in multis : loc \in ToSet(m)
LocsAt(loc) == IF IsMulti(loc) THEN CHOOSE m \in multis : loc \in ToSet(m)
               ELSE <<loc>>

EndMarker == [kind |-> "end"]
EntryOut(loc) == [kind |-> "entry", locs |-> LocsAt(loc)]

Deps(loc) == store[loc[1]][loc[2]]
LocOf(pkt) == <<pkt[1], pkt[2]>>

-----------------------------------------------------------------------------
SetPC(s, c, p) == [s EXCEPT !.pc[c] = p]

Occ(seq, x) == Cardinality({k \in DOMAIN seq : seq[k] = x})

\* Rc::strong_count of a packet, not counting the holder
RcCount(s, pkt) == MapThenSumSet(LAMBDA q : Occ(s.blockers[q], pkt), Pos)

NewRc(s, loc) ==
  <<[s EXCEPT !.gen[loc] = @ + 1], <<loc[1], loc[2], s.gen[loc] + 1>>>>

\* ready_reads.send; the consumer never hangs up in this model
Deliver(s, o) == [s EXCEPT !.out = Append(@, o)]

\* the read-your-writes bookkeeping of return_entry(_at)
NoteSeen(s, c, i) ==
  IF c \in MyColors /\ s.pc[c].interesting
  THEN [s EXCEPT !.lastSeen[c] = IF @ < i THEN i ELSE @]
  ELSE s

-----------------------------------------------------------------------------
(* fetch_next, make_read_packet, enqueue_packet                           *)

FetchNext(s, c, low, high) ==
  [s EXCEPT !.pc[c] = FetchingRange(@, low, high),
            !.toStore = @ (+) SetToBag({<<c, k>> : k \in low..high})]

\* enqueue_packet: wait for the previous position of the same chain
EnqueuePacket(s, loc, pkt) ==
  IF loc[2] > 1
  THEN [s EXCEPT !.blockers[<<loc[1], loc[2] - 1>>] = Append(@, pkt)]
  ELSE [s EXCEPT !.panicked = TRUE]

(* return_entry: returns [s, some, locs]; some = FALSE is None.  Every    *)
(* loc of the entry is checked: one already returned makes it a double     *)
(* return; the last one beyond its chain's snapshot is where it waits,     *)
(* parked on that chain's snapshot if it is next there, else queued behind *)
(* its predecessor.  Otherwise every loc is set returned.                  *)
ReturnEntry(s, e) ==
  LET ls   == LocsAt(e)
      pc(q) == s.pc[q[1]]
      late == {k \in DOMAIN ls : ~IsWithinSnapshot(pc(ls[k]), ls[k][2])}
      b    == ls[Max(late \cup {0})]
  IN IF \E k \in DOMAIN ls : HasReturned(pc(ls[k]), ls[k][2])
     THEN [s |-> s, some |-> FALSE, locs |-> <<>>]
     ELSE IF late # {}
     THEN IF NextReturnIs(pc(b), b[2])
          THEN [s |-> SetPC(s, b[1], BlockOnSnapshot(pc(b), b)),
                some |-> FALSE, locs |-> <<>>]
          ELSE LET r == NewRc(s, b)
               IN [s |-> EnqueuePacket(r[1], b, r[2]),
                   some |-> FALSE, locs |-> <<>>]
     ELSE LET s1 == FoldLeft(LAMBDA t, q :
                               NoteSeen(SetPC(t, q[1], SetReturned(t.pc[q[1]], q[2])),
                                        q[1], q[2]), s, ls)
              s2 == IF \E k \in DOMAIN ls : pc(ls[k]).interesting
                    THEN Deliver(s1, EntryOut(e)) ELSE s1
          IN [s |-> s2, some |-> TRUE, locs |-> ls]

(* try_return_blocked_by: take the queue of a position and deliver every   *)
(* packet of it whose Rc is now unique.                                    *)
RECURSIVE ReleaseEach(_, _, _)
ReleaseEach(s, list, k) ==
  IF k > Len(list) THEN s
  ELSE LET pkt  == list[k]
           rest == SubSeq(list, k + 1, Len(list))
       IN IF RcCount(s, pkt) + Occ(rest, pkt) + Cardinality(s.held \cap {pkt}) = 0
          THEN LET s1 == [s EXCEPT !.nlb = @ \o LocsAt(LocOf(pkt))]
               IN ReleaseEach(ReturnEntry(s1, LocOf(pkt)).s, list, k + 1)
          ELSE ReleaseEach(s, list, k + 1)

TryReturnBlockedBy(s, loc) ==
  ReleaseEach([s EXCEPT !.blockers[loc] = <<>>], s.blockers[loc], 1)

(* stop_blocking_on: the given positions, then the no_longer_blocked stack *)
\* Mutant: the no_longer_blocked stack is never drained.
DrainNoLongerBlockedSkip(s) == s

RECURSIVE DrainNoLongerBlocked(_)
DrainNoLongerBlocked(s) ==
  IF s.nlb = <<>> THEN s
  ELSE DrainNoLongerBlocked(
         TryReturnBlockedBy([s EXCEPT !.nlb = Front(@)], Last(s.nlb)))

StopBlockingOn(s, locs) ==
  DrainNoLongerBlocked(FoldLeft(TryReturnBlockedBy, s, locs))

\* let locs = self.return_entry(val); if let Some(locs) = ... stop_blocking_on
ReturnAndUnblock(s, e) ==
  IF e = NoEntry THEN s
  ELSE LET r == ReturnEntry(s, e)
       IN IF r.some THEN StopBlockingOn(r.s, r.locs) ELSE r.s

(* fetch_blocker_at                                                        *)
FetchBlockerAt(s, c, i) ==
  LET u   == UpdateHorizon(s.pc[c], i)
      s1  == SetPC(s, c, u[1])
      nxt == NextRangeToFetch(u[1])
      s2  == IF nxt.kind = "BelowHorizon"
             THEN FetchNext(s1, c, nxt.low, nxt.high) ELSE s1
  IN ReturnAndUnblock(s2, u[2])

\* the dependency loop of add_blockers_at
RECURSIVE BlockOnDeps(_, _, _)
BlockOnDeps(s, pkt, deps) ==
  IF deps = <<>> THEN s
  ELSE LET d  == Head(deps)
           s1 == IF HasReturned(s.pc[d[1]], d[2]) THEN s
                 ELSE FetchBlockerAt(
                        [s EXCEPT !.blockers[d] = Append(@, pkt)], d[1], d[2])
       IN BlockOnDeps(s1, pkt, Tail(deps))

\* Mutant: an out-of-order entry is not queued behind its predecessor.
AddBlockersAtNoEnqueue(s, loc, pkt) ==
  IF HasReturned(s.pc[loc[1]], loc[2]) THEN <<s, FALSE>>
  ELSE <<BlockOnDeps(s, pkt, Deps(loc)), TRUE>>

\* Mutant: every entry is queued behind its predecessor, the first too.
AddBlockersAtAlwaysEnqueue(s, loc, pkt) ==
  IF HasReturned(s.pc[loc[1]], loc[2]) THEN <<s, FALSE>>
  ELSE <<BlockOnDeps(EnqueuePacket(s, loc, pkt), pkt, Deps(loc)),
         NextReturnIs(s.pc[loc[1]], loc[2])>>

(* add_blockers_at: returns <<s, try_ret>>                                 *)
AddBlockersAt(s, loc, pkt) ==
  LET p == s.pc[loc[1]]
  IN IF HasReturned(p, loc[2]) THEN <<s, FALSE>>
     ELSE LET tryRet == NextReturnIs(p, loc[2])
              s1 == IF tryRet THEN s ELSE EnqueuePacket(s, loc, pkt)
          IN <<BlockOnDeps(s1, pkt, Deps(loc)), tryRet>>

(* return_entry_at: returns <<s, returned>>                                *)
ReturnEntryAt(s, loc) ==
  LET c == loc[1]
      i == loc[2]
      p == s.pc[c]
  IN IF HasReturned(p, i) THEN <<s, FALSE>>
     ELSE IF ~IsWithinSnapshot(p, i)
     THEN <<SetPC(s, c, BlockOnSnapshot(p, loc)), FALSE>>
     ELSE LET s1 == NoteSeen(SetPC(s, c, SetReturned(p, i)), c, i)
          IN <<IF p.interesting THEN Deliver(s1, EntryOut(loc)) ELSE s1, TRUE>>

\* fetch_blockers_if_needed
FetchBlockersIfNeeded(s, deps) ==
  FoldLeft(LAMBDA t, d : FetchBlockerAt(t, d[1], d[2]), s, deps)

\* Mutant: the entry is returned without checking that no blocker holds it.
TryReturningAtNoRc(s, loc, pkt) ==
  LET r == ReturnEntryAt(s, loc)
  IN IF r[2] THEN StopBlockingOn(r[1], <<loc>>) ELSE r[1]

(* try_returning_at: Rc::try_unwrap succeeds iff no blocker holds a clone  *)
TryReturningAt(s, loc, pkt) ==
  IF RcCount(s, pkt) = 0
  THEN LET r == ReturnEntryAt(s, loc)
       IN IF r[2] THEN StopBlockingOn(r[1], <<loc>>) ELSE r[1]
  ELSE [FetchBlockersIfNeeded([s EXCEPT !.held = {pkt}], Deps(loc))
          EXCEPT !.held = {}]

-----------------------------------------------------------------------------
(* continue_fetch_if_needed, continue_fetch, prefetch                      *)

ContinueFetchIfNeeded(s, c) ==
  LET nxt == NextRangeToFetch(s.pc[c])
      s1  == IF nxt.kind = "BelowHorizon"
             THEN FetchNext(s, c, nxt.low, nxt.high) ELSE s
  IN <<s1, IsFinished(s1.pc[c])>>

FinishedReading(s) == \A c \in Chains : ~s.pc[c].reading

\* Mutant: markers are flushed when this chain is finished, whatever the
\* other chains are doing.
ContinueFetchEager(s, c) ==
  LET r == ContinueFetchIfNeeded(s, c)
  IN IF ~r[2] THEN r[1]
     ELSE [r[1] EXCEPT !.out = @ \o [k \in 1..r[1].numSnapshots |-> EndMarker],
                       !.numSnapshots = 0]

\* Mutant: a finished chain keeps its chains_currently_being_read handle.
ContinueFetchKeepReading(s, c) ==
  LET r == ContinueFetchIfNeeded(s, c)
  IN IF ~r[2] THEN r[1]
     ELSE IF FinishedReading(r[1])
     THEN [r[1] EXCEPT !.out = @ \o [k \in 1..r[1].numSnapshots |-> EndMarker],
                       !.numSnapshots = 0]
     ELSE r[1]

ContinueFetch(s, c) ==
  LET r == ContinueFetchIfNeeded(s, c)
      s1 == SetPC(r[1], c, SetFinishedReading(r[1].pc[c]))
  IN IF ~r[2] THEN r[1]
     ELSE IF FinishedReading(s1)
     THEN [s1 EXCEPT !.out = @ \o [k \in 1..s1.numSnapshots |-> EndMarker],
                     !.numSnapshots = 0]
     ELSE s1

Prefetch(s, c) ==
  LET p   == IncrementOutstandingSnapshots(s.pc[c])
      s1  == SetPC(s, c, p)
      nxt == NextRangeToFetch(p)
      cb  == CurrentlyBuffering(p)
      n   == IF nxt.kind = "AboveHorizon"
             THEN Min({nxt.high - nxt.low + 1, s.prefetch})
             ELSE Max({nxt.high - nxt.low + 1, s.prefetch})
      high == IF nxt.kind = "AboveHorizon"
              THEN Min({nxt.high, nxt.low + (n - cb) - 1})
              ELSE Min({nxt.high, nxt.high + (n - cb) - 1})
  IN IF nxt.kind = "None" \/ n = 0 \/ cb >= n THEN s1
     ELSE FetchNext(s1, c, nxt.low, high)

-----------------------------------------------------------------------------
(* Client requests                                                         *)

\* SnapshotAndPrefetch(chain), chain /= 0: fetch_snapshot then prefetch
SnapshotChain(s, c) ==
  Prefetch([s EXCEPT !.toStore = BagAdd(@, <<c, ProbeIdx>>)], c)

SnapshotAndPrefetch(c) ==
  /\ "SnapshotAndPrefetch" \in Requests
  /\ ~tl.finished
  /\ Len(snapFloors) < MaxSnapshots
  /\ tl' = SnapshotChain([tl EXCEPT !.numSnapshots = @ + 1], c)
  /\ snapFloors' = Append(snapFloors, [x \in {c} |-> Len(store[x])])
  /\ UNCHANGED <<store, multis, fromStore, appendLog>>

\* SnapshotAndPrefetch(0): every interesting chain
SnapshotAll ==
  LET cs == {c \in Chains : tl.pc[c].interesting}
  IN /\ {"SnapshotAndPrefetch", "SnapshotAndPrefetchAll"} \cap Requests # {}
     /\ ~tl.finished
     /\ Len(snapFloors) < MaxSnapshots
     /\ tl' = FoldLeft(SnapshotChain, [tl EXCEPT !.numSnapshots = @ + 1],
                        SetToSeq(cs))
     /\ snapFloors' = Append(snapFloors, [x \in cs |-> Len(store[x])])
     /\ UNCHANGED <<store, multis, fromStore, appendLog>>

\* MultiSnapshotAndPrefetch(chains)
MultiSnapshot(cs) ==
  /\ "MultiSnapshotAndPrefetch" \in Requests
  /\ ~tl.finished
  /\ Len(snapFloors) < MaxSnapshots
  /\ tl' = FoldLeft(SnapshotChain, [tl EXCEPT !.numSnapshots = @ + 1],
                    SetToSeq(cs))
  /\ snapFloors' = Append(snapFloors, [x \in cs |-> Len(store[x])])
  /\ UNCHANGED <<store, multis, fromStore, appendLog>>

\* fetch_strong_snapshot: one Snapshot packet naming every chain of the cut
FetchStrongSnapshot(s, cut) == [s EXCEPT !.strongs = BagAdd(@, cut)]

\* StrongSnapshotAndPrefetch(chains): one Snapshot packet naming every
\* chain of the cut, then prefetch on each (which counts the outstanding
\* snapshot on that chain)
StrongSnapshot(cs) ==
  LET cut == SetToSortSeq(cs, <)
  IN /\ "StrongSnapshotAndPrefetch" \in Requests
     /\ ~tl.finished
     /\ Len(snapFloors) < MaxSnapshots
     /\ tl' = FoldLeft(Prefetch,
                       FetchStrongSnapshot([tl EXCEPT !.numSnapshots = @ + 1], cut),
                       cut)
     /\ snapFloors' = Append(snapFloors, [x \in cs |-> Len(store[x])])
     /\ UNCHANGED <<store, multis, fromStore, appendLog>>

\* ReadUntil(chain, index): a snapshot whose horizon the client supplies;
\* the client names a position it knows to exist
ReadUntil(c, i) ==
  LET p  == IncrementOutstandingSnapshots(tl.pc[c])
      g  == GiveNewSnapshot(p, i)
      s1 == SetPC([tl EXCEPT !.numSnapshots = @ + 1], c, g[1])
  IN /\ "ReadUntil" \in Requests
     /\ ~tl.finished
     /\ Len(snapFloors) < MaxSnapshots
     /\ tl' = ContinueFetch(ReturnAndUnblock(s1, g[2]), c)
     /\ snapFloors' = Append(snapFloors, [x \in {c} |-> i])
     /\ UNCHANGED <<store, multis, fromStore, appendLog>>

\* Fastforward(chain, index): give_new_snapshot on the chain, its result
\* (the entry it unparks, if any) dropped; the client names a position it
\* knows to exist
Fastforward(c, i) ==
  /\ "Fastforward" \in Requests
  /\ ~tl.finished
  /\ tl' = SetPC(tl, c, GiveNewSnapshot(tl.pc[c], i)[1])
  /\ UNCHANGED <<store, multis, fromStore, snapFloors, appendLog>>

StopAckingWrites ==
  /\ "StopAckingWrites" \in Requests
  /\ ~tl.finished
  /\ tl.ackWrites
  /\ tl' = [tl EXCEPT !.ackWrites = FALSE]
  /\ UNCHANGED <<store, multis, fromStore, snapFloors, appendLog>>

\* Entries in the store or on their way to it.
StoreSize == MapThenSumSet(LAMBDA x : Len(store[x]), Chains)
                + BagCardinality(tl.appends)
Room(c) ==
  /\ Len(store[c]) + MapThenSumSet(LAMBDA w : IF w.chain = c
                                               THEN CopiesIn(w, tl.appends)
                                               ELSE 0,
                                   BagToSet(tl.appends)) < MaxIdx
  /\ StoreSize < MaxEntries

\* The positions of MyColors chains the client has observed: delivered to
\* it or acknowledged as its own writes.
Observed ==
  UNION {ToSet(o.locs) : o \in {tl.out[k] : k \in {k \in DOMAIN tl.out :
                                                    tl.out[k].kind = "entry"}}}
    \cup {appendLog[k].loc : k \in {k \in DOMAIN appendLog : appendLog[k].acked}}

\* The happens-after dependencies PerformAppend adds: last_seen_entries
\* drained, minus the entry's own chain, sorted by chain
HappensAfter(s, c) ==
  [k \in 1..Cardinality({d \in MyColors : d # c /\ s.lastSeen[d] > 0}) |->
     LET d == SetToSortSeq({d \in MyColors : d # c /\ s.lastSeen[d] > 0}, <)[k]
     IN <<d, s.lastSeen[d]>>]

\* PerformAppend(msg): a single-chain Data entry for chain c
PerformAppend(c) ==
  LET deps == IF MyColors # {} THEN HappensAfter(tl, c) ELSE <<>>
      id   == Len(appendLog) + 1
  IN /\ "PerformAppend" \in Requests
     /\ ~tl.finished
     /\ Room(c)
     /\ tl' = [tl EXCEPT
                 !.lastSeen = IF MyColors # {} THEN [d \in MyColors |-> 0] ELSE @,
                 !.appends = BagAdd(@, [chain |-> c, deps |-> deps, id |-> id])]
     /\ appendLog' = Append(appendLog,
                      [chain |-> c,
                       seen |-> {q \in Observed : q[1] \in MyColors},
                       loc |-> NoEntry, acked |-> FALSE])
     /\ UNCHANGED <<store, multis, fromStore, snapFloors>>

\* Shutdown: finished is set and run returns; queued messages are dropped
Shutdown ==
  /\ "Shutdown" \in Requests
  /\ ~tl.finished
  /\ tl' = [tl EXCEPT !.finished = TRUE]
  /\ UNCHANGED <<store, multis, fromStore, snapFloors, appendLog>>

-----------------------------------------------------------------------------
(* Completed reads: handle_completed_read                                  *)

\* Read layout at u64::MAX: the answer to a horizon probe
ProbeAnswered(s, c, h) ==
  LET p     == s.pc[c]
      needs == IF h > CurrentSnap(p) THEN h - CurrentSnap(p) ELSE 0
      g     == GiveNewSnapshot(p, h)
      s1    == [SetPC(s, c, g[1]) EXCEPT
                  !.prefetch = needs \div 3 + (2 * @) \div 3]
  IN ReturnAndUnblock(s1, g[2])

\* Snapshot layout: a strong snapshot's answer raises the horizon of
\* read_loc's chain only (the loop over the cut's locs is commented out)
StrongAnswered(s, c, h) ==
  LET g == GiveNewSnapshot(s.pc[c], h)
  IN ReturnAndUnblock(SetPC(s, c, g[1]), g[2])

\* Read layout below u64::MAX: the position does not exist yet
Overread(s, c, i) == SetPC(s, c, OverreadAt(s.pc[c], i))

\* Data layout
DataRead(s, c, i) ==
  LET p == s.pc[c]
  IN IF ~GotReadNeeded(p, i) THEN SetPC(s, c, GotRead(p, i))
     ELSE LET r  == NewRc(SetPC(s, c, GotRead(p, i)), <<c, i>>)
              ab == AddBlockersAt([r[1] EXCEPT !.held = {r[2]}], <<c, i>>, r[2])
              s1 == [ab[1] EXCEPT !.held = {}]
          IN IF ab[2] THEN TryReturningAt(s1, <<c, i>>, r[2]) ELSE s1

(* Multiput layout.  The pieces of a multiappend carry every position     *)
(* (single-server multiappends: no blind search, no sentinel, no lock), so *)
(* update_multi_part_read never parks one in blocked_multiappends.         *)

\* fetch_multi_parts, non-blind: raise the piece's chain horizon to it
FetchMultiParts(s, q) ==
  LET u  == UpdateHorizon(s.pc[q[1]], q[2])
      s1 == ContinueFetchIfNeeded(SetPC(s, q[1], u[1]), q[1])[1]
  IN ReturnAndUnblock(s1, u[2])

(* add_blockers: queue the packet behind the predecessor of every loc that *)
(* is neither returned nor next; returns <<s, try_ret>>, try_ret if some   *)
(* loc is next                                                              *)
AddBlockers(s, loc, pkt) ==
  LET ls      == LocsAt(loc)
      needed  == {k \in DOMAIN ls : ~HasReturned(s.pc[ls[k][1]], ls[k][2])}
      nexts   == {k \in needed : NextReturnIs(s.pc[ls[k][1]], ls[k][2])}
      s1      == FoldLeft(LAMBDA t, k : EnqueuePacket(t, ls[k], pkt), s,
                          SetToSortSeq(needed \ nexts, <))
  IN IF needed = {} THEN <<s, FALSE>>
     ELSE <<BlockOnDeps(s1, pkt, Deps(loc)), nexts # {}>>

\* try_returning: Rc::try_unwrap succeeds iff no blocker holds a clone
TryReturning(s, loc, pkt) ==
  IF RcCount(s, pkt) = 0
  THEN ReturnAndUnblock(s, loc)
  ELSE [FetchBlockersIfNeeded([s EXCEPT !.held = {pkt}], Deps(loc))
          EXCEPT !.held = {}]

\* MultiSearch::Finished(msg): Rc::new, add_blockers, try_returning
MultiFinished(s, loc) ==
  LET r  == NewRc(s, loc)
      ab == AddBlockers([r[1] EXCEPT !.held = {r[2]}], loc, r[2])
      s1 == [ab[1] EXCEPT !.held = {}]
  IN IF ab[2] THEN TryReturning(s1, loc, r[2]) ELSE s1

\* got_read, then update_multi_part_read: a piece beyond the snapshot is
\* finished at once, a piece already returned is BeyondHorizon (overread_at),
\* otherwise every piece's chain is fetched up to it first
MultiRead(s, c, i) ==
  LET p  == s.pc[c]
      s0 == SetPC(s, c, GotRead(p, i))
  IN IF ~GotReadNeeded(p, i) THEN s0
     ELSE IF ~IsWithinSnapshot(p, i) THEN MultiFinished(s0, <<c, i>>)
     ELSE IF HasReturned(p, i) THEN Overread(s0, c, i)
     ELSE MultiFinished(FoldLeft(FetchMultiParts, s0, LocsAt(<<c, i>>)), <<c, i>>)

HandleCompletedRead(s, m) ==
  LET c == m.loc[1]
      i == m.loc[2]
      s1 == CASE m.kind = "Snapshot"             -> StrongAnswered(s, c, i)
              [] m.kind = "Read" /\ i = ProbeIdx -> ProbeAnswered(s, c, m.horizon)
              [] m.kind = "Read"                 -> Overread(s, c, i)
              [] m.kind = "Data" /\ IsMulti(m.loc) -> MultiRead(s, c, i)
              [] m.kind = "Data"                 -> DataRead(s, c, i)
  IN ContinueFetch(s1, c)

\* Mutant: make_error does not advance num_errors.
HandleIoErrorNoCount(s) ==
  LET err == [kind |-> "error", num |-> s.numErrors]
  IN [s EXCEPT !.acks = IF s.ackWrites THEN Append(@, err) ELSE @,
               !.out = Append(@, err)]

\* IoError: make_error numbers it; it goes to both outbound queues
HandleIoError(s) ==
  LET err == [kind |-> "error", num |-> s.numErrors]
  IN [s EXCEPT !.numErrors = @ + 1,
               !.acks = IF s.ackWrites THEN Append(@, err) ELSE @,
               !.out = Append(@, err)]

\* WriteComplete(id, locs): read-your-writes tracking, then the ack
WriteComplete(s, m) ==
  LET c == m.loc[1]
      s1 == IF MyColors # {} /\ c \in MyColors
            THEN [s EXCEPT !.lastSeen[c] = IF @ < m.loc[2] THEN m.loc[2] ELSE @]
            ELSE s
  IN IF s.ackWrites
     THEN [s1 EXCEPT !.acks = Append(@, [kind |-> "ack", id |-> m.id,
                                          loc |-> m.loc])]
     ELSE s1

\* handle_from_store: one message off the queue, unless the loop has exited
HandleFromStore(m) ==
  /\ ~tl.finished
  /\ m \in BagToSet(fromStore)
  /\ tl' = CASE m.kind \in {"Read", "Data", "Snapshot"} ->
                 HandleCompletedRead(tl, m)
            [] m.kind = "IoError"          -> HandleIoError(tl)
            [] m.kind = "Written"          -> WriteComplete(tl, m)
  /\ fromStore' = BagRemove(fromStore, m)
  /\ appendLog' = IF m.kind = "Written"
                  THEN [appendLog EXCEPT ![m.id].acked = TRUE] ELSE appendLog
  /\ UNCHANGED <<store, multis, snapFloors>>

-----------------------------------------------------------------------------
(* The store and the other writers                                         *)

\* A server answers one read: the entry, or an overread carrying the horizon
Serve(r) ==
  LET c == r[1]
      i == r[2]
      m == IF i # ProbeIdx /\ i <= Len(store[c])
           THEN [kind |-> "Data", loc |-> r, horizon |-> 0, id |-> 0]
           ELSE [kind |-> "Read", loc |-> r,
                 horizon |-> IF i = ProbeIdx THEN Len(store[c]) ELSE 0,
                 id |-> 0]
  IN /\ r \in BagToSet(tl.toStore)
     /\ tl' = [tl EXCEPT !.toStore = BagRemove(@, r)]
     /\ fromStore' = BagAdd(fromStore, m)
     /\ UNCHANGED <<store, multis, snapFloors, appendLog>>

\* The store answers a strong snapshot packet with one completion (one per
\* request, spec section 6): a Snapshot entry read at the cut's position on
\* one of its chains
ServeStrong(cut) ==
  /\ cut \in BagToSet(tl.strongs)
  /\ \E c \in ToSet(cut) :
       fromStore' = BagAdd(fromStore, [kind |-> "Snapshot",
                                       loc |-> <<c, Len(store[c])>>,
                                       horizon |-> 0, id |-> 0])
  /\ tl' = [tl EXCEPT !.strongs = BagRemove(@, cut)]
  /\ UNCHANGED <<store, multis, snapFloors, appendLog>>

\* The store appends an entry at the end of its chain and acknowledges it
ServeWrite(w) ==
  LET loc == <<w.chain, Len(store[w.chain]) + 1>>
  IN /\ w \in BagToSet(tl.appends)
     /\ store' = [store EXCEPT ![w.chain] = Append(@, w.deps)]
     /\ tl' = [tl EXCEPT !.appends = BagRemove(@, w)]
     /\ fromStore' = BagAdd(fromStore, [kind |-> "Written", loc |-> loc,
                                         horizon |-> 0, id |-> w.id])
     /\ appendLog' = [appendLog EXCEPT ![w.id].loc = loc]
     /\ UNCHANGED <<multis, snapFloors>>

\* The transport reports an I/O error instead of answering a read
ServeError(r) ==
  /\ r \in BagToSet(tl.toStore)
  /\ MapThenSumSet(LAMBDA m : IF m.kind = "IoError" THEN 1 ELSE 0,
                   BagToSet(fromStore)) + tl.numErrors < MaxErrors
  /\ tl' = [tl EXCEPT !.toStore = BagRemove(@, r)]
  /\ fromStore' = BagAdd(fromStore, [kind |-> "IoError", loc |-> r,
                                      horizon |-> 0, id |-> 0])
  /\ UNCHANGED <<store, multis, snapFloors, appendLog>>

\* Another client appends to chain c, depending on what it has seen
ExternalAppend(c, deps) ==
  /\ Room(c)
  /\ store' = [store EXCEPT ![c] = Append(@, deps)]
  /\ UNCHANGED <<multis, fromStore, tl, snapFloors, appendLog>>

\* Another client's multiappend: one piece at the end of each chain of cs,
\* written atomically (spec 4.1, a single-server multiappend), with no
\* dependencies (every other chain is one of its own)
ExternalMultiAppend(cs) ==
  LET locs == SetToSortSeq({<<c, Len(store[c]) + 1>> : c \in cs},
                           LAMBDA a, b : a[1] < b[1])
  IN /\ Cardinality(multis) < MaxMultis
     /\ \A c \in cs : Room(c)
     /\ StoreSize + Cardinality(cs) <= MaxEntries
     /\ store' = [c \in Chains |-> IF c \in cs THEN Append(store[c], <<>>)
                                              ELSE store[c]]
     /\ multis' = multis \cup {locs}
     /\ UNCHANGED <<fromStore, tl, snapFloors, appendLog>>

Existing(c) == {<<d, j>> \in Pos : d # c /\ j <= Len(store[d])}

-----------------------------------------------------------------------------

Init ==
  /\ store = [c \in Chains |-> <<>>]
  /\ multis = {}
  /\ fromStore = EmptyBag
  /\ tl = [pc |-> [c \in Chains |-> NewPerColor(TRUE)],
           blockers |-> [q \in Pos |-> <<>>],
           gen |-> [q \in Pos |-> 0],
           nlb |-> <<>>,
           held |-> {},
           out |-> <<>>,
           toStore |-> EmptyBag,
           strongs |-> EmptyBag,
           numSnapshots |-> 0,
           prefetch |-> 1,
           lastSeen |-> [c \in MyColors |-> 0],
           panicked |-> FALSE,
           finished |-> FALSE,
           ackWrites |-> TRUE,
           numErrors |-> 0,
           acks |-> <<>>,
           appends |-> EmptyBag]
  /\ snapFloors = <<>>
  /\ appendLog = <<>>

Next ==
  \/ \E c \in Chains : SnapshotAndPrefetch(c)
  \/ SnapshotAll
  \/ \E cs \in SUBSET Chains \ {{}} : MultiSnapshot(cs)
  \/ \E cs \in SUBSET Chains \ {{}} : StrongSnapshot(cs)
  \/ \E c \in Chains : \E i \in 1..Len(store[c]) : ReadUntil(c, i)
  \/ \E c \in Chains : \E i \in 1..Len(store[c]) : Fastforward(c, i)
  \/ StopAckingWrites
  \/ Shutdown
  \/ \E c \in Chains : PerformAppend(c)
  \/ \E w \in BagToSet(tl.appends) : ServeWrite(w)
  \/ \E m \in BagToSet(fromStore) : HandleFromStore(m)
  \/ \E r \in BagToSet(tl.toStore) : Serve(r) \/ ServeError(r)
  \/ \E cut \in BagToSet(tl.strongs) : ServeStrong(cut)
  \/ \E c \in Chains : \E d \in {<<>>} \cup {<<q>> : q \in Existing(c)} :
       ExternalAppend(c, d)
  \/ \E cs \in SUBSET Chains : Cardinality(cs) >= 2 /\ ExternalMultiAppend(cs)

\* A step of Next that takes a completion off the coordinator's queue: only
\* HandleFromStore shrinks fromStore (Serve and ServeError add to it).
TakesCompletion ==
  BagCardinality(fromStore') < BagCardinality(fromStore)

\* A step of Next in which a server answers a read: only Serve and
\* ServeError take a request off to_store, and ServeError answers it with
\* an I/O error.
ServesRead ==
  \E r \in BagToSet(tl.toStore) :
    /\ tl'.toStore = BagRemove(tl.toStore, r)
    /\ fromStore' # BagAdd(fromStore, [kind |-> "IoError", loc |-> r,
                                        horizon |-> 0, id |-> 0])

\* The store answers every request (spec section 1) and the coordinator
\* thread keeps taking messages off its queue (run loops on recv_timeout).
\* The first and the last conjunct are WF_vars(\E r : Serve(r)) and
\* WF_vars(\E m : HandleFromStore(m)) spelled out.  Serve has no guard
\* beyond a request being in to_store, and its steps are the ServesRead
\* steps of Next.  HandleFromStore has no guard beyond m being queued and
\* the loop running, so it is enabled exactly when fromStore is not empty
\* and tl.finished is false, and its steps are the TakesCompletion steps
\* of Next.  Written this way TLC need not evaluate the actions themselves
\* to decide enabledness in every state.
Fairness ==
  /\ ([]<>(tl.toStore = EmptyBag) \/ []<><<ServesRead>>_vars)
  /\ WF_vars(\E cut \in BagToSet(tl.strongs) : ServeStrong(cut))
  /\ WF_vars(\E w \in BagToSet(tl.appends) : ServeWrite(w))
  /\ ([]<>(fromStore = EmptyBag \/ tl.finished)
      \/ []<><<TakesCompletion>>_vars)

Spec == Init /\ [][Next]_vars /\ Fairness

-----------------------------------------------------------------------------
(* Properties                                                              *)

TypeOK ==
  /\ store \in [Chains -> Seq(Seq(Pos))]
  /\ IsABag(tl.toStore) /\ IsABag(tl.strongs) /\ IsABag(fromStore)
  /\ tl.blockers \in [Pos -> Seq(Chains \X Nat \X Nat)]
  /\ tl.gen \in [Pos -> Nat]
  /\ tl.nlb = <<>> /\ tl.held = {}
  /\ tl.numSnapshots \in Nat /\ tl.prefetch \in Nat
  /\ tl.panicked \in BOOLEAN

\* The indices of chain c in the order the client received them.
Delivered(c) ==
  LET es == SelectSeq(tl.out, LAMBDA o : o.kind = "entry")
      ps == SelectSeq(FlattenSeq([k \in DOMAIN es |-> es[k].locs]),
                      LAMBDA q : q[1] = c)
  IN [k \in DOMAIN ps |-> ps[k][2]]

(* Every chain is delivered exactly once per position, in index order and  *)
(* without gaps, whatever order the store's completions arrive in (spec    *)
(* invariants 1 and 2; add_blockers_at / enqueue_packet / return_entry).   *)
ChainOrder ==
  \A c \in Chains : Delivered(c) = [k \in 1..Len(Delivered(c)) |-> k]

(* An entry reaches the client only after every entry it depends on        *)
(* (spec invariant 3; the blockers table and the Rc uniqueness check of    *)
(* try_returning_at / try_return_blocked_by).                              *)
CausalOrder ==
  \A k \in DOMAIN tl.out :
    tl.out[k].kind = "entry" =>
      \A q \in ToSet(tl.out[k].locs) : \A d \in ToSet(Deps(q)) :
        \E l \in 1..(k - 1) : tl.out[l].kind = "entry" /\ d \in ToSet(tl.out[l].locs)

(* When the end-of-snapshot marker of a request reaches the client, every  *)
(* entry that was in the store when the request was made has reached the   *)
(* client before it (continue_fetch flushing num_snapshots markers once no *)
(* chain holds chains_currently_being_read).                               *)
MarkerPositions ==
  LET ks == {k \in DOMAIN tl.out : tl.out[k].kind = "end"}
  IN SetToSortSeq(ks, <)

SnapshotComplete ==
  \A j \in 1..Len(MarkerPositions) :
    j <= Len(snapFloors) =>
      \A c \in DOMAIN snapFloors[j] :
        \A i \in 1..snapFloors[j][c] :
          \E l \in 1..(MarkerPositions[j] - 1) :
            tl.out[l].kind = "entry" /\ <<c, i>> \in ToSet(tl.out[l].locs)

(* No assertion of the coordinator fails (enqueue_packet's loc.1 > 1).     *)
NoPanic == ~tl.panicked

\* The positions an entry at p is ordered after: its chain predecessors and
\* its dependencies, transitively.
RECURSIVE Before(_)
Before(p) ==
  LET direct == {<<p[1], j>> : j \in 1..(p[2] - 1)}
                  \cup {Deps(p)[k] : k \in DOMAIN Deps(p)}
  IN direct \cup UNION {Before(q) : q \in direct}

(* Read-your-writes (spec 4.1, Append): an entry the client appends lands *)
(* ordered after every entry of its own colours that it had observed, by  *)
(* delivery or by write ack, before it asked for the append               *)
(* (PerformAppend's happens_after_entries from last_seen_entries).       *)
ReadYourWrites ==
  \A k \in DOMAIN appendLog :
    appendLog[k].loc # NoEntry => appendLog[k].seen \subseteq Before(appendLog[k].loc)

(* Every snapshot request is eventually answered with its end marker,     *)
(* unless the coordinator shut down or the store reported an I/O error    *)
(* (the core does not retry a failed read, so the chain never finishes).  *)
SnapshotsAnswered ==
  \A j \in 1..MaxSnapshots :
    (Len(snapFloors) >= j)
      ~> (Len(MarkerPositions) >= j \/ tl.finished \/ tl.numErrors > 0)


-----------------------------------------------------------------------------
(* Refinement: the coordinator and the store implement CausalLog.  The     *)
(* abstract log is the store; the abstract reader's sequence is the       *)
(* entries of ready_reads, leaving out end markers and errors.            *)

DeliveredLocs ==
  LET es == SelectSeq(tl.out, LAMBDA o : o.kind = "entry")
  IN FlattenSeq([k \in DOMAIN es |-> es[k].locs])

Abstract == INSTANCE CausalLog WITH log <- store, multis <- multis,
                                    delivered <- DeliveredLocs

(* Every behaviour of the coordinator and the store is a behaviour of the  *)
(* causal log: the store only grows at the end of a chain, every append,   *)
(* the client's PerformAppend included, names written entries of other     *)
(* chains, and every handler step (ReadUntil, a completion and its         *)
(* stop_blocking_on cascade) hands the reader a batch of entries each of   *)
(* which is in the store, new, and after its predecessor and dependencies. *)
(* This is Abstract!Spec, with [A]_v written [UNCHANGED v \/ A]_v: most of  *)
(* the coordinator's steps leave the abstract state alone, and TLC settles *)
(* those without enumerating the batches of CausalLog's Next.              *)
CausalLogSpec ==
  Abstract!Init /\ [][UNCHANGED Abstract!vars \/ Abstract!Next]_Abstract!vars
=============================================================================
