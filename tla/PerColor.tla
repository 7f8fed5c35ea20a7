------------------------------ MODULE PerColor ------------------------------
(***************************************************************************)
(* The per-chain read state of the fuzzy log client (PerColor in           *)
(* fuzzy_log/per_color.rs).  That file is not part of the source tree this *)
(* project was built from, so every operator here is written from the      *)
(* spec (section 4.2 and 4.4): the horizon, the fetched range, the         *)
(* outstanding reads, the delivered prefix, the one entry parked until the *)
(* next snapshot, and the outstanding snapshot probes.  The coordinator    *)
(* (ThreadLog) calls these operators exactly where mod.rs calls the        *)
(* methods of the same names.                                              *)
(*                                                                         *)
(* A PerColor is a record:                                                 *)
(*   horizon   last_snapshot: highest index known to exist                 *)
(*   sent      last_read_sent_to_server: reads issued for 1..sent          *)
(*   reads     indices whose read is in flight                             *)
(*   returned  last index delivered to the client (a contiguous prefix)    *)
(*   blocked   blocked_on_new_snapshot: one entry waiting for the horizon  *)
(*   snaps     outstanding snapshot probes                                 *)
(*   reading   holds a clone of chains_currently_being_read                *)
(*   interesting  the client consumes this chain                           *)
(***************************************************************************)
EXTENDS Integers, FiniteSets

CONSTANTS
  MAX_PREFETCH  \* the code's MAX_PREFETCH: width of a speculative fetch

\* The value of an empty Option<Vec<u8>>; entries are identified by their
\* position <<chain, index>>, chain 0 is never a real chain.
NoEntry == <<0, 0>>

\* PerColor::new / PerColor::interesting
NewPerColor(isInteresting) ==
  [horizon |-> 0, sent |-> 0, reads |-> {}, returned |-> 0,
   blocked |-> NoEntry, snaps |-> 0, reading |-> FALSE,
   interesting |-> isInteresting]

HasReturned(p, i)      == i <= p.returned
NextReturnIs(p, i)     == i = p.returned + 1
IsWithinSnapshot(p, i) == i <= p.horizon
CurrentSnap(p)         == p.horizon
CurrentlyBuffering(p)  == Cardinality(p.reads)

\* set_returned: the delivered prefix now ends at i
SetReturned(p, i) == [p EXCEPT !.returned = i]

BlockOnSnapshot(p, e) == [p EXCEPT !.blocked = e]

\* got_read: a completed read is needed iff it was outstanding
GotReadNeeded(p, i) == i \in p.reads
GotRead(p, i)       == [p EXCEPT !.reads = @ \ {i}]

\* overread_at: the read found nothing new; forget it.  An index not yet
\* delivered is fetched again once the horizon covers it (the answer may be
\* stale); one already delivered (a duplicate multiappend piece) is not
\* requested again (spec 4.3)
OverreadAt(p, i) ==
  [p EXCEPT !.reads = @ \ {i},
            !.sent  = IF i - 1 < @ /\ i > p.returned THEN i - 1 ELSE @]

\* next_range_to_fetch: the unfetched range below the horizon, or, while a
\* snapshot probe is out, a speculative range above it
NextRangeToFetch(p) ==
  IF p.sent < p.horizon
  THEN [kind |-> "BelowHorizon", low |-> p.sent + 1, high |-> p.horizon]
  ELSE IF p.snaps > 0
  THEN [kind |-> "AboveHorizon", low |-> p.sent + 1,
        high |-> p.sent + MAX_PREFETCH]
  ELSE [kind |-> "None", low |-> 0, high |-> 0]

\* fetching_range: reads for low..high are now in flight
FetchingRange(p, low, high) ==
  [p EXCEPT !.sent    = IF high > @ THEN high ELSE @,
            !.reads   = @ \cup (low..high),
            !.reading = TRUE]

IncrementOutstandingSnapshots(p) ==
  [p EXCEPT !.snaps = @ + 1, !.reading = TRUE]

\* The entry parked on the snapshot, if the new horizon now covers it.
Unparked(p, h) ==
  IF p.blocked # NoEntry /\ p.blocked[2] <= h THEN p.blocked ELSE NoEntry

RaiseHorizon(p, new) ==
  LET h == IF new > p.horizon THEN new ELSE p.horizon
  IN [p EXCEPT !.horizon = h,
               !.blocked = IF Unparked(p, h) # NoEntry THEN NoEntry ELSE @]

\* give_new_snapshot: answers one snapshot probe and raises the horizon;
\* returns <<new state, unblocked entry or NoEntry>>
GiveNewSnapshot(p, new) ==
  LET q == RaiseHorizon(p, new)
  IN <<[q EXCEPT !.snaps = IF @ > 0 THEN @ - 1 ELSE 0],
       Unparked(p, q.horizon)>>

\* update_horizon: raises the horizon to cover a needed position
UpdateHorizon(p, new) ==
  LET q == RaiseHorizon(p, new) IN <<q, Unparked(p, q.horizon)>>

IsFinished(p) == p.reads = {} /\ p.snaps = 0

SetFinishedReading(p) == [p EXCEPT !.reading = FALSE]

=============================================================================
