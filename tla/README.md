# TLA+ models of the fuzzy log client

This directory holds TLA+ specifications of the delos-rust fuzzy log client and
the TLC configurations that check them. The fuzzy log is a set of ordered
chains held by remote servers. Entries of one chain may depend on entries of
others, and one multiappend may land on several chains at once. The client-side
coordinator turns out-of-order, partial answers from the store into a stream for
the local consumer that is:

- exactly once per position;
- in chain order;
- in causal order.

## The system (inventory)

| Part | Source | State | Operations |
|------|--------|-------|------------|
| ThreadLog coordinator | `fuzzy_log_client/src/fuzzy_log/mod.rs` | `per_chains`, `blockers` (position -> queue of `Rc` packets), `blocked_multiappends`, `no_longer_blocked`, `num_snapshots`, `prefetch`, `last_seen_entries`, `ack_writes`, `num_errors`, `finished`, `chains_currently_being_read` | client requests: SnapshotAndPrefetch, MultiSnapshotAndPrefetch, StrongSnapshotAndPrefetch, PerformAppend, ReturnBuffer, ReadUntil, Fastforward, Rewind, StopAckingWrites, Shutdown; store messages: ReadComplete, WriteComplete, IoError |
| PerColor (per chain) | `per_color.rs`: not in this tree, written from the spec | horizon, reads issued, reads in flight, delivered prefix, entry parked on the snapshot, outstanding probes | `next_range_to_fetch`, `fetching_range`, `give_new_snapshot`, `update_horizon`, `overread_at`, `got_read`, `set_returned`, ... |
| BufferCache | mod.rs 1509-1559 | a pool of byte buffers | alloc, cache_buffer, flush |
| Store (async) | interface only (spec section 6) | the chains | answers reads (entry or "no entry, horizon h"), appends, I/O errors |
| Legacy FuzzyLog | `src/prelude.rs` | horizon, local_horizon, upcalls | append (with dependencies), try_append, append_entry (retry on AlreadyWritten), try_multiput, get_next_unseen, read_multiput, play_transaction (timeout then abort), commit, Drop |
| UdpStore | `src/udp_store.rs` | a socket, an RTT estimate; the test server keeps a first-writer-wins map | insert, get, multi_append |
| DPDK server | `servers/dpdk_server/src/lib.rs` | first-writer-wins map, per-chain horizon | handle_packet, handle_multiappend |
| C bindings, java proxy | `src/lib.rs`, `examples/java_proxy` | none of their own | FFI glue and a TCP loop |

How they interact:

- The coordinator runs on one thread and takes one message at a time off a single mpsc queue. Client requests and store completions share that queue.
- It sends read and append requests to the store, which answers them asynchronously and in any order.
- Other clients append to the same chains at any time.
- A snapshot sends a probe read at `u64::MAX` for each chain. The probe's answer brings the chain's horizon. Reads below the horizon are then issued, plus a speculative range above it while a probe is out.
- When every chain is done, one end-of-snapshot marker (an empty buffer) is sent per outstanding snapshot.

What is hard:

- Completions arrive out of order.
- A dependency may point at a chain not read yet.
- An entry above the horizon is parked until a later snapshot.
- `Rc` uniqueness decides when a blocked entry is released.
- Probe answers are stale the moment they arrive.
- Errors are never retried.
- Read-your-writes dependencies are built from what the client has observed so far.

## Modules

| Module | Models | Notes |
|--------|--------|-------|
| `PerColor` | the per-chain state record and its methods | Every operator is spec-modelled: the source file is absent. |
| `ThreadLog` | the coordinator together with the store it talks to | One action per request or message. The handler body is written as operators that transform the coordinator record. |
| `CausalLog` | what the log promises a reader (spec sections 1 to 3), without the coordinator | Abstract specification: a log of chains that only grows at their ends, one entry at a time or one entry on each of several chains at once (a multiappend), and a reader's sequence extended by batches of entries, each after its chain predecessor and dependencies, with a multiappend's entries all together (`Whole`). |
| `MCThreadLog` | constants for TLC | Used by five `.cfg` files. |
| `SyncFuzzyLog` | the legacy synchronous client of `src/prelude.rs`, several instances over one first-writer-wins store | One step per store call. The recursive functions are frames on a per-client stack. |
| `MCSyncFuzzyLog` | constants for TLC | Used by seven `.cfg` files. |
| `FuzzyColumns` | what the legacy client offers, without store or Horizon | Abstract specification: every column is a sequence that only grows at its end, and each client plays each column one existing entry at a time. `SyncFuzzyLog` implements it (`FuzzyColumnsSpec`). |

How `ThreadLog` corresponds to the code:

- **State.** The variable `tl` is the `ThreadLog` struct, one field per struct field: `pc` is `per_chains`, `nlb` is `no_longer_blocked`, and so on.
  - `out` is the history of `ready_reads`.
  - `acks` is the history of `finished_writes`.
  - `toStore` and `appends` are the requests sent on `to_store`.
  - `fromStore` is the bag of completions queued for the coordinator.
- **Packets.** A packet (`Rc<Vec<u8>>`) is `<<chain, index, gen>>`, where `gen` counts the `Rc::new` calls for that position.
  - `RcCount` counts the clones in `blockers`.
  - `held` is the clone that the running handler frame keeps while it registers a packet, which makes `try_unwrap` fail inside a cascade.
- **Handlers.** Every handler is one atomic step, because the coordinator is single-threaded. Its body calls operators named after the methods:
  - `AddBlockersAt`, `EnqueuePacket`, `TryReturningAt`, `ReturnEntry(At)`;
  - `StopBlockingOn` with `TryReturnBlockedBy` and `DrainNoLongerBlocked`;
  - `FetchBlockerAt`, `ContinueFetch(IfNeeded)`, `Prefetch`, `FetchNext`.
  
  The trailing `continue_fetch` of `handle_completed_read` is part of the same step.
- **Multiappends.** `multis` holds the positions of each multiappend, sorted by chain, and `LocsAt(loc)` gives every position of the entry at `loc`. A delivered entry is `[kind |-> "entry", locs |-> LocsAt(loc)]`. Only single-server multiappends are modelled: every piece carries all of its positions, so there is no blind search, no sentinel and no `TakeLock`, and `blocked_multiappends` stays empty.
  - `MultiRead` is the Multiput arm of `handle_completed_read` with `update_multi_part_read`. A piece beyond the snapshot is Finished at once (the early return at mod.rs 1020). A duplicate of a returned piece is overread. A first piece within the snapshot runs `FetchMultiParts` (`fetch_multi_parts`: `update_horizon` on each piece's chain, with the unparking it may cause) and is then Finished.
  - `MultiFinished` is the Finished arm: a new `Rc`, `AddBlockers` (each piece queued behind its chain predecessor unless it is next, then the dependencies), and `TryReturning` if some piece is next.
  - `ReturnEntry` delivers all positions at once, marking each returned, or parks the entry on the last chain whose snapshot does not cover its piece.
  - `OverreadAt` (PerColor) forgets the read and lowers `sent` only for a position not yet returned. A duplicate piece is then not requested again, which spec 4.3 implies and without which a whole-log snapshot of a multiappend never ends.
  - `ExternalMultiAppend`: another client's multiappend puts one entry, with no dependencies, on each of two or more chains in one step.
- **Fastforward and strong snapshots.** `Fastforward` calls `GiveNewSnapshot` and drops its result, as the code does. `StrongSnapshot` puts one packet naming the whole cut in `strongs` (`FetchStrongSnapshot`) and then runs `Prefetch` on each chain. `StrongAnswered` is the Snapshot branch of `handle_completed_read`, which updates `read_loc`'s chain only.
- **Store actions.**
  - `Serve`: the store answers a read, with the entry or with "no entry".
  - `ServeWrite`: it appends a client entry.
  - `ServeError`: it reports an I/O error instead of answering.
  - `ServeStrong`: it answers a strong snapshot packet with one Snapshot completion, at the cut's position on one chain of the cut.
  - `ExternalAppend`: another writer appends an entry, depending on at most one existing position of another chain.
- **History variables**, used by properties only:
  - `snapFloors`: for each snapshot request, the store length of its chains at the moment of the request. For ReadUntil it is the index the client named.
  - `appendLog`: for each append, what the client had observed before it and where the append landed.

How `SyncFuzzyLog` corresponds to the code:

- **State.** `store` is the servers' map from positions to entries. A write to an empty position takes it; a write to a taken one gets the entry already there, which `UdpStore::insert` reports as `AlreadyWritten`. The server half is `ServeData`, which is `handle_packet` of the DPDK server for a Data packet (the test server in `udp_store.rs` does the same). The client half is `Insert`: the answer is `Ok` exactly when the server stored this request's packet. `cl[c]` is client `c`'s `FuzzyLog`:
  - `horizon` is its `Horizon` (a per-client map: `LocalHorizon` is not in the tree);
  - `local` is `local_horizon`;
  - `txn` is the open `Transaction`;
  - `stack` holds one frame per running function, and `ret` is the value the last one returned.
- **Steps.** One step per `insert` or `get`, so other clients interleave exactly between store calls. A frame's `stage` is the point in the function where it continues after a nested call.
  - `AppendEntry`, `TryMultiput`, `GetNextUnseen`, `ReadMultiput`, `PlayTransaction`, `PlayUntil`, `StartTransaction` run the function on top of the stack.
  - `CallAppend`, `CallTryAppend`, `CallTryMultiput`, `CallStartTransaction`, `Commit`, `Drop`, `CallGetNextUnseen`, `CallPlayFoward` are the API calls of an idle client. `CallTryAppend` is one step, since `try_append` makes a single `insert`.
  - `get_next_unseen` has three stages. `get` reads the entry. `deps` is the `play_deps` loop: `DepsPlayed` ends it and `PlayNextDep` pushes a `play_until` frame per dependency. `done` is the code after a nested `read_multiput` or `play_transaction`. `Dispatch` is the `match` on the entry read in `get`.
  - An append is given at most one dependency (`DepLists`): a position of another column that the client wrote (its horizon) or played (its `local_horizon`), so the position exists. Multiput and TransactionStart entries carry none, so the `play_deps` calls of `read_multiput` and `play_transaction` do nothing here.
  - The store has a row 0, which only `try_append` writes (see the hazards).
  - A failed `expect` or `assert_eq` sets `panicked`, and the client stops.
  - The 100 ms sleep of `play_transaction` is a step that sets `timedOut`.
- **History variables.** `applied[c]` is the sequence of upcalls `<<data id, column>>`. `resolved[c]` is the set of transaction outcomes `c` settled on in `play_transaction`.
- **Left out.** Dependencies on positions that nobody writes (`play_until` spins on them, see the hazards); dependencies of multiputs and transactions; datagram loss and reply matching in `UdpStore`.

## Runs

| Run | cfg | Expect | Checks |
|-----|-----|--------|--------|
| core | `MCThreadLog.cfg` | pass | TypeOK, ChainOrder, CausalOrder, SnapshotComplete, NoPanic, SnapshotsAnswered; two snapshot requests, by chain, all chains or ReadUntil |
| control | `MCThreadLogControl.cfg` | pass | ChainOrder, CausalOrder, SnapshotsAnswered; whole-log snapshots of another client's multiappend, ReadUntil, StopAckingWrites, Shutdown, one I/O error |
| writes | `MCThreadLogWrites.cfg` | pass | ChainOrder, CausalOrder, CausalLogSpec; the client's own appends with read-your-writes dependencies on both chains, read by snapshots, ReadUntil, Fastforward and strong snapshots, next to another client's multiappend |
| read_your_writes | `MCThreadLogColors.cfg` | violation | ReadYourWrites |
| held_packet | `MCThreadLogHeld.cfg` | violation | SnapshotComplete; one whole-log snapshot, one multiappend, three entries |
| sync_appends | `MCSyncAppends.cfg` | pass | TypeOK, PlayedInOrder, HorizonOwned, DepsPlayedFirst, CallsReturn; legacy appends with and without a dependency, `try_append`, `get_next_unseen`, `play_foward` |
| sync_multiput | `MCSyncMultiput.cfg` | pass | ColumnOrder, HorizonOwned, ColumnsGapless; multiputs, appends and reads |
| sync_txn | `MCSyncTxn.cfg` | pass | AppliedOnce, TxnAllOrNothing, NoPanic, FuzzyColumnsSpec, CallsReturn; one writer's transactions, read by both clients |
| sync_txn_crossing | `MCSyncTxnCrossing.cfg` | violation | AppliedOnce |
| sync_txn_abort | `MCSyncTxnAbort.cfg` | violation | TxnAgreement |
| sync_multiput_read | `MCSyncMultiputRead.cfg` | violation | NoPanic (of `SyncFuzzyLog`) |
| sync_multiput_partial | `MCSyncMultiputPartial.cfg` | violation | MultiputAtomic |

What the properties say:

- **ChainOrder.** The indices of each chain reach the client as exactly 1, 2, ..., n (a multiappend counts on each of its chains).
- **CausalOrder.** Every dependency of a delivered entry was delivered before it.
- **SnapshotComplete.** The j-th end marker comes after every entry that was in the store for the j-th request's chains when it was made. It is checked in the core run only. The control run's two entries cannot reach the case that breaks it: a whole-log snapshot that reads a multiappend and an entry depending on its other piece. That case needs three entries, and the held_packet run finds it. TypeOK is checked once, in the core run; the control and writes runs use the same module and add no new kind of state.
- **NoPanic.** The assertion of `enqueue_packet` holds.
- **SnapshotsAnswered.** Every snapshot request is eventually followed by its marker, unless the loop shut down or an error was reported.
- **CausalLogSpec.** The refinement: the store and the entries of `ready_reads` behave as `CausalLog` with `log <- store` and `delivered <-` the positions of the entries in `out` (end markers and errors left out). Every append extends one chain, or one entry on each chain of a multiappend, and names written entries of other chains. Every handler step hands the reader a batch of new entries, each in the store and after its predecessor and its dependencies, with the positions of a multiappend side by side. It is stated as `Abstract!Init /\ [][UNCHANGED Abstract!vars \/ Abstract!Next]_Abstract!vars`, which is `Abstract!Spec` with the stuttering case written first. Most coordinator steps leave the abstract state alone, and in this form TLC settles them without enumerating the batches of `Deliver`. This brings the writes run from about three minutes to about one.
- **ReadYourWrites.** An append lands ordered (by chain order and dependencies, transitively) after every entry of the client's colours that it had observed before the append.

Result: ReadYourWrites is violated.

1. The client appends to chain 1 and gets the ack.
2. It appends to chain 1 again. `PerformAppend` drains `last_seen_entries`, including the chain-1 entry it filtered out as redundant.
3. A third append, to chain 2, carries no dependency.

So the third append is not ordered after the first, although the spec (section 4.1) promises read-your-writes dependencies. It is recorded as a finding.

Result of the held_packet run: SnapshotComplete is violated (14 states).

1. Another client's multiappend lands at (1, 1) and (2, 1). Another writer appends (1, 2), which depends on (2, 1).
2. The client asks for a whole-log snapshot. Probes and speculative reads of (1, 1) and (2, 1) go out.
3. The read of (1, 1) completes before chain 2's probe. The piece is beyond chain 2's snapshot, so `return_entry` parks the multiappend on chain 2.
4. Chain 1's probe answers with horizon 2 and (1, 2) is fetched.
5. The read of (1, 2) completes. It is not next on chain 1, so `add_blockers_at` queues a clone behind (1, 1) and another behind its dependency (2, 1), and calls `fetch_blocker_at(2, 1)`.
6. `update_horizon` unparks the multiappend, which is delivered. `stop_blocking_on` empties the queues of (1, 1) and (2, 1). `Rc::try_unwrap` fails on (1, 2) each time, because `handle_completed_read` still holds `packet`, and the clones are dropped.
7. `try_ret` was false, so `try_returning_at` is not called. Nothing refers to (1, 2) any more. The remaining reads finish and the end marker goes out without it.

The frame's own reference makes the `Rc` count wrong exactly when the blocker fetch cascades. This is recorded as a code bug. `is_finished` is in the absent `per_color.rs`; if it waited for every position below the horizon instead (spec line 58), the snapshot would never end instead.

Two further failures were found while modelling and are recorded as hazards without a run, because the project keeps at most twelve runs:

- **Fastforward.** `Fastforward` calls `give_new_snapshot` without `increment_outstanding_snapshots`, as `ReadUntil` does. With `Requests = {SnapshotAndPrefetch, Fastforward}` and two entries, TLC finds SnapshotComplete violated: the Fastforward uses up the probe's outstanding count and the end marker goes out before entry 2.
- **Early piece.** With a per-chain snapshot and one multiappend, the speculative read of a piece can beat the probe answer. `update_multi_part_read` then returns Finished without `fetch_multi_parts` (the FIXME at mod.rs 1014-1024), the entry is parked on the other chain's snapshot that nobody reads, and the end marker goes out without it. TLC shows it in 7 steps. The control run reads whole-log snapshots only for this reason.

A hazard no run asserts: a strong snapshot over both chains counts an outstanding snapshot on each chain (in `prefetch`). The store answers the one packet with one completion (spec section 6). The Snapshot branch of `handle_completed_read` updates only `read_loc`'s chain, since its loop over the answer's `locs` is commented out. The other chain never finishes, and the end marker never comes. SnapshotsAnswered fails when a strong snapshot over two chains is allowed. No run asserts this, because the store's answer to a strong snapshot is not in the tree: a store that answered once per chain would not show it. The writes run checks strong snapshots for order and refinement only, and drops SnapshotsAnswered for that reason; the core and control runs keep it.

What the legacy-client properties say:

- **PlayedInOrder.** With appends only, a client's upcalls for a column are exactly the column's entries from row 1 to its `local_horizon`, in order.
- **ColumnOrder.** Whatever path plays an entry (`get_next_unseen`, `read_multiput`, `play_transaction`), a client's upcalls for a column come in strictly increasing rows, never beyond its `local_horizon`.
- **HorizonOwned.** A client's horizon names a position its own insert won, so `play_foward` only waits for entries that exist.
- **ColumnsGapless.** Every column is written from row 1 without holes, whatever the clients' stale horizons. `try_multiput` folds its row from 1 over its columns' horizons, which keeps it at or below the first hole.
- **CallsReturn.** Every call returns (liveness). In sync_txn this includes a reader waiting in `play_transaction` for a commit the writer never makes: the timeout and the Abort insert end the wait.
- **DepsPlayedFirst.** Every entry within a client's `local_horizon` has its dependencies within it too, and a dependency in a column with an upcall was upcalled before the entry, however `play_deps`, `play_until` and `get_next_unseen` nest.
- **FuzzyColumnsSpec.** The refinement: with each column mapped to its entries from row 1 up to the first empty row (kind and id) and `played` to `local_horizon`, every step is an append at the end of one column, a client moving one entry further in one column, or a stutter. It catches a write above a hole, an entry changed, and a `local_horizon` update that jumps over entries or moves back.
- **AppliedOnce.** No entry is upcalled twice by the same client.
- **TxnAllOrNothing.** A client between calls has upcalled all the start entries (with an upcall) of a committed transaction, or none.
- **TxnAgreement.** No two clients settle one transaction differently.
- **NoPanic.** No `expect` or `assert_eq` of the client fails.
- **MultiputAtomic.** A client between calls has upcalled every column of a multiput or none.

Results for the legacy client:

1. **sync_txn_crossing.** Two writers start transactions on columns 1 and 2. Their start entries interleave: T2 before T1 in column 1, T1 before T2 in column 2. A reader of column 2 plays T1. T1 plays column 1 up to its start, which plays T2. T2 plays column 2 up to its start and reads T1's start again, because `get_next_unseen` sets `local_horizon` only after `play_transaction` returns. T1's data is upcalled twice and the recursion has no end. Code bug.
2. **sync_txn_abort.** A reader times out on a transaction and tries to insert an Abort at position k. The writer's Commit wins k. The reader goes on to k + 1 without reading k, and aborts there. Any other reader, the writer included, finds the Commit at k first. Code bug.
3. **sync_multiput_read.** A reader reaches column 1 of a multiput before the writer has inserted column 2, and `expect("invalid entry")` panics. Code bug.
4. **sync_multiput_partial.** A multiput loses column 2 to a concurrent append. It stays in column 1, and a reader upcalls it there only. This disagrees with the atomic cross-chain appends of the spec (section 1).

5. **try_append** (no run). `try_append` inserts at the horizon itself, not one past it. With a horizon h > 0 that position is the client's own last entry (HorizonOwned), so the insert always fails and it returns None; with h = 0 it writes row 0, which `get_next_unseen` never reads. The sync_appends run takes both paths; the hazard is recorded without a violation run.

Every property of a passing run has a mutant in `ThreadLog.tla`: an operator placed right before its target that reproduces a plausible bug. TLC finds each one violated:

- the drain loop skipped;
- no enqueue behind the predecessor (it also breaks CausalLogSpec, and ChainOrder under the multiappend of the control run);
- an enqueue for index 1;
- the `Rc` count ignored;
- markers flushed per chain;
- the reading handle never released;
- `num_errors` not advanced.

The legacy client's mutants live in `SyncFuzzyLog.tla`, and TLC finds each one violated:

- an upcall for a column with no upcall registered;
- `local_horizon` not advanced by `get_next_unseen`;
- `append_entry` not retrying;
- `play_until` looping while `local <= idx`;
- the already-seen check of `read_multiput` dropped;
- `try_multiput` updating the horizon even when the insert failed;
- `try_multiput` folding its row with max instead of min;
- `play_transaction` not setting `local_horizon` for a played start entry;
- `play_transaction` stopping its start-entry loop at the start column;
- `play_transaction` matching any Commit instead of its own uuid;
- `play_deps` skipped (`DepsPlayedSkip`);
- `play_transaction` setting a start column's `local_horizon` without the `play_until` before it (`ApplyNextNoPlay`);
- `play_transaction` never setting `timed_out`, so it waits for ever (`AfterNoValueNoTimeout`).
- the server overwriting an occupied position, as `handle_multiappend` does (`ServeDataOverwrite`). FuzzyColumnsSpec fails, because an entry of a column changes after it exists.

## Bounds

- **Chains and entries.** Two chains, at most two entries per chain, and at most two entries in the whole store (three in the read_your_writes and held_packet runs). The control and writes runs allow one multiappend, which counts as one entry per chain. This is enough for:
  - a completion to overtake its predecessor;
  - an entry to depend on an unread entry of the other chain;
  - a writer to append between a probe answer and the snapshot;
  - a speculative read to overread.
- **Snapshots.** Two snapshot requests in the core run, so that two can be outstanding and share one flush. One elsewhere.
- **Other constants.**
  - `MAX_PREFETCH = 1`: the code uses 40, but any width of at least 1 exercises the same speculative path.
  - `ProbeIdx = 99` stands for `u64::MAX`: it only has to exceed every index that is ever read.
- **Running time.** Larger bounds multiply the state space past a few minutes. The control run with three entries passes 700,000 states without finishing, and then finds the held-packet loss.
- **Legacy client.**
  - Two clients and two columns, with two or three calls each.
  - In sync_txn, `MaxRow = 6` covers two transactions in the commit column, each with a start, a Commit or Abort, and a reader's Abort after it lost the race for a position. With 4 rows a reader scanning for its commit runs out of rows and `CallsReturn` fails for the bound's sake only.
  - The refinement is checked in sync_txn only. Checking it in sync_appends or sync_multiput (375,000 and 1.3 million states) takes four to more than ten minutes.
  - `MaxRow` is at least the number of appends in the appends run, so no append runs out of rows and `CallsReturn` is not cut short by the bound.
  - `MaxDepth` bounds the call stack as a state constraint. It is 8 in the transaction runs, deep enough for a transaction to replay another from inside `play_until` and reach itself again.
  - Only column 1 has an upcall in the appends and multiput runs. Column 2 is then written and read but not upcalled, which exercises the `upcalls.contains_key` branches.

## Fairness

- The store eventually answers every request (spec section 6: one completion or error per request). This is weak fairness on `Serve`, `ServeStrong` and `ServeWrite`. The one on `Serve` is written out as `[]<>(to_store empty) \/ []<><<ServesRead>>_vars`. `Serve` has no guard beyond a queued request. Only `Serve` and `ServeError` take a request off `to_store`, and `ServeError` answers it with an I/O error, so the `ServesRead` steps of `Next` are exactly the `Serve` steps.
- The coordinator loop keeps taking messages while it runs (`run` loops on `recv_timeout`). This is weak fairness on `HandleFromStore`.
  - It is written out as `[]<>(queue empty or finished) \/ []<><<a completion was taken>>_vars`.
  - That is equivalent: the action's only guard is that a message is queued and the loop runs, and only it shrinks `fromStore`.
  - TLC then avoids evaluating the whole handler to decide enabledness.
- There is no fairness on client requests or on other writers.
- In the legacy client, a thread inside a call keeps running it. This is weak fairness on each client's internal steps, taken together. Making calls is never forced.

## Not modelled (yet), and the plan

Order of the remaining work, most important behaviour first:

1. The rest of multiappend assembly in `ThreadLog` that does not depend on the blind search: `TakeLock`, `wait_for_deps` and the `NoRemote`/`ensure_read` path.
2. Rewind. It calls only `rewind_to`, which is in the absent `per_color.rs`, and spec scenario E does not say what happens to reads in flight or to parked entries. ChainOrder would have to allow the re-delivery the spec permits.
3. The rest of the legacy client: dependencies of multiputs and transaction starts, which make `read_multiput` and `play_transaction` play dependencies in the middle of their loops.
4. `BufferCache`, only if a property about its size is wanted: it carries no control.

Left out for good:

- `UdpStore` as a lossy datagram channel. `insert` and `multi_append` send once and wait with no timeout, so a lost datagram only blocks the caller (a hazard). Whether a stale reply is taken for the answer to a later request depends on the `EntryKind` layout bits and `contents()`, which are in the absent `packets` module.
- The servers' multiput handlers: `handle_multiappend` in the DPDK server and the Multiput branch of the `UdpStore` test server. Nothing in the tree calls them. The C dispatcher of the DPDK server is absent, `UdpStore::multi_append` is called only by tests, and the legacy client writes multiputs column by column through `insert`. PROJECT.json records the hazard of `handle_multiappend`: it overwrites without a vacancy check, at positions taken from a horizon that `handle_packet` never advances. A model of them would check clients that do not exist in this repository. `rss_log` and `init_log` are setup with no control.
- The sentinel and blind-search path of multi-server multiappends (`update_multi_part_read` at mod.rs 1073-1176). It calls about seven `PerColor` operations whose code is absent and which the spec does not describe.

- the C bindings and configuration parsing (`src/lib.rs`);
- the java proxy;
- the byte layout of entries;
- logging and `print_data`;
- the consumer hanging up: the `send(...).is_err()` paths that set `finished`. The consumer is assumed to stay.
