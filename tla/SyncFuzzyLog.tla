---------------------------- MODULE SyncFuzzyLog ----------------------------
(***************************************************************************)
(* The legacy synchronous fuzzy log client (FuzzyLog in src/prelude.rs)    *)
(* used by several clients at once over one store.  Every call a client    *)
(* makes to the store is one step; between two of its steps the other     *)
(* clients run.  The client code is recursive (get_next_unseen ->          *)
(* read_multiput / play_transaction -> play_until -> get_next_unseen), so  *)
(* each client keeps a stack of frames, one per active function, and a     *)
(* return register.                                                        *)
(*                                                                         *)
(* The store is a first-writer-wins map from positions to entries, as the *)
(* servers implement it (dpdk_server handle_packet, the UdpStore test      *)
(* server): writing an empty position succeeds, writing a taken one       *)
(* returns the entry already there, which the client reports as           *)
(* AlreadyWritten.  A Data entry carries the dependencies its append was  *)
(* given (at most one, on a position of another column the writer has     *)
(* written or played); Multiput and TransactionStart entries are written  *)
(* without dependencies here.  Row 0 exists: try_append can write there.  *)
(***************************************************************************)
EXTENDS Integers, Sequences, FiniteSets, FiniteSetsExt, SequencesExt

CONSTANTS
  Clients,   \* client processes, each with its own FuzzyLog
  Writers,   \* the clients that append, multiput or start transactions
  Columns,   \* chain ids (order), numbers
  MaxRow,    \* bound: rows per column
  MaxCalls,  \* bound: API calls per client
  Upcalls,   \* columns with a registered upcall
  Calls,     \* the API calls clients make
  MaxDepth   \* bound: frames on a client's stack

ASSUME Columns \subseteq Nat \ {0} /\ Upcalls \subseteq Columns /\ Writers \subseteq Clients
ASSUME Calls \subseteq {"append", "try_append", "try_multiput",
                        "start_transaction", "get_next_unseen", "play_foward"}

\* the rows entries are appended to and read from; Slots adds row 0, which
\* only try_append writes
Pos == Columns \X (1..MaxRow)
Slots == Columns \X (0..MaxRow)

\* Entry<V>.  id identifies the data (the call that wrote it) or the uuid of
\* a transaction; cols are the columns of a multiput; commitCol and starts
\* are those of TransactionStart and TransactionCommit; deps are the
\* positions Entry::dependencies gives.
NoValue == [kind |-> "none"]
MkEntry(kind, id, cols, cc, starts) ==
  [kind |-> kind, id |-> id, cols |-> cols, commitCol |-> cc, starts |-> starts,
   deps |-> <<>>]
DataEntry(id, deps) == [MkEntry("Data", id, <<>>, 0, <<>>) EXCEPT !.deps = deps]

VARIABLES
  store,    \* [Pos -> entry or NoValue]
  cl,       \* [Clients -> client record], see below
  applied,  \* history: per client, the upcalls made: <<data id, column>>
  resolved  \* history: per client, the transaction outcomes it settled on

(***************************************************************************)
(* A client record:                                                        *)
(*   horizon  the Horizon (LocalHorizon): a per-column hint of the tail    *)
(*   local    local_horizon: the last row played per column                *)
(*   stack    the frames of the functions running, top last                *)
(*   ret      the value the last returning frame gave back                 *)
(*   calls    API calls made so far                                        *)
(*   txn      start entries of the open Transaction, <<>> if none          *)
(*   panicked an expect or assert of the client failed                     *)
(***************************************************************************)

vars == <<store, cl, applied, resolved>>

-----------------------------------------------------------------------------
(* The store (dpdk_server handle_packet, UdpStore insert/get)              *)

ServeDataOverwrite(pos, e) == [store EXCEPT ![pos] = e]

\* handle_packet, a Data packet: a vacant position takes the packet; at an
\* occupied one the log is left alone and the stored entry is copied back
\* into the packet as the answer
ServeData(pos, e) == IF store[pos] = NoValue THEN [store EXCEPT ![pos] = e] ELSE store

\* UdpStore::insert: the answer for the position carries this request's id
\* (Ok) iff the server stored the packet, else it is AlreadyWritten
Insert(pos, e) == [ok |-> store[pos] = NoValue, store |-> ServeData(pos, e)]

\* get: a position past the bound has never been written
Get(pos) == IF pos \in Slots THEN store[pos] ELSE NoValue

-----------------------------------------------------------------------------
(* Frames and the client's stack                                           *)

Top(c) == Last(cl[c].stack)

\* replace the top frame
SetTop(r, f) == [r EXCEPT !.stack = Append(Front(@), f)]

Push(r, f) == [r EXCEPT !.stack = Append(@, f)]

Return(r, v) == [r EXCEPT !.stack = Front(@), !.ret = v]

\* upcalls.get(&column).map(|f| f(data)): only registered columns
UpcallAny(c, id, col) == Append(applied[c], <<id, col>>)
Upcall(c, id, col) ==
  IF col \in Upcalls THEN Append(applied[c], <<id, col>>) ELSE applied[c]

AppendFrame(col, e, next) ==
  [fn |-> "append", col |-> col, ent |-> e, next |-> next]
GnuFrame(col) ==
  [fn |-> "get_next_unseen", col |-> col, idx |-> 0, stage |-> "get", ent |-> NoValue, k |-> 0]
PlayUntilFrame(col, idx) == [fn |-> "play_until", col |-> col, idx |-> idx]

Panic(c) ==
  /\ cl' = [cl EXCEPT ![c].panicked = TRUE]
  /\ UNCHANGED <<store, applied, resolved>>

\* A client runs the function on top of its stack; it has not panicked.
Running(c, fn) ==
  /\ ~cl[c].panicked
  /\ cl[c].stack # <<>>
  /\ Top(c).fn = fn

-----------------------------------------------------------------------------
(* append_entry: try horizon+1, horizon+2, ... until an insert succeeds;    *)
(* then update_horizon and return the position.  One step per insert.      *)

AppendEntryNoRetry(c) ==
  LET f == Top(c)  r == cl[c]
      loc == <<f.col, f.next + 1>>
  IN /\ Running(c, "append")
     /\ loc \in Pos
     /\ store' = Insert(loc, f.ent).store
     /\ cl' = [cl EXCEPT ![c] = Return([r EXCEPT !.horizon[f.col] = f.next + 1], loc)]
     /\ UNCHANGED <<applied, resolved>>

\* the position an append_entry attempt inserts at: next_entry + 1
AppendLoc(f) == <<f.col, f.next + 1>>

AppendEntry(c) ==
  LET f == Top(c)  r == cl[c]
      loc == AppendLoc(f)
      ins == Insert(loc, f.ent)
  IN /\ Running(c, "append")
     /\ loc \in Pos
     /\ store' = ins.store
     /\ cl' = [cl EXCEPT ![c] =
                IF ins.ok
                THEN Return([r EXCEPT !.horizon[f.col] = loc[2]], loc)
                ELSE SetTop(r, [f EXCEPT !.next = loc[2]])]
     /\ UNCHANGED <<applied, resolved>>

-----------------------------------------------------------------------------
(* try_multiput: insert the multiput at (column, row) for each column in    *)
(* order; give up with None at the first AlreadyWritten, leaving the       *)
(* columns already written in place.                                       *)

TryMultiputHorizonFirst(c) ==
  LET f == Top(c)  r == cl[c]
      col == f.cols[f.k]
      ins == Insert(<<col, f.row>>, MkEntry("Multi", f.id, f.cols, 0, <<>>))
      r2 == [r EXCEPT !.horizon[col] = f.row]
  IN /\ Running(c, "try_multiput")
     /\ store' = ins.store
     /\ cl' = [cl EXCEPT ![c] =
                IF ~ins.ok THEN Return(r2, <<>>)
                ELSE IF f.k = Len(f.cols) THEN Return(r2, <<>>)
                ELSE SetTop(r2, [f EXCEPT !.k = @ + 1])]
     /\ UNCHANGED <<applied, resolved>>

TryMultiput(c) ==
  LET f == Top(c)  r == cl[c]
      col == f.cols[f.k]
      ins == Insert(<<col, f.row>>, MkEntry("Multi", f.id, f.cols, 0, <<>>))
      r2 == [r EXCEPT !.horizon[col] = f.row]
  IN /\ Running(c, "try_multiput")
     /\ store' = ins.store
     /\ cl' = [cl EXCEPT ![c] =
                IF ~ins.ok THEN Return(r, <<>>)
                ELSE IF f.k = Len(f.cols) THEN Return(r2, <<>>)
                ELSE SetTop(r2, [f EXCEPT !.k = @ + 1])]
     /\ UNCHANGED <<applied, resolved>>

-----------------------------------------------------------------------------
(* get_next_unseen(column): read local_horizon+1; on NoValue return None;   *)
(* else play_deps(ent.dependencies()), one play_until per dependency, and  *)
(* then match the entry read before them: a Data entry is upcalled, a      *)
(* Multiput read with read_multiput, a TransactionStart played with         *)
(* play_transaction, Commit and Abort are passed over; then                *)
(* local_horizon[column] := index.  Stage "get" is the read, stage "deps"  *)
(* the play_deps loop (k the next dependency), stage "done" the code after *)
(* the nested call returns.                                                *)

\* read_multiput's first loop: the row is already seen in some column
MultiputSeenNever(r, row, cols) == FALSE
MultiputSeen(r, row, cols) == \E i \in 1..Len(cols) : r.local[cols[i]] >= row

\* the end of get_next_unseen: local_horizon.insert(column, index)
PlayedNoAdvance(r, col, idx) == Return(r, <<col, idx>>)
Played(r, col, idx) ==
  Return([r EXCEPT !.local[col] = idx], <<col, idx>>)

\* play_deps' loop is over: every dependency of the entry has been played
DepsPlayedSkip(f) == TRUE
DepsPlayed(f) == f.k > Len(f.ent.deps)

\* play_until the next dependency
PlayNextDep(r, f) ==
  Push(SetTop(r, [f EXCEPT !.k = @ + 1]), PlayUntilFrame(f.ent.deps[f.k][1], f.ent.deps[f.k][2]))

\* the match on the entry read at f.idx
Dispatch(r, f) ==
  LET e == f.ent  idx == f.idx
      r2 == SetTop(r, [f EXCEPT !.stage = "done"])
  IN CASE e.kind \in {"Data", "Commit", "Abort"} -> Played(r, f.col, idx)
       [] e.kind = "Multi" /\ MultiputSeen(r, idx, e.cols) -> r2
       [] e.kind = "Multi" ->
            Push(r2, [fn |-> "read_multiput", row |-> idx, cols |-> e.cols,
                      k |-> 1, stage |-> "get", ent |-> NoValue])
       [] e.kind = "Start" ->
            Push(r2, [fn |-> "play_transaction", startCol |-> f.col,
                      commitCol |-> e.commitCol, uuid |-> e.id,
                      next |-> r.local[e.commitCol] + 1,
                      timedOut |-> FALSE, stage |-> "find",
                      starts |-> <<>>, k |-> 1])

GetNextUnseen(c) ==
  LET f == Top(c)  r == cl[c]
      idx == r.local[f.col] + 1
      e == Get(<<f.col, idx>>)
      g == IF f.stage = "get"
           THEN [f EXCEPT !.idx = idx, !.ent = e, !.stage = "deps", !.k = 1]
           ELSE f
  IN /\ Running(c, "get_next_unseen")
     /\ \/ /\ f.stage = "get"
           /\ e = NoValue
           /\ cl' = [cl EXCEPT ![c] = Return(r, <<>>)]
           /\ UNCHANGED applied
        \/ /\ \/ f.stage = "get" /\ e # NoValue
              \/ f.stage = "deps"
           /\ cl' = [cl EXCEPT ![c] =
                IF DepsPlayed(g) THEN Dispatch(r, g) ELSE PlayNextDep(r, g)]
           /\ applied' = [applied EXCEPT ![c] =
                IF DepsPlayed(g) /\ g.ent.kind = "Data" THEN Upcall(c, g.ent.id, f.col)
                ELSE @]
        \/ /\ f.stage = "done"
           /\ cl' = [cl EXCEPT ![c] = Played(r, f.col, f.idx)]
           /\ UNCHANGED applied
     /\ UNCHANGED <<store, resolved>>

-----------------------------------------------------------------------------
(* play_until((column, idx)): call get_next_unseen(column) while            *)
(* local_horizon[column] < idx; a None result just loops.                  *)

PlayUntilInclusive(c) ==
  LET f == Top(c)  r == cl[c]
  IN /\ Running(c, "play_until")
     /\ cl' = [cl EXCEPT ![c] =
                IF r.local[f.col] <= f.idx THEN Push(r, GnuFrame(f.col))
                ELSE Return(r, <<>>)]
     /\ UNCHANGED <<store, applied, resolved>>

PlayUntil(c) ==
  LET f == Top(c)  r == cl[c]
  IN /\ Running(c, "play_until")
     /\ cl' = [cl EXCEPT ![c] =
                IF r.local[f.col] < f.idx THEN Push(r, GnuFrame(f.col))
                ELSE Return(r, <<>>)]
     /\ UNCHANGED <<store, applied, resolved>>

-----------------------------------------------------------------------------
(* read_multiput(row, columns): for each column, get (column, row), which  *)
(* must exist (expect "invalid entry"); while it is the same multiput,     *)
(* play the column up to row-1 and upcall it (if an upcall is registered), *)
(* else return.  Stage "up" is the code after play_until returns.          *)

NextPut(r, f) == SetTop(r, [f EXCEPT !.k = @ + 1, !.stage = "get"])

\* the same multiput is in this column: with an upcall registered,
\* play_until(column, row - 1) first (stage "up" follows), else go on
PlayPut(r, f, col, e) ==
  IF col \notin Upcalls THEN NextPut(r, f)
  ELSE Push(SetTop(r, [f EXCEPT !.stage = "up", !.ent = e]),
            PlayUntilFrame(col, f.row - 1))

ReadMultiput(c) ==
  LET f == Top(c)  r == cl[c]
      col == f.cols[f.k]
      e == Get(<<col, f.row>>)
  IN /\ Running(c, "read_multiput")
     /\ \/ /\ f.stage = "get"
           /\ f.k > Len(f.cols)
           /\ cl' = [cl EXCEPT ![c] = Return(r, <<>>)]
           /\ UNCHANGED applied
        \/ /\ f.stage = "get"
           /\ f.k <= Len(f.cols)
           /\ e = NoValue
           /\ Panic(c)
        \/ /\ f.stage = "get"
           /\ f.k <= Len(f.cols)
           /\ e # NoValue
           /\ cl' = [cl EXCEPT ![c] =
                IF e.kind # "Multi" \/ e.cols # f.cols THEN Return(r, <<>>)
                ELSE PlayPut(r, f, col, e)]
           /\ UNCHANGED applied
        \/ /\ f.stage = "up"
           /\ cl' = [cl EXCEPT ![c] =
                NextPut([r EXCEPT !.local[col] = f.row], f)]
           /\ applied' = [applied EXCEPT ![c] = Upcall(c, f.ent.id, col)]
     /\ UNCHANGED <<store, resolved>>

-----------------------------------------------------------------------------
(* play_transaction(start, commit_column, uuid): scan commit_column from   *)
(* local_horizon+1 for this transaction's Commit or Abort.  On NoValue,    *)
(* sleep once (timed_out) and read again; on NoValue after the sleep,      *)
(* insert an Abort there; if that insert fails, go on with the next        *)
(* position.  On the Commit, upcall the start column, then for every other *)
(* start entry play_until(index-1), check it (expect, assert_eq) and       *)
(* upcall it.                                                               *)

Resolve(c, f, outcome) ==
  resolved' = [resolved EXCEPT ![c] = @ \cup {<<f.uuid, outcome>>}]

SkipTo(r, f) ==
  SetTop(r, [f EXCEPT !.next = @ + 1, !.timedOut = FALSE, !.stage = "find"])

\* NoValue at the commit column: the first time sleep and read again with
\* timed_out set, the second time go on to insert the Abort
AfterNoValueNoTimeout(f) == [f EXCEPT !.stage = "find"]
AfterNoValue(f) ==
  [f EXCEPT !.timedOut = TRUE, !.stage = IF f.timedOut THEN "abort" ELSE "find"]

\* the entry read is this transaction's Commit or Abort
IsOursAnyCommit(e, f, kind) ==
  e # NoValue /\ e.kind = kind /\ (kind = "Commit" \/ e.id = f.uuid)
IsOurs(e, f, kind) == e # NoValue /\ e.kind = kind /\ e.id = f.uuid

\* the loop over start_entries: skip the start column, else play_until the
\* entry's index - 1 and then read it (stage "get")
ApplyNextStopAtStart(r, f, s) ==
  IF s[1] = f.startCol THEN Return(r, <<>>)
  ELSE Push(SetTop(r, [f EXCEPT !.stage = "get"]), PlayUntilFrame(s[1], s[2] - 1))
ApplyNextNoPlay(r, f, s) ==
  IF s[1] = f.startCol THEN SetTop(r, [f EXCEPT !.k = @ + 1])
  ELSE SetTop(r, [f EXCEPT !.stage = "get"])
ApplyNext(r, f, s) ==
  IF s[1] = f.startCol THEN SetTop(r, [f EXCEPT !.k = @ + 1])
  ELSE Push(SetTop(r, [f EXCEPT !.stage = "get"]), PlayUntilFrame(s[1], s[2] - 1))

\* a checked start entry was upcalled: local_horizon.insert(column, index)
StartPlayedNoLocal(r, f, s) == SetTop(r, [f EXCEPT !.k = @ + 1, !.stage = "apply"])
StartPlayed(r, f, s) ==
  SetTop([r EXCEPT !.local[s[1]] = s[2]], [f EXCEPT !.k = @ + 1, !.stage = "apply"])

PlayTransaction(c) ==
  LET f == Top(c)  r == cl[c]
      e == Get(<<f.commitCol, f.next>>)
      s == f.starts[f.k]
      se == Get(s)
      ins == Insert(<<f.commitCol, f.next>>, MkEntry("Abort", f.uuid, <<>>, 0, <<>>))
  IN /\ Running(c, "play_transaction")
     /\ \/ /\ f.stage = "find"
           /\ e = NoValue
           /\ cl' = [cl EXCEPT ![c] = SetTop(r, AfterNoValue(f))]
           /\ UNCHANGED <<store, applied, resolved>>
        \/ /\ f.stage = "find"
           /\ IsOurs(e, f, "Abort")
           /\ cl' = [cl EXCEPT ![c] = Return(r, <<>>)]
           /\ Resolve(c, f, "abort")
           /\ UNCHANGED <<store, applied>>
        \/ /\ f.stage = "find"
           /\ IsOurs(e, f, "Commit")
           /\ cl' = [cl EXCEPT ![c] = SetTop(r, [f EXCEPT !.stage = "apply",
                       !.starts = e.starts, !.k = 1])]
           /\ applied' = [applied EXCEPT ![c] = Upcall(c, f.uuid, f.startCol)]
           /\ UNCHANGED <<store, resolved>>
        \/ /\ f.stage = "find"
           /\ e # NoValue /\ ~IsOurs(e, f, "Abort") /\ ~IsOurs(e, f, "Commit")
           /\ cl' = [cl EXCEPT ![c] = SkipTo(r, f)]
           /\ UNCHANGED <<store, applied, resolved>>
        \/ /\ f.stage = "abort"
           /\ <<f.commitCol, f.next>> \in Pos
           /\ store' = ins.store
           /\ IF ins.ok
              THEN /\ cl' = [cl EXCEPT ![c] = Return(r, <<>>)]
                   /\ Resolve(c, f, "abort")
              ELSE /\ cl' = [cl EXCEPT ![c] = SkipTo(r, f)]
                   /\ UNCHANGED resolved
           /\ UNCHANGED applied
        \/ /\ f.stage = "apply"
           /\ f.k > Len(f.starts)
           /\ cl' = [cl EXCEPT ![c] = Return(r, <<>>)]
           /\ Resolve(c, f, "commit")
           /\ UNCHANGED <<store, applied>>
        \/ /\ f.stage = "apply"
           /\ f.k <= Len(f.starts)
           /\ cl' = [cl EXCEPT ![c] = ApplyNext(r, f, s)]
           /\ UNCHANGED <<store, applied, resolved>>
        \/ /\ f.stage = "get"
           /\ \/ se = NoValue
              \/ se.kind # "Start" \/ se.commitCol # f.commitCol \/ se.id # f.uuid
           /\ Panic(c)
        \/ /\ f.stage = "get"
           /\ se # NoValue /\ se.kind = "Start"
           /\ se.commitCol = f.commitCol /\ se.id = f.uuid
           /\ cl' = [cl EXCEPT ![c] = StartPlayed(r, f, s)]
           /\ applied' = [applied EXCEPT ![c] = Upcall(c, f.uuid, s[1])]
           /\ UNCHANGED <<store, resolved>>

-----------------------------------------------------------------------------
(* start_transaction: append_entry a TransactionStart (commit column = the *)
(* smallest column, one uuid) to each column in order, collecting the      *)
(* positions; the open Transaction holds them.                             *)

StartEntry(f) == MkEntry("Start", f.uuid, <<>>, f.cols[1], <<>>)

StartTransaction(c) ==
  LET f == Top(c)  r == cl[c]
      starts == Append(f.starts, r.ret)
      next == f.cols[f.k + 1]
      r2 == SetTop(r, [f EXCEPT !.k = @ + 1, !.starts = starts])
  IN /\ Running(c, "start_transaction")
     /\ cl' = [cl EXCEPT ![c] =
                IF f.k = Len(f.cols)
                THEN Return([r EXCEPT !.txn = <<f.uuid, starts>>], <<>>)
                ELSE Push(r2, AppendFrame(next, StartEntry(f), r.horizon[next]))]
     /\ UNCHANGED <<store, applied, resolved>>

-----------------------------------------------------------------------------
(* The API calls, made by an idle client (no function running, no open    *)
(* Transaction, since it borrows the log mutably).                         *)

Idle(c) == ~cl[c].panicked /\ cl[c].stack = <<>>

CanCall(c, name) ==
  /\ name \in Calls
  /\ name \in {"append", "try_append", "try_multiput", "start_transaction"}
       => c \in Writers
  /\ Idle(c)
  /\ cl[c].txn = <<>>
  /\ cl[c].calls < MaxCalls

\* the id of the data (or the uuid) this call writes
CallId(c) == <<c, cl[c].calls + 1>>

Call(c, frame) ==
  /\ cl' = [cl EXCEPT ![c] = Push([@ EXCEPT !.calls = @ + 1], frame)]
  /\ UNCHANGED <<store, applied, resolved>>

\* the dependencies an append may be given: none, or one position of another
\* column that the client has written (its horizon) or played (its local
\* horizon), so that the position exists
DepLists(c, col) ==
  {<<>>} \cup UNION {{<<<<d, row>>>> : row \in {cl[c].horizon[d], cl[c].local[d]} \ {0}}
                     : d \in Columns \ {col}}

\* append(column, data, deps)
CallAppend(c, col, deps) ==
  /\ CanCall(c, "append")
  /\ Call(c, AppendFrame(col, DataEntry(CallId(c), deps), cl[c].horizon[col]))

\* try_append(column, data, []): one insert at the horizon itself, not one
\* past it; on Ok update_horizon(column, horizon) and Some(position), else
\* None.  A single store call, so one step.
CallTryAppend(c, col) ==
  LET loc == <<col, cl[c].horizon[col]>>
      ins == Insert(loc, DataEntry(CallId(c), <<>>))
  IN /\ CanCall(c, "try_append")
     /\ store' = ins.store
     /\ cl' = [cl EXCEPT ![c].calls = @ + 1,
                         ![c].ret = IF ins.ok THEN loc ELSE <<>>]
     /\ UNCHANGED <<applied, resolved>>

\* try_multiput(0, columns, []): columns sorted; the row is
\* min(1, horizon of each column) + offset + 1
\* Mutant: the row folded with max instead of min over the horizons.
MultiputRowMax(c, cols) ==
  Max({1} \cup {cl[c].horizon[cols[i]] : i \in 1..Len(cols)}) + 1

MultiputRow(c, cols) ==
  Min({1} \cup {cl[c].horizon[cols[i]] : i \in 1..Len(cols)}) + 1

CallTryMultiput(c, cols) ==
  /\ CanCall(c, "try_multiput")
  /\ Call(c, [fn |-> "try_multiput", cols |-> cols, k |-> 1,
              row |-> MultiputRow(c, cols), id |-> CallId(c)])

CallStartTransaction(c, cols) ==
  LET f == [fn |-> "start_transaction", cols |-> cols, k |-> 1,
            starts |-> <<>>, uuid |-> CallId(c)]
  IN /\ CanCall(c, "start_transaction")
     /\ UNCHANGED <<store, applied, resolved>>
     /\ cl' = [cl EXCEPT ![c] = Push(Push([@ EXCEPT !.calls = @ + 1], f),
                 AppendFrame(cols[1], StartEntry(f), @.horizon[cols[1]]))]

\* Transaction::commit: append_entry a Commit to the first start column
Commit(c) ==
  LET t == cl[c].txn  col == t[2][1][1]
  IN /\ Idle(c) /\ t # <<>>
     /\ cl' = [cl EXCEPT ![c] = Push([@ EXCEPT !.txn = <<>>],
                AppendFrame(col, MkEntry("Commit", t[1], <<>>, 0, t[2]),
                            @.horizon[col]))]
     /\ UNCHANGED <<store, applied, resolved>>

\* Drop for Transaction without commit: append_entry an Abort there
Drop(c) ==
  LET t == cl[c].txn  col == t[2][1][1]
  IN /\ Idle(c) /\ t # <<>>
     /\ cl' = [cl EXCEPT ![c] = Push([@ EXCEPT !.txn = <<>>],
                AppendFrame(col, MkEntry("Abort", t[1], <<>>, 0, <<>>),
                            @.horizon[col]))]
     /\ UNCHANGED <<store, applied, resolved>>

CallGetNextUnseen(c, col) ==
  /\ CanCall(c, "get_next_unseen")
  /\ Call(c, GnuFrame(col))

\* play_foward: play_until the client's horizon, None if it is 0
CallPlayFoward(c, col) ==
  /\ CanCall(c, "play_foward")
  /\ cl[c].horizon[col] > 0
  /\ Call(c, PlayUntilFrame(col, cl[c].horizon[col]))

-----------------------------------------------------------------------------

\* the column lists a call may name: sorted, without duplicates
ColumnLists == {SetToSortSeq(S, <) : S \in SUBSET Columns \ {{}}}

Init ==
  /\ store = [p \in Slots |-> NoValue]
  /\ cl = [c \in Clients |->
            [horizon |-> [x \in Columns |-> 0], local |-> [x \in Columns |-> 0],
             stack |-> <<>>, ret |-> <<>>, calls |-> 0, txn |-> <<>>,
             panicked |-> FALSE]]
  /\ applied = [c \in Clients |-> <<>>]
  /\ resolved = [c \in Clients |-> {}]

Next ==
  \E c \in Clients :
    \/ AppendEntry(c) \/ TryMultiput(c) \/ GetNextUnseen(c)
    \/ ReadMultiput(c) \/ PlayTransaction(c) \/ PlayUntil(c)
    \/ StartTransaction(c) \/ Commit(c) \/ Drop(c)
    \/ \E col \in Columns :
         \/ \E deps \in DepLists(c, col) : CallAppend(c, col, deps)
         \/ CallTryAppend(c, col) \/ CallGetNextUnseen(c, col) \/ CallPlayFoward(c, col)
    \/ \E cols \in ColumnLists :
         CallTryMultiput(c, cols) \/ CallStartTransaction(c, cols)

\* Each client is a thread that, once inside a call, keeps running it.
Fairness ==
  \A c \in Clients :
    WF_vars(AppendEntry(c) \/ TryMultiput(c) \/ GetNextUnseen(c)
            \/ ReadMultiput(c) \/ PlayTransaction(c) \/ PlayUntil(c)
            \/ StartTransaction(c))

Spec == Init /\ [][Next]_vars /\ Fairness

\* The bound on recursion depth, a state constraint for TLC.
DepthBound == \A c \in Clients : Len(cl[c].stack) <= MaxDepth

-----------------------------------------------------------------------------
(* Properties                                                              *)

Ids == Clients \X (1..MaxCalls)
Kinds == {"Data", "Multi", "Start", "Commit", "Abort"}

TypeOK ==
  /\ \A p \in Slots : store[p] = NoValue \/ (store[p].kind \in Kinds /\ store[p].id \in Ids)
  /\ \A c \in Clients :
       /\ cl[c].horizon \in [Columns -> 0..MaxRow]
       /\ cl[c].local \in [Columns -> 0..MaxRow]
       /\ cl[c].calls \in 0..MaxCalls
       /\ cl[c].panicked \in BOOLEAN
       /\ \A i \in 1..Len(applied[c]) : applied[c][i] \in Ids \X Upcalls
       /\ resolved[c] \subseteq Ids \X {"commit", "abort"}

\* The Data ids a client upcalled for a column, in upcall order.
PlayedIds(c, col) ==
  LET onCol == SelectSeq(applied[c], LAMBDA a : a[2] = col)
  IN [i \in 1..Len(onCol) |-> onCol[i][1]]

\* append and get_next_unseen: the upcalls a client made for a column are
\* the column's entries from row 1 up to its local horizon, each once and
\* in row order, whatever other clients appended meanwhile.
PlayedInOrder ==
  \A c \in Clients, col \in Upcalls :
    PlayedIds(c, col) = [i \in 1..cl[c].local[col] |-> store[<<col, i>>].id]

\* The row of the entry with this id in a column (ids are unique per column).
RowOf(col, id) ==
  CHOOSE i \in 1..MaxRow : store[<<col, i>>] # NoValue /\ store[<<col, i>>].id = id

\* get_next_unseen, read_multiput, play_transaction: whatever path plays an
\* entry, a client's upcalls for a column come in strictly increasing row
\* order and never beyond its local horizon for that column.
ColumnOrder ==
  \A c \in Clients, col \in Upcalls :
    LET rows == [i \in 1..Len(PlayedIds(c, col)) |-> RowOf(col, PlayedIds(c, col)[i])]
    IN \A i \in 1..Len(rows) :
         /\ rows[i] <= cl[c].local[col]
         /\ i > 1 => rows[i - 1] < rows[i]

\* append_entry, try_multiput and update_horizon: a client's horizon for a
\* column is always a position its own insert won, so play_foward only waits
\* for entries that exist.
HorizonOwned ==
  \A c \in Clients, col \in Columns :
    cl[c].horizon[col] > 0 =>
      LET e == store[<<col, cl[c].horizon[col]>>]
      IN e # NoValue /\ e.id[1] = c

(* append_entry, try_multiput and the servers' first-writer-wins insert:  *)
(* every column is written from row 1 without holes, however the clients'  *)
(* stale horizons interleave.  try_multiput folds its row from 1 over the *)
(* horizons of its columns, so it never writes above a hole; a row placed  *)
(* above one would leave get_next_unseen and play_until waiting on it.    *)
ColumnsGapless ==
  \A col \in Columns, r \in 2..MaxRow :
    store[<<col, r>>] # NoValue => store[<<col, r - 1>>] # NoValue

\* The position of a client's i-th upcall.
UpcallPos(c, i) == <<applied[c][i][2], RowOf(applied[c][i][2], applied[c][i][1])>>

(* get_next_unseen's play_deps: a client never moves past an entry before  *)
(* its dependencies.  Every entry within a client's local horizon has its  *)
(* dependencies within it too, and a dependency in a column with an upcall *)
(* was upcalled before the entry that depends on it, however play_until,    *)
(* get_next_unseen and the dependencies' own dependencies nest.            *)
DepsPlayedFirst ==
  \A c \in Clients :
    /\ \A p \in Pos :
         p[2] <= cl[c].local[p[1]] =>
           \A q \in ToSet(store[p].deps) : q[2] <= cl[c].local[q[1]]
    /\ \A i \in 1..Len(applied[c]) :
         \A q \in ToSet(store[UpcallPos(c, i)].deps) :
           q[1] \in Upcalls => \E j \in 1..(i - 1) : UpcallPos(c, j) = q

\* get_next_unseen, read_multiput, play_transaction: no entry is upcalled
\* twice by the same client.
AppliedOnce ==
  \A c \in Clients : Cardinality(ToSet(applied[c])) = Len(applied[c])

\* Commits in the store: <<uuid, start entries>>.
Committed == {<<store[p].id, store[p].starts>> :
                p \in {q \in Pos : store[q] # NoValue /\ store[q].kind = "Commit"}}

\* play_transaction: when a client is between calls, it has upcalled either
\* every start entry of a committed transaction that has an upcall, or none.
TxnAllOrNothing ==
  \A c \in Clients, t \in Committed :
    Idle(c) =>
      LET want == {<<t[1], s[1]>> : s \in ToSet(t[2])} \cap (Ids \X Upcalls)
          got == ToSet(applied[c]) \cap want
      IN got = {} \/ got = want

\* play_transaction: every client that settles a transaction settles it the
\* same way, committed or aborted.
TxnAgreement ==
  \A c1, c2 \in Clients, u \in Ids :
    ~(<<u, "commit">> \in resolved[c1] /\ <<u, "abort">> \in resolved[c2])

\* read_multiput: its expect("invalid entry") and play_transaction's
\* expect/assert_eq never fail.
NoPanic == \A c \in Clients : ~cl[c].panicked

\* try_multiput and read_multiput: a client between calls has upcalled
\* either every column (with an upcall) of a multiput or none of them.
MultiputAtomic ==
  \A c \in Clients : Idle(c) =>
    \A p \in Pos :
      store[p] # NoValue /\ store[p].kind = "Multi" =>
        LET want == {<<store[p].id, store[p].cols[i]>> : i \in 1..Len(store[p].cols)}
                      \cap (Ids \X Upcalls)
            got == ToSet(applied[c]) \cap want
        IN got = {} \/ got = want

(* The legacy client implements FuzzyColumns: a column is its entries    *)
(* from row 1 up to the first empty row, told apart by kind and id, and a  *)
(* client's played count is its local horizon.  Row 0 (try_append) is not *)
(* part of any column.                                                     *)
FilledRows(x) ==
  CHOOSE k \in 0..MaxRow :
    /\ \A i \in 1..k : store[<<x, i>>] # NoValue
    /\ k < MaxRow => store[<<x, k + 1>>] = NoValue

Abs == INSTANCE FuzzyColumns WITH
  log <- [x \in Columns |->
           [i \in 1..FilledRows(x) |-> <<store[<<x, i>>].kind, store[<<x, i>>].id>>]],
  played <- [c \in Clients |-> cl[c].local],
  Entries <- Kinds \X Ids

(* append_entry, try_multiput, play_transaction's abort and the store's    *)
(* first-writer-wins insert, with get_next_unseen, read_multiput and       *)
(* play_transaction's local_horizon updates: every write extends a column  *)
(* at its end and never changes an entry, and every local_horizon update   *)
(* moves a client one existing entry further, never back and never past an *)
(* entry, however the clients' recursive plays nest and interleave.        *)
FuzzyColumnsSpec == Abs!Spec

\* append_entry's retries, play_until's spin in play_foward and
\* play_transaction's wait for a commit (ended by its timeout and Abort
\* insert) all end: every call a client makes returns, even when the writer
\* of a transaction never commits.
CallsReturn == \A c \in Clients : (cl[c].stack # <<>>) ~> (cl[c].stack = <<>>)

=============================================================================
