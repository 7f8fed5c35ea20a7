------------------------------ MODULE CausalLog ------------------------------
(***************************************************************************)
(* What the fuzzy log promises a reader, without the coordinator's         *)
(* machinery (spec sections 1 to 3).  The log is a set of chains; an entry *)
(* is appended at the end of one chain and names the entries of other      *)
(* chains it depends on, which must already be in the log.  Entries never  *)
(* change once written.  A reader receives entries one after the other;   *)
(* it may receive an entry only after its chain predecessor and its       *)
(* dependencies, and never twice.  Several entries may become deliverable *)
(* by one event, so one step delivers a batch, in an order where each     *)
(* entry is deliverable after the ones before it.  A multiappend puts one *)
(* entry on each of several chains at once; the reader receives all of    *)
(* them together, one after the other, or none of them (spec section 8).  *)
(***************************************************************************)
EXTENDS Naturals, Sequences, SequencesExt, FiniteSets

CONSTANTS
  Chains,   \* chain ids
  MaxIdx    \* bound: entries per chain

VARIABLES
  log,       \* [Chains -> Seq(Seq(Pos))]: the dependencies of each entry
  multis,    \* the positions of each multiappend, in chain order
  delivered  \* Seq(Pos): the entries the reader received, in order

vars == <<log, multis, delivered>>

Pos == Chains \X (1..MaxIdx)

InLog(p) == p[2] <= Len(log[p[1]])

Written == {p \in Pos : InLog(p)}

\* The entry p may follow the delivered sequence d.
Ready(d, p) ==
  /\ InLog(p)
  /\ p \notin ToSet(d)
  /\ p[2] = 1 \/ <<p[1], p[2] - 1>> \in ToSet(d)
  /\ ToSet(log[p[1]][p[2]]) \subseteq ToSet(d)

\* Each entry of the batch b may follow d and the entries of b before it.
RECURSIVE ReadyBatch(_, _)
ReadyBatch(d, b) ==
  b = <<>> \/ (Ready(d, Head(b)) /\ ReadyBatch(Append(d, Head(b)), Tail(b)))

\* Dependencies of a new entry of chain c: written entries of other chains,
\* at most one per chain.
ValidDeps(c, deps) ==
  /\ \A k \in DOMAIN deps : deps[k][1] # c /\ InLog(deps[k])
  /\ \A j, k \in DOMAIN deps : j # k => deps[j][1] # deps[k][1]

AppendEntry(c, deps) ==
  /\ Len(log[c]) < MaxIdx
  /\ ValidDeps(c, deps)
  /\ log' = [log EXCEPT ![c] = Append(@, deps)]
  /\ UNCHANGED <<multis, delivered>>

\* A multiappend on the chains cs, all of its entries with the same
\* dependencies, on chains outside cs.
AppendMulti(cs, deps) ==
  /\ \A c \in cs : Len(log[c]) < MaxIdx
  /\ \A c \in cs : ValidDeps(c, deps)
  /\ log' = [c \in Chains |-> IF c \in cs THEN Append(log[c], deps) ELSE log[c]]
  /\ multis' = multis \cup
                {SetToSortSeq({<<c, Len(log[c]) + 1>> : c \in cs},
                              LAMBDA x, y : x[1] < y[1])}
  /\ UNCHANGED delivered

\* The entries of a multiappend in b are all of its entries, one after the
\* other.
Whole(b) ==
  \A m \in multis, k \in DOMAIN b :
    b[k] \in ToSet(m) =>
      \E j \in 1..k : /\ j + Len(m) - 1 <= Len(b)
                     /\ ToSet(SubSeq(b, j, j + Len(m) - 1)) = ToSet(m)

Deliver(b) ==
  /\ b # <<>>
  /\ delivered' = delivered \o b
  /\ ReadyBatch(delivered, b)
  /\ Whole(b)
  /\ UNCHANGED <<log, multis>>

Init ==
  /\ log = [c \in Chains |-> <<>>]
  /\ multis = {}
  /\ delivered = <<>>

Next ==
  \/ \E c \in Chains :
       \E deps \in BoundedSeq(Written, Cardinality(Chains) - 1) :
         AppendEntry(c, deps)
  \/ \E cs \in SUBSET Chains :
       /\ Cardinality(cs) >= 2
       /\ \E deps \in BoundedSeq(Written, Cardinality(Chains) - 2) :
            AppendMulti(cs, deps)
  \/ \E b \in BoundedSeq(Written \ ToSet(delivered), Cardinality(Written)) :
       Deliver(b)

Spec == Init /\ [][Next]_vars

=============================================================================
