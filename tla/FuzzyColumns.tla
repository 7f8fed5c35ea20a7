---------------------------- MODULE FuzzyColumns ----------------------------
(***************************************************************************)
(* What the legacy FuzzyLog client (src/prelude.rs) offers its users, with *)
(* the store and the Horizon abstracted away: every column is a sequence   *)
(* of entries that only grows at its end, an entry once in a column never  *)
(* changes, and each client plays every column in order, one entry at a    *)
(* time, never past the entries that exist.  played[c][x] is the client's  *)
(* local_horizon for column x.                                              *)
(***************************************************************************)
EXTENDS Naturals, Sequences

CONSTANTS
  Clients,  \* the client processes
  Columns,  \* the columns (chains)
  Entries   \* what tells entries apart (kind and id)

VARIABLES
  log,      \* [Columns -> Seq(Entries)]
  played    \* [Clients -> [Columns -> Nat]]

vars == <<log, played>>

Init ==
  /\ log = [x \in Columns |-> <<>>]
  /\ played = [c \in Clients |-> [x \in Columns |-> 0]]

\* some client's insert wins the first empty position of column x: the log
\* changes in column x only, by one entry at its end
AppendTo(x) ==
  /\ UNCHANGED played
  /\ \A y \in Columns \ {x} : log'[y] = log[y]
  /\ log'[x] \in {Append(log[x], e) : e \in Entries}

\* a client moves past the next entry of a column
Play(c, x) ==
  /\ played[c][x] < Len(log[x])
  /\ played' = [played EXCEPT ![c][x] = @ + 1]
  /\ UNCHANGED log

Next ==
  \E x \in Columns :
    \/ AppendTo(x)
    \/ \E c \in Clients : Play(c, x)

Spec == Init /\ [][Next]_vars

=============================================================================
