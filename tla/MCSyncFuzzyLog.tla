--------------------------- MODULE MCSyncFuzzyLog ---------------------------
(* Constants for checking the legacy synchronous client with TLC.          *)
EXTENDS SyncFuzzyLog, TLC

CONSTANTS c1, c2, c3

MCClients == {c1, c2}
MCClients3 == {c1, c2, c3}
MCColumns == {1, 2}
MCOneColumn == {1}
MCMaxDepth == 4
MCAppendCalls == {"append", "try_append", "get_next_unseen", "play_foward"}
MCTxnCalls == {"start_transaction", "get_next_unseen"}
MCMultiputCalls == {"try_multiput", "append", "get_next_unseen"}

MCWriter == {c1}
MCSymmetry == Permutations(MCClients)
=============================================================================
