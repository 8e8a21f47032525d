--------------------------- MODULE MCStoreOpening ----------------------------
(* Two processes on one file with one legacy row and one row to be created.  *)
EXTENDS StoreOpening

CONSTANTS p1, p2, old, new

TwoProcesses == {p1, p2}
TwoRows == {old, new}
OneLegacyRow == {old}

=============================================================================
