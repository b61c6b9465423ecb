------------------------- MODULE MCProcessedSession -------------------------
(* Values for the constants of ProcessedSession that a .cfg cannot write. *)
EXTENDS ProcessedSession

MCZeroItem == [rec |-> 0, ms |-> 0, pos |-> 0]

=============================================================================
