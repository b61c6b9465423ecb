-------------------------- MODULE MCDataProcessor --------------------------
(* Values for the constants of DataProcessor that a .cfg cannot write. *)
EXTENDS DataProcessor

\* The first recording starts just before the milliseconds wrap.
MCStarts == <<3, 9>>

=============================================================================
