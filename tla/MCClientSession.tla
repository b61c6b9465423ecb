-------------------------- MODULE MCClientSession --------------------------
(* Values for the constants of ClientSession that a .cfg cannot write. *)
EXTENDS ClientSession

MCZeroByte == [rec |-> NoRecording, pos |-> 0]
MCRecordings == {Unknown, 1, 2}

=============================================================================
