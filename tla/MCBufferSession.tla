-------------------------- MODULE MCBufferSession --------------------------
(* Values for the constants of BufferSession that a .cfg cannot write. *)
EXTENDS BufferSession

MCZeroByte == [rec |-> NoRecording, pos |-> 0]

=============================================================================
