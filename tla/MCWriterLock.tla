---------------------------- MODULE MCWriterLock ----------------------------
(* Three processes, nesting to three levels: the API's writer, a manual    *)
(* phase 2 inside it, and two outsiders (an overlapping deploy, the CLI).  *)
EXTENDS WriterLock

=============================================================================
