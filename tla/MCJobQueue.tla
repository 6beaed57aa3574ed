----------------------------- MODULE MCJobQueue -----------------------------
(* Three jobs over two keys, with a body and without, two fetch workers and *)
(* the writer, two attempts per phase, a ring of one finished row.         *)
EXTENDS JobQueue

=============================================================================
