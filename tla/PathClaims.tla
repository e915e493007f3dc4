----------------------------- MODULE PathClaims -----------------------------
(***************************************************************************)
(* What README.md and TEST.md say of the recorded frames and of the log    *)
(* files, and the code of WritePath does not do.  Each property is checked *)
(* by a run of its own, which ends in a counterexample.                    *)
(***************************************************************************)
EXTENDS WritePath

\* TEST.md:4: no messages should be lost.  When the main program flushes the
\* buffer between two chunks of an upload and clears it, no frame goes with it.
ClearLosesNothing == [][main = "clear" => Lost' = Lost]_vars

\* README.md:25: max_file_size is the size before a new log file is created.
\* Outside of an upload a frame that finds the log over that size starts a new
\* log, or logging ends.
RotatesAtLimit ==
  [][main = "loop" /\ log_enabled /\ arrived' # arrived /\ Len(log) > MaxSize =>
       logNo' # logNo \/ ~log_enabled']_vars
=============================================================================
