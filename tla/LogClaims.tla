----------------------------- MODULE LogClaims -----------------------------
(***************************************************************************)
(* What the comments of can_log.cpp say about the numbering                *)
(* of the logs and the code of LogStore does not do.  Each property is     *)
(* checked by a run of its own, which ends in a counterexample.            *)
(***************************************************************************)
EXTENDS LogStore

\* can_log.cpp:169: the first log file is missing only when the SD card was
\* cleared; once a log was started, the numbering is reset on an empty card.
ResetOnlyOnClearedCard ==
  pc = "pick" /\ ~Shortcut /\ ~FirstOnCard /\ first # 0 => DOMAIN card = {}

\* can_log.cpp:252-256: check_sd_free_space() deletes the oldest files until
\* there is enough space and returns True, or returns False.
FreeSpaceCheckReturns == pc = "space" ~> pc # "space"
=============================================================================
