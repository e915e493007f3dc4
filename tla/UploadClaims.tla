---------------------------- MODULE UploadClaims ----------------------------
(***************************************************************************)
(* What a comment of can_log.cpp says about the logs that are uploaded,    *)
(* and the code of Uploader does not do.  The property is checked by a run *)
(* of its own, which ends in a counterexample.                             *)
(***************************************************************************)
EXTENDS Uploader

\* can_log.cpp:82: the last log to upload is the one before this log.  The log
\* being written is never sent.
OpenLogNotSent ==
  upc \in {"send", "answer", "remove"} /\ pc = "logging" => upName # name
=============================================================================
