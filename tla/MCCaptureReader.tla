-------------------------- MODULE MCCaptureReader ---------------------------
(* Model-checking instances of CaptureReader. *)
EXTENDS CaptureReader

(* What was read last does not decide what comes next. *)
ReaderView == state
=============================================================================
