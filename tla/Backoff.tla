------------------------------- MODULE Backoff -------------------------------
(***************************************************************************)
(* apiBackoff (internal/service/service.go), as far as it is independent   *)
(* of what is being retried: a counter of ticks still to be skipped.       *)
(* shouldSkip decrements a positive counter and onSuccess clears it.       *)
(***************************************************************************)
EXTENDS Naturals

\* The counter after a failure.
OnFailure(n) == IF n <= 0 THEN 1 ELSE IF n < 8 THEN 2 * n ELSE n
=============================================================================
