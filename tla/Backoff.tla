------------------------------- MODULE Backoff -------------------------------
(***************************************************************************)
(* The retry delay handleFailure computes from status.lastActionFailures:  *)
(*                                                                         *)
(*     min(time.Duration(1<<failures)*15*time.Second, 5*time.Minute)       *)
(*                                                                         *)
(* The product is an int64 of nanoseconds.  15 s = 29296875 * 2^9 ns, so   *)
(* before the cut to 64 bits it is 29296875 * 2^(failures + 9); bit b of   *)
(* the product is bit b - failures - 9 of 29296875 (which has 25 bits).    *)
(* Reading the sign bit that way keeps every number below 2^31.            *)
(***************************************************************************)
EXTENDS Naturals

QuarterMinuteOdd == 29296875      \* 15 s in ns, without its factor 2^9
BackoffCap       == 300           \* 5 minutes, in seconds

(***************************************************************************)
(* Bit 63 of the int64 product: the delay is negative when it is set.      *)
(***************************************************************************)
Negative(failures) ==
  /\ failures \in 30 .. 54
  /\ (QuarterMinuteOdd \div 2 ^ (54 - failures)) % 2 = 1

(***************************************************************************)
(* All 64 bits kept are zero once the lowest set bit is shifted out.       *)
(***************************************************************************)
Vanishes(failures) == failures >= 55

(***************************************************************************)
(* The delay in seconds, 0 standing for every result that is not positive: *)
(* controller-runtime schedules a retry only when RequeueAfter > 0.        *)
(* Past 4 failures a positive product always exceeds the cap.              *)
(***************************************************************************)
BackoffSeconds(failures) ==
  IF Negative(failures) \/ Vanishes(failures) THEN 0
  ELSE IF failures <= 4 THEN 15 * 2 ^ failures
  ELSE BackoffCap

Retries(failures) == BackoffSeconds(failures) > 0
=============================================================================
