---------------------------- MODULE MCScheduler ----------------------------
(* A small instance of Scheduler: from a Friday over the weekend to the     *)
(* Monday after it, with a month that begins on the Saturday: every cadence *)
(* fires twice, the second time for an instant in the weekend or on Monday. *)
EXTENDS Scheduler

SaturdayMonths == {-30, 1, 32}
=============================================================================
