---------------------------- MODULE MCGuestTask ----------------------------
(* Instances of GuestTask for TLC. *)
EXTENDS GuestTask

CONSTANTS t1, t2

TwoTasks == {t1, t2}
OneTask == {t1}
=============================================================================
