----------------------------- MODULE MCMigration -----------------------------
(* Instances of Migration for TLC: the values of its constants. *)
EXTENDS Migration, TLC

CONSTANTS r1, e1, w1, v1, o1, o2

OneRun == {r1}
OneEffect == {e1}
OneWorker == {w1}
OneReference == {v1}
TwoOpeners == {o1, o2}
=============================================================================
