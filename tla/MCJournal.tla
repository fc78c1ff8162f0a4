----------------------------- MODULE MCJournal -----------------------------
(* Instances of Journal for TLC: the values of its constants. *)
EXTENDS JournalEffects, TLC

CONSTANTS r1, r2, e1, e2, w1, w2, v1, v2

AllEvents == RunEvents
OneRun == {r1}
TwoRuns == {r1, r2}
OneEffect == {e1}
TwoEffects == {e1, e2}
TwoWorkers == {w1, w2}
OneWorker == {w1}
TwoReferences == {v1, v2}
OneReference == {v1}
FirstEvents == {"DISCOVER", "DRAFT_REQUIREMENTS", "INVALIDATE_DEPENDENCY"}
=============================================================================
