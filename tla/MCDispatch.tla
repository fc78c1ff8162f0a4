----------------------------- MODULE MCDispatch -----------------------------
(* Instances of Dispatch for TLC: the values of its constants. *)
EXTENDS Dispatch, TLC

CONSTANTS r1, e1, w1, w2, d1, d2

OneRun == {r1}
OneEffect == {e1}
TwoWorkers == {w1, w2}
TwoThreads == {d1, d2}
OwnIds == {f \in [TwoThreads -> TwoWorkers] : f[d1] # f[d2]}
SharedId == {f \in [TwoThreads -> TwoWorkers] : f[d1] = f[d2]}

\* Sandboxed workers under ids of their own; under one id, as a retry and the
\* call it retries present it; local workers, whose process has the side effect
\* itself; and commands, with a wall clock that may be set back.
OwnWorker == [kind : {"worker"}, worker : OwnIds, stepBack : {0}]
SharedWorker == [kind : {"worker"}, worker : SharedId, stepBack : {0}]
OwnLocal == [kind : {"local"}, worker : OwnIds, stepBack : {0}]
OwnCommand == [kind : {"command"}, worker : OwnIds, stepBack : {1}]
AllCases == OwnWorker \cup SharedWorker \cup OwnLocal \cup OwnCommand
\* For the runs that look for a violation: no step back is needed.
SteadyCommand == [kind : {"command"}, worker : OwnIds, stepBack : {0}]
SharedCommand == [kind : {"command"}, worker : SharedId, stepBack : {0}]

\* The time and the fences each case is given.
Horizon ==
  /\ clock <= IF deployment \in OwnWorker \cup OwnLocal THEN 4 ELSE 3
  /\ deployment \in SharedWorker => \A e \in Effects : leases[e].fence <= 2

\* The threads are interchangeable, and so are the ids.
Interchangeable == Permutations(TwoThreads) \cup Permutations(TwoWorkers)
=============================================================================
