--------------------------- MODULE JournalEffects ---------------------------
(***************************************************************************)
(* The journal implements the effect lifecycle: the refinement mapping     *)
(* reads the abstract phase off the effects row and the absences off the   *)
(* reconciliation audit; leases, clocks and runs disappear.                *)
(***************************************************************************)
EXTENDS Journal

Phase(state) ==
  CASE state = "absent"    -> "unplanned"
    [] state = "intent"    -> "planned"
    [] state = "completed" -> "done"
    [] OTHER               -> "open"

AbsenceFences(e) ==
  {p.fence : p \in {q \in reconciliations :
                      q.effect = e /\ q.outcome = "observed_absent"}}

Lifecycles == INSTANCE EffectLifecycle
                WITH phase    <- [e \in Effects |-> Phase(effects[e].state)],
                     evidence <- [e \in Effects |-> effects[e].evidence],
                     attempts <- started,
                     absences <- [e \in Effects |-> AbsenceFences(e)],
                     Fences   <- Fences

\* Every behaviour of the journal is one the effect lifecycle allows: no
\* second attempt while the first is unresolved, nothing after completion
\* (begin_dispatch, record_effect, adopt_prepared, record_reconciliation).
ImplementsEffectLifecycle == Lifecycles!Spec
=============================================================================
