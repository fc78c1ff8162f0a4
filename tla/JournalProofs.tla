---------------------------- MODULE JournalProofs ----------------------------
(***************************************************************************)
(* Machine-checked theorems about Journal, for every set of runs, effects, *)
(* workers and evidence and every value of the budgets and bounds: its     *)
(* types and attempts, what no step may do to an effect, what its rows say *)
(* of each other, and the effect lifecycle it implements.                  *)
(***************************************************************************)
EXTENDS JournalEffects, TLAPS

\* Every edge of the lifecycle joins two run states by a run event.
LEMMA EdgesTyped ==
  ASSUME NEW state \in RunStates, NEW event \in RunEvents, NEW context
  PROVE  NextStates(state, event, context) \subseteq RunStates
<1>1. \A i \in 1 .. 15 : Stages[i + 1] \in RunStates
  BY DEF RunStates
<1>2. \A edge \in ForwardTransitions : edge.to \in RunStates
  BY <1>1 DEF ForwardTransitions, Edge
<1>3. \A edge \in RecoveryTransitions : edge.to \in RunStates
  BY DEF RecoveryTransitions, Edge, RunStates, RecoveryStates
<1> QED
  BY <1>2, <1>3 DEF NextStates, Transitions

\* The two row updates the authority operations share.
LEMMA SetEffectTyped ==
  ASSUME TypeOK, NEW e \in Effects, NEW state \in EffectStates,
         NEW evidence \in Evidence \cup {NoEvidence}, SetEffect(e, state, evidence)
  PROVE  effects' \in [Effects -> EffectRows]
<1>1. [run |-> effects[e].run, state |-> state, evidence |-> evidence] \in EffectRows
  BY DEF TypeOK, EffectRows
<1> QED
  BY <1>1 DEF SetEffect, TypeOK

\* Extending a lease keeps the leases table typed.
LEMMA ExtendTyped ==
  ASSUME TypeOK, NEW e \in Effects, NEW budget \in Nat, Extend(e, budget)
  PROVE  leases' \in [Effects -> LeaseRows]
<1>1. [worker |-> leases[e].worker, fence |-> leases[e].fence, expires |-> clock + budget]
        \in LeaseRows
  BY DEF TypeOK, LeaseRows
<1> QED
  BY <1>1 DEF Extend, TypeOK

\* Every operation keeps every table typed.
LEMMA TypeStep == TypeOK /\ [Next]_vars => TypeOK'
<1> SUFFICES ASSUME TypeOK, [Next]_vars PROVE TypeOK'
  OBVIOUS
<1> USE JournalConstants DEF Fences
<1>0. \A fence \in Fences : fence \in 0 .. MaxFence
  OBVIOUS
<1>1. CASE Tick
  BY <1>1 DEF Tick, TypeOK
<1>2. CASE StepBack
  BY <1>2 DEF StepBack, TypeOK
<1>3. CASE Refused
  BY <1>3 DEF Refused, Observe, TypeOK
<1>4. ASSUME NEW r \in Runs, NEW expected \in 0 .. MaxRevision,
             NEW event \in OfferedEvents, NEW planned \in Effects \cup {NoEffect},
             NEW context \in SUBSET RequiredRecords(event),
             Transition(r, expected, event, context, planned)
      PROVE  TypeOK'
  <2>1. PICK next \in NextStates(runs[r].state, event, context) :
          /\ runs' = [runs EXCEPT ![r] = [state |-> next, revision |-> expected + 1]]
          /\ AppendEvent(r, event, context, next)
    BY <1>4 DEF Transition
  <2>2. next \in RunStates /\ event \in RunEvents /\ context \in SUBSET RecordKinds
    BY <2>1, EdgesTyped DEF TypeOK, RunRows, RequiredRecords
  <2>3. expected + 1 \in 1 .. MaxRevision /\ runs[r].revision = expected
    BY <1>4 DEF Transition
  <2>4. runs' \in [Runs -> RunRows]
    BY <2>1, <2>2, <2>3 DEF TypeOK, RunRows
  <2>5. log' \in [Runs -> Seq(EventRows)]
    <3> DEFINE row == [revision |-> runs[r].revision + 1, event |-> event,
                       state |-> next, context |-> context]
    <3>1. row \in EventRows
      BY <2>2, <2>3 DEF EventRows
    <3>2. Append(log[r], row) \in Seq(EventRows)
      BY <3>1 DEF TypeOK
    <3> HIDE DEF row
    <3>3. log' = [log EXCEPT ![r] = Append(log[r], row)]
      BY <2>1 DEF AppendEvent, row
    <3> QED
      BY <3>2, <3>3 DEF TypeOK
  <2>6. effects' \in [Effects -> EffectRows]
    <3>1. CASE planned = NoEffect
      BY <1>4, <3>1 DEF Transition, TypeOK
    <3>2. CASE planned \in Effects
      <4>1. [run |-> r, state |-> "intent", evidence |-> NoEvidence] \in EffectRows
        BY DEF EffectRows, EffectStates
      <4> QED
        BY <1>4, <3>2, <4>1 DEF Transition, PlanEffect, TypeOK
    <3> QED
      BY <3>1, <3>2
  <2> QED
    BY <2>4, <2>5, <2>6, <1>4 DEF Transition, TypeOK
<1>5. ASSUME NEW e \in Effects, NEW w \in Workers, NEW ttl \in LeaseTTLs,
             AcquireAttempt(e, w, ttl)
      PROVE  TypeOK'
  <2>1. CASE UNCHANGED leases
    BY <1>5, <2>1 DEF AcquireAttempt, Observe, TypeOK
  <2>2. CASE leases[e].fence < MaxFence
    <3>1. [worker |-> w, fence |-> leases[e].fence + 1, expires |-> clock + ttl]
            \in LeaseRows
      BY <2>2 DEF TypeOK, LeaseRows
    <3> QED
      BY <1>5, <3>1 DEF AcquireAttempt, Observe, TypeOK
  <2> QED
    BY <1>5, <2>1, <2>2 DEF AcquireAttempt
<1>6. ASSUME NEW e \in Effects, NEW w \in Workers, NEW fence \in Fences,
             NEW expected, NEW admission, NEW budget \in ExecutionBudgets,
             BeginDispatch(e, w, fence, expected, admission, budget)
      PROVE  TypeOK'
  <2>1. effects' \in [Effects -> EffectRows]
    BY <1>6, SetEffectTyped DEF BeginDispatch, EffectStates
  <2>2. leases' \in [Effects -> LeaseRows]
    BY <1>6, ExtendTyped DEF BeginDispatch
  <2> QED
    BY <1>0, <1>6, <2>1, <2>2 DEF BeginDispatch, Observe, NoteStart, TypeOK
<1>7. ASSUME NEW e \in Effects, NEW w \in Workers, NEW fence \in Fences,
             NEW expected, NEW admission, NEW evidence, NEW budget \in CommitBudgets,
             BeginPreparedCommit(e, w, fence, expected, admission, evidence, budget)
      PROVE  TypeOK'
  <2>1. leases' \in [Effects -> LeaseRows]
    BY <1>7, ExtendTyped DEF BeginPreparedCommit
  <2> QED
    BY <1>7, <2>1 DEF BeginPreparedCommit, Observe, TypeOK
<1>8. ASSUME NEW e \in Effects, NEW fence \in Fences, NEW target \in EffectStates,
             NEW evidence \in Evidence \cup {NoEvidence}, NEW margin,
             RecordEffect(e, fence, target, evidence, margin)
      PROVE  TypeOK'
  <2>1. effects' \in [Effects -> EffectRows]
    BY <1>8, SetEffectTyped DEF RecordEffect, TypeOK
  <2>2. started' \in [Effects -> SUBSET (0 .. MaxFence)]
    BY <1>0, <1>8 DEF RecordEffect, NoteStart, TypeOK
  <2> QED
    BY <1>8, <2>1, <2>2 DEF RecordEffect, Observe, TypeOK
<1>9. ASSUME NEW e \in Effects, NEW fence \in Fences, NEW prior \in Evidence,
             NEW adopted \in Evidence, AdoptPrepared(e, fence, prior, adopted)
      PROVE  TypeOK'
  <2>1. effects' \in [Effects -> EffectRows]
    BY <1>9, SetEffectTyped DEF AdoptPrepared, TypeOK, EffectStates
  <2> QED
    BY <1>9, <2>1 DEF AdoptPrepared, Observe, TypeOK
<1>10. ASSUME NEW e \in Effects, NEW fence \in Fences, NEW outcome \in Outcomes,
              NEW evidence \in Evidence,
              RecordReconciliation(e, fence, outcome, evidence)
       PROVE  TypeOK'
  <2>1. reconciliations' \subseteq AuditRows
    BY <1>10 DEF RecordReconciliation, TypeOK, AuditRows
  <2>2. effects' \in [Effects -> EffectRows]
    BY <1>10, SetEffectTyped DEF RecordReconciliation, ApplyOutcome, TypeOK, EffectStates
  <2>3. leases' \in [Effects -> LeaseRows]
    BY <1>10, ExtendTyped DEF RecordReconciliation, ApplyOutcome, TypeOK
  <2> QED
    BY <2>1, <2>2, <2>3, <1>10 DEF RecordReconciliation, Observe, TypeOK
<1>11. CASE UNCHANGED vars
  BY <1>11 DEF vars, TypeOK
<1> QED
  BY <1>1, <1>2, <1>3, <1>4, <1>5, <1>6, <1>7, <1>8, <1>9, <1>10, <1>11
     DEF Next, Lifecycle, Authority

\* An empty journal is typed.
LEMMA EmptyTyped == Init => TypeOK
  BY JournalConstants
     DEF Init, TypeOK, RunRows, EventRows, EffectRows, LeaseRows, NoEffectRow, NoLease,
         RunStates, Stages, Fences

\* Every table of the journal always holds rows of its schema.
THEOREM TypeCorrect == Spec => []TypeOK
<1> QED
  BY EmptyTyped, TypeStep, PTL DEF Spec

-----------------------------------------------------------------------------
(***************************************************************************)
(* No silent duplicate side effect.  Every operation is first reduced to   *)
(* what it does to the attempts of one effect e (the shapes below); that   *)
(* AttemptInv survives a step then follows from the shapes alone.          *)
(***************************************************************************)

\* Leases only move forward: fences never fall, and a lease observed expired
\* stays expired for its fence.
LeaseMoves(e) ==
  /\ observed' >= observed
  /\ leases'[e].fence >= leases[e].fence
  /\ leases'[e].fence = leases[e].fence /\ leases[e].expires <= observed
       => leases'[e].expires <= observed'

\* Audit rows are only added, and under the fence the effect then has.
AuditMoves ==
  /\ reconciliations \subseteq reconciliations'
  /\ \A p \in reconciliations' \ reconciliations : p.fence = leases[p.effect].fence

InProgress == {"started", "prepared", "reconciled"}

Keeps(e) == started'[e] = started[e] /\ effects'[e].state = effects[e].state
Plans(e) == /\ started'[e] = started[e]
            /\ effects[e].state = "absent" /\ effects'[e].state = "intent"
Starts(e) == /\ started'[e] = started[e] \cup {leases[e].fence}
             /\ leases'[e].fence = leases[e].fence
             /\ leases[e].expires > observed'
             /\ effects[e].state = "intent" /\ effects'[e].state = "started"
Resolves(e) == /\ started'[e] = started[e]
               /\ effects[e].state \in InProgress
               /\ effects'[e].state \in InProgress \cup {"completed"}
Reopens(e) ==
  /\ started'[e] = started[e]
  /\ effects[e].state \in InProgress /\ effects'[e].state = "intent"
  /\ leases'[e].fence = leases[e].fence /\ leases'[e].expires <= observed'
  /\ \E p \in reconciliations' : /\ p.effect = e
                                 /\ p.outcome = "observed_absent"
                                 /\ p.fence = leases[e].fence

Shape(e) == Keeps(e) \/ Plans(e) \/ Starts(e) \/ Resolves(e) \/ Reopens(e)

StepShape == AuditMoves /\ \A e \in Effects : LeaseMoves(e) /\ Shape(e)

\* Every step of the journal has one of the shapes.
LEMMA StepsHaveShape == TypeOK /\ [Next]_vars => StepShape
<1> SUFFICES ASSUME TypeOK, [Next]_vars PROVE StepShape
  OBVIOUS
<1> USE DEF StepShape, AuditMoves, LeaseMoves, Shape, InProgress
<1>1. CASE UNCHANGED vars \/ Tick \/ StepBack \/ Refused
  BY <1>1 DEF vars, Tick, StepBack, Refused, Observe, Keeps, TypeOK, LeaseRows
<1>2. ASSUME NEW r \in Runs, NEW expected \in 0 .. MaxRevision,
             NEW event \in OfferedEvents, NEW planned \in Effects \cup {NoEffect},
             NEW context \in SUBSET RequiredRecords(event),
             Transition(r, expected, event, context, planned)
      PROVE  StepShape
  <2>1. UNCHANGED <<observed, leases, reconciliations, started>>
    BY <1>2 DEF Transition
  <2>2. ASSUME NEW e \in Effects PROVE Keeps(e) \/ Plans(e)
    <3>1. CASE planned = NoEffect \/ planned # e
      BY <1>2, <2>1, <3>1, JournalConstants DEF Transition, PlanEffect, Keeps, TypeOK
    <3>2. CASE planned = e
      BY <1>2, <2>1, <3>2, JournalConstants DEF Transition, PlanEffect, Plans, TypeOK
    <3> QED
      BY <3>1, <3>2
  <2> QED
    BY <2>1, <2>2 DEF TypeOK, LeaseRows
<1>3. ASSUME NEW e \in Effects, NEW w \in Workers, NEW ttl \in LeaseTTLs,
             AcquireAttempt(e, w, ttl)
      PROVE  StepShape
  <2>1. /\ UNCHANGED <<effects, started, reconciliations>>
        /\ observed' = clock /\ clock >= observed
    BY <1>3 DEF AcquireAttempt, Observe
  <2>2. CASE UNCHANGED leases
    BY <2>1, <2>2 DEF Keeps, TypeOK, LeaseRows
  <2>3. CASE leases' = [leases EXCEPT ![e] = [worker  |-> w,
                                              fence   |-> @.fence + 1,
                                              expires |-> clock + ttl]]
    <3>1. leases'[e].fence = leases[e].fence + 1
      BY <2>3 DEF TypeOK
    <3>2. \A x \in Effects \ {e} : leases'[x] = leases[x]
      BY <2>3 DEF TypeOK
    <3> QED
      BY <2>1, <3>1, <3>2 DEF Keeps, TypeOK, LeaseRows
  <2> QED
    BY <1>3, <2>2, <2>3 DEF AcquireAttempt
<1>4. ASSUME NEW e \in Effects, NEW w \in Workers, NEW fence \in Fences,
             NEW expected, NEW admission, NEW budget \in ExecutionBudgets,
             BeginDispatch(e, w, fence, expected, admission, budget)
      PROVE  StepShape
  <2>1. \A x \in Effects \ {e} : Keeps(x) /\ leases'[x] = leases[x]
    BY <1>4 DEF BeginDispatch, SetEffect, NoteStart, Extend, Keeps, TypeOK
  <2>2. Starts(e) /\ LeaseMoves(e)
    BY <1>4 DEF BeginDispatch, Observe, HoldsReservation, HoldsFence, SetEffect, NoteStart,
                Extend, Starts, TypeOK, LeaseRows
  <2> QED
    BY <1>4, <2>1, <2>2 DEF BeginDispatch, Observe, TypeOK, LeaseRows
<1>5. ASSUME NEW e \in Effects, NEW w \in Workers, NEW fence \in Fences,
             NEW expected, NEW admission, NEW evidence, NEW budget \in CommitBudgets,
             BeginPreparedCommit(e, w, fence, expected, admission, evidence, budget)
      PROVE  StepShape
  BY <1>5 DEF BeginPreparedCommit, Observe, HoldsReservation, HoldsFence, Extend, Keeps,
              TypeOK, LeaseRows
<1>6. ASSUME NEW e \in Effects, NEW fence \in Fences, NEW target \in EffectStates,
             NEW evidence \in Evidence \cup {NoEvidence}, NEW margin \in MinimumTTLs,
             RecordEffect(e, fence, target, evidence, margin)
      PROVE  StepShape
  <2>1. UNCHANGED <<leases, reconciliations>> /\ observed' \in Nat /\ observed' >= observed
    BY <1>6 DEF RecordEffect, Observe, TypeOK
  <2>2. \A x \in Effects \ {e} : Keeps(x)
    BY <1>6 DEF RecordEffect, SetEffect, NoteStart, Keeps, TypeOK
  <2>3. CASE UNCHANGED <<effects, started>>
    BY <2>1, <2>2, <2>3 DEF Keeps, TypeOK, LeaseRows
  <2>4. CASE /\ HoldsFence(e, fence, margin) /\ SetEffect(e, target, evidence)
             /\ <<effects[e].state, target>> = <<"intent", "started">>
             /\ NoteStart(e, fence)
    <3>1. observed' = clock /\ margin \in Nat
      BY <1>6, JournalConstants DEF RecordEffect, Observe
    <3>2. Starts(e)
      BY <2>1, <2>4, <3>1 DEF HoldsFence, SetEffect, NoteStart, Starts, TypeOK, LeaseRows
    <3> QED
      BY <2>1, <2>2, <3>2 DEF TypeOK, LeaseRows
  <2>5. CASE /\ SetEffect(e, target, evidence)
             /\ <<effects[e].state, target>> \in RecordableSteps \ {<<"intent", "started">>}
             /\ UNCHANGED started
    <3>1. Resolves(e)
      BY <2>5 DEF SetEffect, RecordableSteps, Resolves, TypeOK
    <3> QED
      BY <2>1, <2>2, <3>1 DEF TypeOK, LeaseRows
  <2> QED
    BY <1>6, <2>3, <2>4, <2>5 DEF RecordEffect, RecordableSteps
<1>7. ASSUME NEW e \in Effects, NEW fence \in Fences, NEW prior \in Evidence,
             NEW adopted \in Evidence, AdoptPrepared(e, fence, prior, adopted)
      PROVE  StepShape
  <2>1. /\ UNCHANGED <<leases, started, reconciliations>>
        /\ observed' = clock /\ clock >= observed
    BY <1>7 DEF AdoptPrepared, Observe
  <2>2. \A x \in Effects : effects'[x].state = effects[x].state
    BY <1>7 DEF AdoptPrepared, SetEffect, TypeOK
  <2> QED
    BY <2>1, <2>2 DEF Keeps, TypeOK, LeaseRows
<1>8. ASSUME NEW e \in Effects, NEW fence \in Fences, NEW outcome \in Outcomes,
             NEW evidence \in Evidence,
             RecordReconciliation(e, fence, outcome, evidence)
      PROVE  StepShape
  <2>1. UNCHANGED started /\ observed' = clock /\ clock >= observed
    BY <1>8 DEF RecordReconciliation, Observe
  <2>2. CASE UNCHANGED <<effects, leases, reconciliations>>
    BY <2>1, <2>2 DEF Keeps, TypeOK, LeaseRows
  <2> DEFINE row == [effect |-> e, fence |-> fence, outcome |-> outcome,
                     evidence |-> evidence]
  <2>3. CASE /\ effects[e].state \in InProgress /\ HoldsFence(e, fence, 0)
             /\ reconciliations' = reconciliations \cup {row}
             /\ ApplyOutcome(e, outcome, evidence)
    <3>1. AuditMoves
      BY <2>3 DEF HoldsFence
    <3>2. \A x \in Effects \ {e} : Keeps(x) /\ leases'[x] = leases[x]
      BY <2>1, <2>3 DEF ApplyOutcome, SetEffect, Extend, Keeps, TypeOK
    <3>3. CASE outcome = "observed_completed" \/ outcome = "unknown"
      <4>1. Resolves(e) /\ UNCHANGED leases
        BY <2>1, <2>3, <3>3 DEF ApplyOutcome, SetEffect, Resolves, TypeOK
      <4> QED
        BY <2>1, <3>1, <3>2, <4>1 DEF TypeOK, LeaseRows
    <3>4. CASE outcome = "observed_absent"
      <4>1. leases'[e].fence = leases[e].fence /\ leases'[e].expires = clock
        BY <2>3, <3>4 DEF ApplyOutcome, Extend, TypeOK, LeaseRows
      <4>2. \E p \in reconciliations' : /\ p.effect = e
                                        /\ p.outcome = "observed_absent"
                                        /\ p.fence = leases[e].fence
        <5>1. /\ row \in reconciliations' /\ row.effect = e
              /\ row.outcome = "observed_absent" /\ row.fence = leases[e].fence
          BY <2>3, <3>4 DEF HoldsFence
        <5> QED
          BY <5>1
      <4>3. Reopens(e) \/ Keeps(e)
        BY <2>1, <2>3, <3>4, <4>1, <4>2 DEF ApplyOutcome, SetEffect, Reopens, Keeps, TypeOK
      <4> QED
        BY <2>1, <3>1, <3>2, <4>1, <4>3 DEF TypeOK, LeaseRows
    <3> QED
      BY <3>3, <3>4 DEF Outcomes
  <2> QED
    BY <1>8, <2>2, <2>3 DEF RecordReconciliation
<1> QED
  BY <1>1, <1>2, <1>3, <1>4, <1>5, <1>6, <1>7, <1>8 DEF Next, Lifecycle, Authority

\* A step of any shape preserves the history of attempts.
LEMMA ShapesKeepAttempts ==
  ASSUME TypeOK, TypeOK', AttemptInv, StepShape
  PROVE  AttemptInv'
<1> USE DEF StepShape
<1>a. \A e \in Effects : /\ started[e] \subseteq Nat /\ started'[e] \subseteq Nat
                         /\ leases[e].fence \in Nat /\ leases'[e].fence \in Nat
                         /\ leases[e].expires \in Nat /\ leases'[e].expires \in Nat
  BY JournalConstants DEF TypeOK, LeaseRows, Fences
<1>b. /\ observed \in Nat /\ observed' \in Nat
      /\ \A p \in reconciliations' : p.fence \in Nat /\ p.effect \in Effects
  BY JournalConstants DEF TypeOK, AuditRows, Fences
<1>1. FencesInOrder'
  <2> SUFFICES ASSUME NEW e \in Effects
               PROVE  /\ \A f \in started'[e] : f <= leases'[e].fence
                      /\ \A p \in reconciliations' :
                           p.effect = e => p.fence <= leases'[e].fence
    BY DEF FencesInOrder
  <2>1. leases'[e].fence >= leases[e].fence
    BY DEF LeaseMoves
  <2>2. \A f \in started'[e] : f \in started[e] \/ f = leases[e].fence
    BY DEF Shape, Keeps, Plans, Starts, Resolves, Reopens
  <2>3. \A p \in reconciliations' : p \in reconciliations \/ p.fence = leases[p.effect].fence
    BY DEF AuditMoves
  <2> QED
    BY <1>a, <1>b, <2>1, <2>2, <2>3 DEF AttemptInv, FencesInOrder
<1>2. StartedIffResolving'
  BY DEF AttemptInv, StartedIffResolving, Shape, Keeps, Plans, Starts, Resolves, Reopens,
         InProgress
<1>3. PlannedIsCleared'
  <2> SUFFICES ASSUME NEW e \in Effects, effects'[e].state = "intent",
                      NEW f \in started'[e]
               PROVE  \E p \in reconciliations' :
                        /\ p.effect = e /\ p.outcome = "observed_absent" /\ f <= p.fence
                        /\ p.fence < leases'[e].fence \/ leases'[e].expires <= observed'
    BY DEF PlannedIsCleared, SpentFence
  <2>1. CASE Keeps(e)
    <3>1. PICK p \in reconciliations :
            /\ p.effect = e /\ p.outcome = "observed_absent" /\ f <= p.fence
            /\ p.fence < leases[e].fence \/ leases[e].expires <= observed
      BY <2>1 DEF Keeps, AttemptInv, PlannedIsCleared, SpentFence
    <3>2. p.fence <= leases[e].fence
      BY <3>1 DEF AttemptInv, FencesInOrder
    <3>3. p.fence < leases'[e].fence \/ leases'[e].expires <= observed'
      BY <1>a, <1>b, <3>1, <3>2 DEF LeaseMoves, AuditMoves
    <3> QED
      BY <3>1, <3>3 DEF AuditMoves
  <2>2. CASE Plans(e)
    BY <2>2 DEF Plans, AttemptInv, StartedIffResolving
  <2>3. CASE Reopens(e)
    <3>1. f <= leases[e].fence
      BY <2>3 DEF Reopens, AttemptInv, FencesInOrder
    <3> QED
      BY <2>3, <3>1 DEF Reopens
  <2> QED
    BY <2>1, <2>2, <2>3 DEF Shape, Starts, Resolves, InProgress
<1>4. RestartOnlyAfterAbsence'
  <2> SUFFICES ASSUME NEW e \in Effects, NEW f \in started'[e], NEW g \in started'[e], f < g
               PROVE  \E p \in reconciliations' :
                        /\ p.effect = e /\ p.outcome = "observed_absent"
                        /\ f <= p.fence /\ p.fence < g
    BY DEF RestartOnlyAfterAbsence, ClearedBetween
  <2>1. CASE f \in started[e] /\ g \in started[e]
    BY <2>1 DEF AttemptInv, RestartOnlyAfterAbsence, ClearedBetween, AuditMoves
  <2>2. CASE Starts(e) /\ f \in started[e] /\ g = leases[e].fence
    <3>1. PICK p \in reconciliations :
            /\ p.effect = e /\ p.outcome = "observed_absent" /\ f <= p.fence
            /\ p.fence < leases[e].fence \/ leases[e].expires <= observed
      BY <2>2 DEF Starts, AttemptInv, PlannedIsCleared, SpentFence
    <3>2. ~(leases[e].expires <= observed)
      BY <1>a, <1>b, <2>2 DEF Starts, LeaseMoves
    <3> QED
      BY <2>2, <3>1, <3>2 DEF AuditMoves
  <2>3. CASE Starts(e) /\ f = leases[e].fence
    <3>1. g \in started[e] => g <= leases[e].fence
      BY DEF AttemptInv, FencesInOrder
    <3>2. g <= leases[e].fence
      BY <1>a, <2>3, <3>1 DEF Starts
    <3> QED
      BY <1>a, <2>3, <3>2
  <2> QED
    BY <2>1, <2>2, <2>3 DEF Shape, Keeps, Plans, Starts, Resolves, Reopens
<1> QED
  BY <1>1, <1>2, <1>3, <1>4 DEF AttemptInv

\* The attempts, the audit and the fence of every effect stay in order:
\* AttemptInv is inductive relative to the schema.
THEOREM AttemptsConsistent == Spec => []AttemptInv
<1>1. Init => AttemptInv
  BY DEF Init, AttemptInv, FencesInOrder, StartedIffResolving, PlannedIsCleared,
         RestartOnlyAfterAbsence, NoEffectRow
<1>2. TypeOK /\ TypeOK' /\ AttemptInv /\ [Next]_vars => AttemptInv'
  BY StepsHaveShape, ShapesKeepAttempts
<1> QED
  BY <1>1, <1>2, TypeCorrect, PTL DEF Spec

\* No silent duplicate side effect, for any number of callers in any order,
\* with expiring leases and a wall clock that steps back: between two starts
\* of one effect the audit holds a probe that observed it absent.
THEOREM NoSilentDuplicate == Spec => []RestartOnlyAfterAbsence
<1>1. AttemptInv => RestartOnlyAfterAbsence
  BY DEF AttemptInv
<1> QED
  BY <1>1, AttemptsConsistent, PTL

\* A lease that was once observed expired is never revived for its fence, by
\* whatever operation and wherever the wall clock is set (begin_dispatch and
\* begin_prepared_commit, the only ones that lengthen a lease, demand a live one).
THEOREM DeadLeasesStayDead == Spec => ExpiredLeaseStaysDead
<1>1. TypeOK /\ [Next]_vars
        => [\A e \in Effects :
              leases[e].expires <= observed /\ leases'[e].fence = leases[e].fence
                => leases'[e].expires <= observed']_vars
  BY StepsHaveShape DEF StepShape, LeaseMoves
<1> QED
  BY <1>1, TypeCorrect, PTL DEF Spec, ExpiredLeaseStaysDead

-----------------------------------------------------------------------------
(* What no step of the journal may do to an effect: take its lease from a  *)
(* live holder, change its row without a live lease, or touch it once it   *)
(* is completed.  Every operation is reduced to what it does to one effect *)
(* (the moves below); the three action properties follow from the moves.   *)

SameRow(e) == effects'[e] = effects[e] /\ started'[e] = started[e]
SameLease(e) == leases'[e] = leases[e]
SameAudit(e) == {p \in reconciliations' : p.effect = e} = {p \in reconciliations : p.effect = e}

RowRests(e) == SameRow(e) /\ SameLease(e) /\ SameAudit(e)
PlansRow(e) == effects[e].state = "absent" /\ SameLease(e) /\ SameAudit(e)
TakesOver(e) == /\ SameRow(e) /\ SameAudit(e)
                /\ effects[e].state # "completed"
                /\ leases[e].expires <= observed'
                /\ leases'[e].fence > leases[e].fence
RowWorks(e) == /\ effects[e].state # "completed"
               /\ leases[e].expires > observed' /\ leases[e].fence > 0
               /\ leases'[e].worker = leases[e].worker
               /\ leases'[e].fence = leases[e].fence

Move(e) == RowRests(e) \/ PlansRow(e) \/ TakesOver(e) \/ RowWorks(e)

\* A holder's test yields what RowWorks asks of the lease, and only the effect it
\* names is concerned.
LEMMA LiveHolder ==
  ASSUME TypeOK, NEW e \in Effects, NEW fence \in Fences, NEW margin \in Nat,
         HoldsFence(e, fence, margin), observed' = clock
  PROVE  leases[e].expires > observed' /\ leases[e].fence > 0
BY JournalConstants DEF HoldsFence, TypeOK, LeaseRows, Fences

\* Every step moves every effect in one of the four ways.
LEMMA StepsAreMoves == TypeOK /\ [Next]_vars => \A e \in Effects : Move(e)
<1> SUFFICES ASSUME TypeOK, [Next]_vars, NEW x \in Effects PROVE Move(x)
  OBVIOUS
<1> USE DEF Move
<1>1. CASE UNCHANGED vars \/ Tick \/ StepBack \/ Refused
  BY <1>1 DEF vars, Tick, StepBack, Refused, RowRests, SameRow, SameLease, SameAudit
<1>2. ASSUME NEW r \in Runs, NEW expected \in 0 .. MaxRevision,
             NEW event \in OfferedEvents, NEW planned \in Effects \cup {NoEffect},
             NEW context \in SUBSET RequiredRecords(event),
             Transition(r, expected, event, context, planned)
      PROVE  Move(x)
  <2>1. SameLease(x) /\ SameAudit(x) /\ started' = started
    BY <1>2 DEF Transition, SameLease, SameAudit
  <2>2. CASE planned = NoEffect \/ planned # x
    BY <1>2, <2>1, <2>2, JournalConstants DEF Transition, PlanEffect, RowRests, SameRow, TypeOK
  <2>3. CASE planned = x
    BY <1>2, <2>1, <2>3, JournalConstants DEF Transition, PlanEffect, PlansRow
  <2> QED
    BY <2>2, <2>3
<1>3. ASSUME NEW e \in Effects, NEW w \in Workers, NEW ttl \in LeaseTTLs,
             AcquireAttempt(e, w, ttl)
      PROVE  Move(x)
  <2>1. SameRow(x) /\ SameAudit(x) /\ observed' = clock /\ effects[e].state # "completed"
    BY <1>3 DEF AcquireAttempt, Observe, SameRow, SameAudit
  <2>2. CASE SameLease(x)
    BY <2>1, <2>2 DEF RowRests
  <2>3. CASE ~SameLease(x)
    <3>1. x = e /\ leases[e].expires <= clock
      BY <1>3, <2>3 DEF AcquireAttempt, SameLease, TypeOK
    <3>2. leases'[e].fence = leases[e].fence + 1 /\ leases[e].fence \in Nat
      BY <1>3, <2>3, <3>1 DEF AcquireAttempt, SameLease, TypeOK, LeaseRows
    <3> QED
      BY <2>1, <3>1, <3>2 DEF TakesOver
  <2> QED
    BY <2>2, <2>3
<1>4. ASSUME NEW e \in Effects, NEW w \in Workers, NEW fence \in Fences,
             NEW expected, NEW admission, NEW budget \in ExecutionBudgets,
             BeginDispatch(e, w, fence, expected, admission, budget)
      PROVE  Move(x)
  <2>1. CASE x = e
    <3>1. leases[e].expires > observed' /\ leases[e].fence > 0
      BY <1>4, LiveHolder DEF BeginDispatch, HoldsReservation, Observe
    <3> QED
      BY <1>4, <2>1, <3>1 DEF BeginDispatch, Extend, RowWorks, TypeOK
  <2>2. CASE x # e
    BY <1>4, <2>2 DEF BeginDispatch, SetEffect, NoteStart, Extend, RowRests, SameRow, SameLease,
                      SameAudit, TypeOK
  <2> QED
    BY <2>1, <2>2
<1>5. ASSUME NEW e \in Effects, NEW w \in Workers, NEW fence \in Fences,
             NEW expected, NEW admission, NEW evidence, NEW budget \in CommitBudgets,
             BeginPreparedCommit(e, w, fence, expected, admission, evidence, budget)
      PROVE  Move(x)
  <2>1. CASE x = e
    <3>1. leases[e].expires > observed' /\ leases[e].fence > 0
      BY <1>5, LiveHolder DEF BeginPreparedCommit, HoldsReservation, Observe
    <3> QED
      BY <1>5, <2>1, <3>1 DEF BeginPreparedCommit, Extend, RowWorks, TypeOK
  <2>2. CASE x # e
    BY <1>5, <2>2 DEF BeginPreparedCommit, Extend, RowRests, SameRow, SameLease, SameAudit, TypeOK
  <2> QED
    BY <2>1, <2>2
<1>6. ASSUME NEW e \in Effects, NEW fence \in Fences, NEW target \in EffectStates,
             NEW evidence \in Evidence \cup {NoEvidence}, NEW margin \in MinimumTTLs,
             RecordEffect(e, fence, target, evidence, margin)
      PROVE  Move(x)
  <2>1. SameLease(x) /\ SameAudit(x) /\ observed' = clock
    BY <1>6 DEF RecordEffect, Observe, SameLease, SameAudit
  <2>2. CASE x # e \/ UNCHANGED <<effects, started>>
    BY <1>6, <2>1, <2>2 DEF RecordEffect, SetEffect, NoteStart, RowRests, SameRow, TypeOK
  <2>3. CASE /\ x = e /\ HoldsFence(e, fence, margin)
             /\ <<effects[e].state, target>> \in RecordableSteps
    <3>1. leases[e].expires > observed' /\ leases[e].fence > 0
      BY <2>1, <2>3, LiveHolder, JournalConstants
    <3>2. effects[e].state # "completed"
      BY <2>3 DEF RecordableSteps
    <3> QED
      BY <2>1, <2>3, <3>1, <3>2 DEF RowWorks, SameLease
  <2> QED
    BY <1>6, <2>2, <2>3 DEF RecordEffect
<1>7. ASSUME NEW e \in Effects, NEW fence \in Fences, NEW prior \in Evidence,
             NEW adopted \in Evidence, AdoptPrepared(e, fence, prior, adopted)
      PROVE  Move(x)
  <2>1. SameLease(x) /\ SameAudit(x) /\ UNCHANGED started /\ observed' = clock
    BY <1>7 DEF AdoptPrepared, Observe, SameLease, SameAudit
  <2>2. CASE x # e \/ UNCHANGED effects
    BY <1>7, <2>1, <2>2 DEF AdoptPrepared, SetEffect, RowRests, SameRow, TypeOK
  <2>3. CASE x = e /\ HoldsFence(e, fence, 0)
    <3>1. leases[e].expires > observed' /\ leases[e].fence > 0
      BY <2>1, <2>3, LiveHolder
    <3> QED
      BY <1>7, <2>1, <2>3, <3>1 DEF AdoptPrepared, RowWorks, SameLease
  <2> QED
    BY <1>7, <2>2, <2>3 DEF AdoptPrepared
<1>8. ASSUME NEW e \in Effects, NEW fence \in Fences, NEW outcome \in Outcomes,
             NEW evidence \in Evidence,
             RecordReconciliation(e, fence, outcome, evidence)
      PROVE  Move(x)
  <2>1. UNCHANGED started /\ observed' = clock
    BY <1>8 DEF RecordReconciliation, Observe
  <2>2. CASE UNCHANGED <<effects, leases, reconciliations>>
    BY <2>1, <2>2 DEF RowRests, SameRow, SameLease, SameAudit
  <2>3. CASE /\ effects[e].state \in {"started", "prepared", "reconciled"}
             /\ HoldsFence(e, fence, 0)
             /\ reconciliations' = reconciliations \cup
                  {[effect |-> e, fence |-> fence, outcome |-> outcome, evidence |-> evidence]}
             /\ ApplyOutcome(e, outcome, evidence)
    <3>1. CASE x = e
      <4>1. leases[e].expires > observed' /\ leases[e].fence > 0
        BY <2>1, <2>3, LiveHolder
      <4>2. leases'[e].worker = leases[e].worker /\ leases'[e].fence = leases[e].fence
        BY <2>3 DEF ApplyOutcome, Extend, TypeOK
      <4> QED
        BY <2>3, <3>1, <4>1, <4>2 DEF RowWorks
    <3>2. CASE x # e
      <4>1. SameAudit(x)
        BY <2>3, <3>2 DEF SameAudit
      <4>2. effects'[x] = effects[x] /\ leases'[x] = leases[x]
        BY <2>3, <3>2 DEF ApplyOutcome, SetEffect, Extend, TypeOK
      <4> QED
        BY <2>1, <4>1, <4>2 DEF RowRests, SameRow, SameLease
    <3> QED
      BY <3>1, <3>2
  <2> QED
    BY <1>8, <2>2, <2>3 DEF RecordReconciliation
<1> QED
  BY <1>1, <1>2, <1>3, <1>4, <1>5, <1>6, <1>7, <1>8 DEF Next, Lifecycle, Authority

-----------------------------------------------------------------------------
\* Two workers never hold one effect at once: a lease changes hands, or gets a
\* new fence, only when its expiry has been observed (acquire_attempt).
THEOREM NoTakeoverOfLiveLease == Spec => TakeoverOnlyAfterExpiry
<1>1. TypeOK /\ [Next]_vars
        => [\A e \in Effects :
              leases'[e].worker # leases[e].worker \/ leases'[e].fence # leases[e].fence
                => /\ leases[e].expires <= observed'
                   /\ leases'[e].fence > leases[e].fence]_vars
  BY StepsAreMoves DEF Move, RowRests, PlansRow, TakesOver, RowWorks, SameLease
<1> QED
  BY <1>1, TypeCorrect, PTL DEF Spec, TakeoverOnlyAfterExpiry

\* A caller whose fence is stale or expired changes nothing: an effect row
\* changes only under a lease that is live when the change is made.
THEOREM StaleCallersChangeNothing == Spec => ChangedOnlyUnderLiveLease
<1>1. TypeOK /\ [Next]_vars
        => [\A e \in Effects :
              effects'[e] # effects[e] /\ effects[e].state # "absent"
                => leases[e].expires > observed' /\ leases[e].fence > 0]_vars
  BY StepsAreMoves DEF Move, RowRests, PlansRow, TakesOver, RowWorks, SameRow
<1> QED
  BY <1>1, TypeCorrect, PTL DEF Spec, ChangedOnlyUnderLiveLease

\* Completion is final for every caller: the row, the lease, the audit and the
\* attempts of a completed effect never change again.
THEOREM CompletionIsFinal == Spec => CompletedIsFinal
<1>1. TypeOK /\ [Next]_vars
        => [\A e \in Effects :
              effects[e].state = "completed"
                => /\ effects'[e] = effects[e]
                   /\ leases'[e] = leases[e]
                   /\ {p \in reconciliations' : p.effect = e}
                        = {p \in reconciliations : p.effect = e}
                   /\ started'[e] = started[e]]_vars
  BY StepsAreMoves DEF Move, RowRests, PlansRow, TakesOver, RowWorks, SameRow, SameLease, SameAudit
<1> QED
  BY <1>1, TypeCorrect, PTL DEF Spec, CompletedIsFinal

-----------------------------------------------------------------------------
(* Evidence, outcomes and audit. *)

RowInv == EvidenceFollowsState /\ OneOutcomePerFence

\* What a step may do to the row of one effect.
Untouched(e) == effects'[e] = effects[e]
Planned(e) == effects'[e].state = "intent" /\ effects'[e].evidence = NoEvidence
Began(e) == effects'[e].state = "started" /\ effects'[e].evidence = NoEvidence
Attested(e) == effects'[e].state \in {"prepared", "completed"} /\ effects'[e].evidence # NoEvidence
Doubted(e) == effects'[e].state = "reconciled" /\ effects'[e].evidence = NoEvidence

RowMove(e) == Untouched(e) \/ Planned(e) \/ Began(e) \/ Attested(e) \/ Doubted(e)

\* The audit gains at most one row, of a fence it had none for.
AuditGains ==
  \/ UNCHANGED reconciliations
  \/ \E row \in AuditRows : /\ reconciliations' = reconciliations \cup {row}
                            /\ Audit(row.effect, row.fence) = {}

\* Every step of the journal moves the rows in these ways.
LEMMA StepsMoveRows == TypeOK /\ [Next]_vars => AuditGains /\ \A e \in Effects : RowMove(e)
<1> SUFFICES ASSUME TypeOK, [Next]_vars PROVE AuditGains /\ \A x \in Effects : RowMove(x)
  OBVIOUS
<1> USE DEF RowMove, AuditGains
<1>1. CASE UNCHANGED vars \/ Tick \/ StepBack \/ Refused
  BY <1>1 DEF vars, Tick, StepBack, Refused, Untouched
<1>2. ASSUME NEW r \in Runs, NEW expected \in 0 .. MaxRevision,
             NEW event \in OfferedEvents, NEW planned \in Effects \cup {NoEffect},
             NEW context \in SUBSET RequiredRecords(event),
             Transition(r, expected, event, context, planned)
      PROVE  AuditGains /\ \A x \in Effects : RowMove(x)
  BY <1>2, JournalConstants DEF Transition, PlanEffect, Untouched, Planned, TypeOK
<1>3. ASSUME NEW e \in Effects, NEW w \in Workers, NEW ttl \in LeaseTTLs,
             AcquireAttempt(e, w, ttl)
      PROVE  AuditGains /\ \A x \in Effects : RowMove(x)
  BY <1>3 DEF AcquireAttempt, Untouched
<1>4. ASSUME NEW e \in Effects, NEW w \in Workers, NEW fence \in Fences,
             NEW expected, NEW admission, NEW budget \in ExecutionBudgets,
             BeginDispatch(e, w, fence, expected, admission, budget)
      PROVE  AuditGains /\ \A x \in Effects : RowMove(x)
  BY <1>4 DEF BeginDispatch, SetEffect, Untouched, Began, TypeOK
<1>5. ASSUME NEW e \in Effects, NEW w \in Workers, NEW fence \in Fences,
             NEW expected, NEW admission, NEW evidence, NEW budget \in CommitBudgets,
             BeginPreparedCommit(e, w, fence, expected, admission, evidence, budget)
      PROVE  AuditGains /\ \A x \in Effects : RowMove(x)
  BY <1>5 DEF BeginPreparedCommit, Untouched
<1>6. ASSUME NEW e \in Effects, NEW fence \in Fences, NEW target \in EffectStates,
             NEW evidence \in Evidence \cup {NoEvidence}, NEW margin \in MinimumTTLs,
             RecordEffect(e, fence, target, evidence, margin)
      PROVE  AuditGains /\ \A x \in Effects : RowMove(x)
  <2>1. CASE UNCHANGED effects
    BY <1>6, <2>1 DEF RecordEffect, Untouched
  <2>2. CASE /\ SetEffect(e, target, evidence)
             /\ target \in {"started", "prepared", "completed"}
             /\ (target = "started") <=> (evidence = NoEvidence)
    <3>1. \A x \in Effects \ {e} : Untouched(x)
      BY <2>2 DEF SetEffect, Untouched, TypeOK
    <3>2. Began(e) \/ Attested(e)
      BY <2>2 DEF SetEffect, Began, Attested, TypeOK
    <3> QED
      BY <1>6, <3>1, <3>2 DEF RecordEffect
  <2> QED
    BY <1>6, <2>1, <2>2 DEF RecordEffect, RecordableSteps
<1>7. ASSUME NEW e \in Effects, NEW fence \in Fences, NEW prior \in Evidence,
             NEW adopted \in Evidence, AdoptPrepared(e, fence, prior, adopted)
      PROVE  AuditGains /\ \A x \in Effects : RowMove(x)
  BY <1>7, JournalConstants DEF AdoptPrepared, SetEffect, Untouched, Attested, TypeOK
<1>8. ASSUME NEW e \in Effects, NEW fence \in Fences, NEW outcome \in Outcomes,
             NEW evidence \in Evidence,
             RecordReconciliation(e, fence, outcome, evidence)
      PROVE  AuditGains /\ \A x \in Effects : RowMove(x)
  <2> DEFINE row == [effect |-> e, fence |-> fence, outcome |-> outcome,
                     evidence |-> evidence]
  <2>1. CASE UNCHANGED <<effects, reconciliations>>
    BY <2>1 DEF Untouched
  <2>2. CASE /\ Audit(e, fence) = {}
             /\ reconciliations' = reconciliations \cup {row}
             /\ ApplyOutcome(e, outcome, evidence)
    <3>1. AuditGains
      <4>1. row \in AuditRows /\ row.effect = e /\ row.fence = fence
        BY DEF AuditRows
      <4> QED
        BY <2>2, <4>1
    <3>2. \A x \in Effects \ {e} : Untouched(x)
      BY <2>2 DEF ApplyOutcome, SetEffect, Untouched, TypeOK
    <3>3. ASSUME outcome = "observed_completed" PROVE Attested(e)
      BY <2>2, <3>3, JournalConstants DEF ApplyOutcome, SetEffect, Attested, TypeOK
    <3>4. ASSUME outcome = "observed_absent" PROVE Untouched(e) \/ Planned(e)
      BY <2>2, <3>4 DEF ApplyOutcome, SetEffect, Untouched, Planned, TypeOK
    <3>5. ASSUME outcome = "unknown" PROVE Doubted(e)
      <4>1. row \in reconciliations' /\ row.effect = e /\ row.outcome = "unknown"
        BY <2>2, <3>5
      <4>2. effects'[e].state = "reconciled" /\ effects'[e].evidence = NoEvidence
        BY <2>2, <3>5 DEF ApplyOutcome, SetEffect, TypeOK
      <4> QED
        BY <4>1, <4>2 DEF Doubted
    <3>6. RowMove(e)
      BY <3>3, <3>4, <3>5 DEF Outcomes
    <3> QED
      BY <3>1, <3>2, <3>6
  <2> QED
    BY <1>8, <2>1, <2>2 DEF RecordReconciliation
<1> QED
  BY <1>1, <1>2, <1>3, <1>4, <1>5, <1>6, <1>7, <1>8 DEF Next, Lifecycle, Authority

\* The two row facts are inductive together, relative to the schema.
LEMMA RowsStep == TypeOK /\ RowInv /\ [Next]_vars => RowInv'
<1> SUFFICES ASSUME TypeOK, RowInv, [Next]_vars PROVE RowInv'
  OBVIOUS
<1>1. AuditGains /\ \A e \in Effects : RowMove(e)
  BY StepsMoveRows
<1>2. EvidenceFollowsState'
  BY <1>1 DEF RowInv, EvidenceFollowsState, RowMove, Untouched, Planned, Began, Attested, Doubted
<1>3. OneOutcomePerFence'
  <2> SUFFICES ASSUME NEW p \in reconciliations', NEW q \in reconciliations',
                      p.effect = q.effect, p.fence = q.fence
               PROVE  p = q
    BY DEF OneOutcomePerFence
  <2>1. CASE UNCHANGED reconciliations
    BY <2>1 DEF RowInv, OneOutcomePerFence
  <2>2. ASSUME NEW row \in AuditRows, reconciliations' = reconciliations \cup {row},
               Audit(row.effect, row.fence) = {}
        PROVE  p = q
    BY <2>2 DEF RowInv, OneOutcomePerFence, Audit
  <2> QED
    BY <1>1, <2>1, <2>2 DEF AuditGains
<1> QED
  BY <1>2, <1>3 DEF RowInv

\* What the CHECK and UNIQUE constraints of the tables ask for holds.
LEMMA RowsCorrect == Spec => []RowInv
<1>1. Init => RowInv
  BY DEF Init, RowInv, EvidenceFollowsState, OneOutcomePerFence, NoEffectRow
<1> QED
  BY <1>1, RowsStep, TypeCorrect, PTL DEF Spec

\* Whatever mix of recording, adoption and reconciliation led there, an effect
\* holds evidence exactly while it is PREPARED or COMPLETED.
THEOREM EvidenceBelongs == Spec => []EvidenceFollowsState
<1>1. RowInv => EvidenceFollowsState
  BY DEF RowInv
<1> QED
  BY <1>1, RowsCorrect, PTL

\* The foreign key of the effects table: a planned effect names its run.
EffectsOwned == \A e \in Effects : effects[e].state # "absent" => effects[e].run \in Runs

\* A row that is written again keeps its run.
LEMMA SetKeepsRun ==
  ASSUME TypeOK, EffectsOwned, NEW e \in Effects, effects[e].state # "absent",
         NEW state, NEW evidence, SetEffect(e, state, evidence)
  PROVE  EffectsOwned'
<1>1. \A x \in Effects : \/ effects'[x] = effects[x]
                         \/ effects'[x].run = effects[x].run /\ effects[x].state # "absent"
  BY DEF SetEffect, TypeOK
<1> QED
  BY <1>1 DEF EffectsOwned

\* Only a transition plans an effect, for the run it moves.
LEMMA OwnedStep == TypeOK /\ EffectsOwned /\ [Next]_vars => EffectsOwned'
<1> SUFFICES ASSUME TypeOK, EffectsOwned, [Next]_vars PROVE EffectsOwned'
  OBVIOUS
<1>1. CASE UNCHANGED effects
  BY <1>1 DEF EffectsOwned
<1>2. ASSUME NEW r \in Runs, NEW e \in Effects, PlanEffect(r, e) PROVE EffectsOwned'
  BY <1>2 DEF PlanEffect, EffectsOwned, TypeOK
<1>3. ASSUME NEW e \in Effects, effects[e].state # "absent",
             \E state, evidence : SetEffect(e, state, evidence)
      PROVE  EffectsOwned'
  BY <1>3, SetKeepsRun
<1>4. CASE UNCHANGED vars \/ Tick \/ StepBack \/ Refused
  BY <1>1, <1>4 DEF vars, Tick, StepBack, Refused
<1>5. CASE Lifecycle
  BY <1>1, <1>2, <1>5 DEF Lifecycle, Transition
<1>6. ASSUME NEW e \in Effects, NEW w, NEW fence, NEW x, NEW y, NEW z, NEW t,
             \/ AcquireAttempt(e, w, x)
             \/ BeginDispatch(e, w, fence, x, y, z)
             \/ BeginPreparedCommit(e, w, fence, x, y, z, t)
      PROVE  EffectsOwned'
  BY <1>1, <1>3, <1>6 DEF AcquireAttempt, BeginDispatch, BeginPreparedCommit
<1>7. ASSUME NEW e \in Effects, NEW fence, NEW x, NEW y, NEW z,
             RecordEffect(e, fence, x, y, z) \/ AdoptPrepared(e, fence, x, y)
      PROVE  EffectsOwned'
  BY <1>1, <1>3, <1>7 DEF RecordEffect, RecordableSteps, AdoptPrepared
<1>8. ASSUME NEW e \in Effects, NEW fence, NEW outcome \in Outcomes, NEW evidence,
             RecordReconciliation(e, fence, outcome, evidence)
      PROVE  EffectsOwned'
  BY <1>1, <1>3, <1>8 DEF RecordReconciliation, ApplyOutcome
<1> QED
  BY <1>4, <1>5, <1>6, <1>7, <1>8 DEF Next, Authority

-----------------------------------------------------------------------------
(* The event log. *)

\* One row for one run: the run moves on and its log gains the row.
EventRow(r, event, context, next) ==
  [revision |-> runs[r].revision + 1, event |-> event, state |-> next, context |-> context]

Logs(r, event, context, next) ==
  /\ next \in NextStates(runs[r].state, event, context)
  /\ runs' = [runs EXCEPT ![r] = [state |-> next, revision |-> runs[r].revision + 1]]
  /\ log' = [log EXCEPT ![r] = Append(log[r], EventRow(r, event, context, next))]
  /\ EventRow(r, event, context, next) \in EventRows

\* A transition appends one row to the log of its run; nothing else does.
LEMMA LogMoves ==
  ASSUME TypeOK, [Next]_vars
  PROVE  \/ UNCHANGED <<runs, log>>
         \/ \E r \in Runs, event \in RunEvents, context \in SUBSET RecordKinds,
               next \in RunStates : Logs(r, event, context, next)
<1>1. CASE Lifecycle
  <2>1. PICK r \in Runs, expected \in 0 .. MaxRevision, event \in OfferedEvents,
             planned \in Effects \cup {NoEffect} :
          \E context \in SUBSET RequiredRecords(event) :
            Transition(r, expected, event, context, planned)
    BY <1>1 DEF Lifecycle
  <2>2. PICK context \in SUBSET RequiredRecords(event) :
          Transition(r, expected, event, context, planned)
    BY <2>1
  <2>3. /\ runs[r].revision = expected /\ expected < MaxRevision /\ event \in RunEvents
        /\ runs[r].state \in RunStates /\ expected \in Nat
    BY <2>2, JournalConstants DEF Transition, TypeOK, RunRows
  <2>4. PICK next \in NextStates(runs[r].state, event, context) :
          /\ runs' = [runs EXCEPT ![r] = [state |-> next, revision |-> expected + 1]]
          /\ AppendEvent(r, event, context, next)
    BY <2>2 DEF Transition
  <2>5. next \in RunStates /\ context \in SUBSET RecordKinds
    BY <2>3, <2>4, EdgesTyped DEF RequiredRecords
  <2>6. EventRow(r, event, context, next) \in EventRows
    BY <2>3, <2>5, JournalConstants DEF EventRows, EventRow
  <2>7. log' = [log EXCEPT ![r] = Append(log[r], EventRow(r, event, context, next))]
    BY <2>4 DEF AppendEvent, EventRow
  <2>8. Logs(r, event, context, next)
    BY <2>3, <2>4, <2>6, <2>7 DEF Logs
  <2> HIDE DEF Logs
  <2> QED
    BY <2>3, <2>5, <2>8
<1>2. CASE UNCHANGED <<runs, log>>
  BY <1>2
<1>3. ASSUME NEW e \in Effects, Authority(e) PROVE UNCHANGED <<runs, log>>
  BY <1>3 DEF Authority, AcquireAttempt, BeginDispatch, BeginPreparedCommit, RecordEffect,
              AdoptPrepared, RecordReconciliation
<1>4. CASE UNCHANGED vars \/ Tick \/ StepBack \/ Refused
  BY <1>2, <1>4 DEF vars, Tick, StepBack, Refused
<1> HIDE DEF Logs
<1> QED
  BY <1>1, <1>2, <1>3, <1>4 DEF Next

\* One more row at the end of one log.
LEMMA LogAppended ==
  ASSUME TypeOK, NEW r \in Runs, NEW row \in EventRows,
         log' = [log EXCEPT ![r] = Append(log[r], row)]
  PROVE  /\ Len(log[r]) \in Nat /\ Len(log'[r]) = Len(log[r]) + 1
         /\ log'[r][Len(log[r]) + 1] = row
         /\ \A i \in 1 .. Len(log[r]) : log'[r][i] = log[r][i]
         /\ \A x \in Runs : x # r => log'[x] = log[x]
<1>1. log[r] \in Seq(EventRows) /\ log'[r] = Append(log[r], row)
      /\ \A x \in Runs : x # r => log'[x] = log[x]
  BY DEF TypeOK
<1> QED
  BY <1>1

\* What LogExplainsRun says of one run.
Explains(r) ==
  /\ Len(log[r]) = runs[r].revision
  /\ runs[r].state = StateBefore(r, Len(log[r]) + 1)
  /\ \A i \in 1 .. Len(log[r]) :
       /\ log[r][i].revision = i
       /\ log[r][i].state \in NextStates(StateBefore(r, i), log[r][i].event,
                                        log[r][i].context)

\* No step parts the log from the run.
LEMMA LogStep == TypeOK /\ LogExplainsRun /\ [Next]_vars => LogExplainsRun'
<1> SUFFICES ASSUME TypeOK, LogExplainsRun, [Next]_vars, NEW x \in Runs PROVE Explains(x)'
  BY DEF LogExplainsRun, Explains
<1>1. Explains(x)
  BY DEF LogExplainsRun, Explains
<1>2. CASE runs'[x] = runs[x] /\ log'[x] = log[x]
  BY <1>1, <1>2 DEF Explains, StateBefore
<1>3. ASSUME NEW event \in RunEvents, NEW context,
             NEW next \in NextStates(runs[x].state, event, context), NEW row \in EventRows,
             row.revision = runs[x].revision + 1, row.event = event, row.state = next,
             row.context = context,
             runs'[x].state = next, runs'[x].revision = runs[x].revision + 1,
             log' = [log EXCEPT ![x] = Append(log[x], row)]
      PROVE  Explains(x)'
  <2> DEFINE n == Len(log[x])
  <2>1. /\ n \in Nat /\ Len(log'[x]) = n + 1 /\ log'[x][n + 1] = row
        /\ \A i \in 1 .. n : log'[x][i] = log[x][i]
    BY <1>3, LogAppended
  <2>2. n = runs[x].revision /\ runs[x].state = StateBefore(x, n + 1)
    BY <1>1 DEF Explains
  <2>3. \A i \in 1 .. n + 1 : StateBefore(x, i)' = StateBefore(x, i)
    BY <2>1 DEF StateBefore
  <2>4. StateBefore(x, Len(log[x]) + 1)' = next
    <3> DEFINE m == Len(log'[x]) + 1
    <3>1. m # 1 /\ m - 1 = n + 1
      BY <2>1
    <3>2. log'[x][m - 1].state = next
      BY <1>3, <2>1, <3>1
    <3> QED
      BY <3>1, <3>2 DEF StateBefore
  <2>5. ASSUME NEW i \in 1 .. n + 1
        PROVE  /\ log'[x][i].revision = i
               /\ log'[x][i].state \in NextStates(StateBefore(x, i)', log'[x][i].event,
                                                 log'[x][i].context)
    <3>1. CASE i = n + 1
      BY <1>3, <2>1, <2>2, <2>3, <3>1
    <3>2. CASE i \in 1 .. n
      BY <1>1, <2>1, <2>3, <3>2 DEF Explains
    <3> QED
      BY <2>1, <3>1, <3>2
  <2>6. /\ Len(log'[x]) = runs'[x].revision
        /\ runs'[x].state = StateBefore(x, Len(log[x]) + 1)'
    BY <1>3, <2>1, <2>2, <2>4
  <2> QED
    BY <2>1, <2>5, <2>6 DEF Explains
<1> QED
  <2>1. CASE UNCHANGED <<runs, log>>
    BY <1>2, <2>1
  <2>2. ASSUME NEW r \in Runs, NEW event \in RunEvents, NEW context \in SUBSET RecordKinds,
               NEW next \in RunStates, Logs(r, event, context, next)
        PROVE  Explains(x)'
    <3>1. CASE x # r
      BY <1>2, <2>2, <3>1 DEF TypeOK, Logs
    <3>2. CASE x = r
      <4> DEFINE row == EventRow(r, event, context, next)
      <4>1. /\ row.revision = runs[x].revision + 1 /\ row.event = event /\ row.state = next
            /\ row.context = context
        BY <3>2 DEF EventRow
      <4>2. runs'[x].state = next /\ runs'[x].revision = runs[x].revision + 1
        BY <2>2, <3>2 DEF TypeOK, Logs
      <4>3. /\ next \in NextStates(runs[x].state, event, context) /\ row \in EventRows
            /\ log' = [log EXCEPT ![x] = Append(log[x], row)]
        BY <2>2, <3>2 DEF Logs
      <4> HIDE DEF Explains, row
      <4> QED
        BY <1>3, <4>1, <4>2, <4>3
    <3> QED
      BY <3>1, <3>2
  <2> QED
    BY <2>1, <2>2, LogMoves

\* The event log is the run's history: contiguous revisions, every event along
\* a lifecycle edge with the record it demands, ending where the run row is.
THEOREM LogExplains == Spec => []LogExplainsRun
<1>1. Init => LogExplainsRun
  BY DEF Init, LogExplainsRun, StateBefore
<1> QED
  BY <1>1, LogStep, TypeCorrect, PTL DEF Spec

\* The sixteen stages are different states, none of them a recovery state.
LEMMA StagesApart ==
  /\ \A i, k \in 1 .. 16 : Stages[i] = Stages[k] => i = k
  /\ \A k \in 1 .. 16 : Stages[k] \notin RecoveryStates
<1> DEFINE Place(s) == CASE s = "new" -> 1 [] s = "discovery" -> 2 [] s = "requirements" -> 3
                         [] s = "gate_1" -> 4 [] s = "design" -> 5 [] s = "modules" -> 6
                         [] s = "gate_2" -> 7 [] s = "planning" -> 8 [] s = "gate_3" -> 9
                         [] s = "implementation" -> 10 [] s = "verification" -> 11
                         [] s = "test" -> 12 [] s = "production_authorization" -> 13
                         [] s = "prod" -> 14 [] s = "acceptance" -> 15
                         [] s = "completed" -> 16 [] OTHER -> 0
<1>1. \A k \in 1 .. 16 : Place(Stages[k]) = k
  <2> SUFFICES ASSUME NEW k \in 1 .. 16 PROVE Place(Stages[k]) = k
    OBVIOUS
  <2>1. k \in {1, 2, 3, 4, 5, 6, 7, 8, 9, 10, 11, 12, 13, 14, 15, 16}
    OBVIOUS
  <2> QED
    BY <2>1 DEF Stages
<1>2. \A s \in RecoveryStates : Place(s) = 0
  BY DEF RecoveryStates
<1> HIDE DEF Place
<1> QED
  BY <1>1, <1>2

\* Only the forward edge leads to a stage.
LEMMA OneWayIn ==
  ASSUME NEW edge \in Transitions, NEW k \in 1 .. 16, edge.to = Stages[k]
  PROVE  k > 1 /\ edge.from = Stages[k - 1] /\ edge.event = StageEvents[k - 1]
<1>1. CASE edge \in ForwardTransitions
  <2>1. PICK i \in 1 .. 15 : edge = Edge(Stages[i], StageEvents[i], Stages[i + 1])
    BY <1>1 DEF ForwardTransitions
  <2>2. edge.to = Stages[i + 1] /\ edge.from = Stages[i] /\ edge.event = StageEvents[i]
    BY <2>1 DEF Edge
  <2> DEFINE j == i + 1
  <2>3. j \in 1 .. 16 /\ Stages[j] = Stages[k]
    BY <2>2
  <2> HIDE DEF j
  <2>4. j = k
    BY <2>3, StagesApart
  <2>5. i + 1 = k
    BY <2>4 DEF j
  <2> QED
    BY <2>2, <2>5
<1>2. edge \in RecoveryTransitions => edge.to \in RecoveryStates
  BY DEF RecoveryTransitions, Edge, RecoveryStates
<1> QED
  BY <1>1, <1>2, StagesApart DEF Transitions

\* A run at a stage has come the whole forward path, and no other way.
ForwardPath ==
  \A r \in Runs, k \in 1 .. 16 :
    runs[r].state = Stages[k] =>
      /\ Len(log[r]) = k - 1
      /\ \A i \in 1 .. k - 1 : log[r][i].event = StageEvents[i]

\* No step leads to a stage off the forward path.
LEMMA ForwardStep == TypeOK /\ ForwardPath /\ [Next]_vars => ForwardPath'
<1> SUFFICES ASSUME TypeOK, ForwardPath, [Next]_vars, NEW x \in Runs, NEW k \in 1 .. 16,
                    runs'[x].state = Stages[k]
             PROVE  /\ Len(log'[x]) = k - 1
                    /\ \A i \in 1 .. k - 1 : log'[x][i].event = StageEvents[i]
  BY DEF ForwardPath
<1>1. CASE runs'[x] = runs[x] /\ log'[x] = log[x]
  BY <1>1 DEF ForwardPath
<1>2. ASSUME NEW r \in Runs, NEW event \in RunEvents, NEW context \in SUBSET RecordKinds,
             NEW next \in RunStates, Logs(r, event, context, next)
      PROVE  /\ Len(log'[x]) = k - 1
             /\ \A i \in 1 .. k - 1 : log'[x][i].event = StageEvents[i]
  <2>1. CASE x # r
    BY <1>1, <1>2, <2>1 DEF TypeOK, Logs
  <2>2. CASE x = r
    <3> DEFINE row == EventRow(r, event, context, next)
    <3>1. next = Stages[k] /\ row.event = event
      BY <1>2, <2>2 DEF TypeOK, Logs, EventRow
    <3>2. PICK edge \in Transitions :
            edge.from = runs[x].state /\ edge.event = event /\ edge.to = next
      BY <1>2, <2>2 DEF NextStates, Logs
    <3>3. k > 1 /\ runs[x].state = Stages[k - 1] /\ event = StageEvents[k - 1]
      BY <3>1, <3>2, OneWayIn
    <3>4. /\ Len(log[x]) = k - 2
          /\ \A i \in 1 .. k - 2 : log[x][i].event = StageEvents[i]
      <4> DEFINE j == k - 1
      <4>1. j \in 1 .. 16 /\ runs[x].state = Stages[j] /\ j - 1 = k - 2
        BY <3>3
      <4> HIDE DEF j
      <4> QED
        BY <4>1 DEF ForwardPath
    <3>5. row \in EventRows /\ log' = [log EXCEPT ![x] = Append(log[x], row)]
      BY <1>2, <2>2 DEF Logs
    <3> HIDE DEF row
    <3>6. /\ Len(log'[x]) = Len(log[x]) + 1 /\ log'[x][Len(log[x]) + 1] = row
          /\ \A i \in 1 .. Len(log[x]) : log'[x][i] = log[x][i]
      BY <3>5, LogAppended
    <3>7. k - 2 + 1 = k - 1 /\ Len(log[x]) + 1 = k - 1
      BY <3>4
    <3>8. log'[x][k - 1].event = StageEvents[k - 1]
      BY <3>1, <3>3, <3>6, <3>7
    <3>9. \A i \in 1 .. k - 2 : log'[x][i].event = StageEvents[i]
      BY <3>4, <3>6
    <3>10. \A i \in 1 .. k - 1 : i = k - 1 \/ i \in 1 .. k - 2
      BY <3>3
    <3> QED
      BY <3>6, <3>7, <3>8, <3>9, <3>10
  <2> QED
    BY <2>1, <2>2
<1> QED
  BY <1>1, <1>2, LogMoves

\* A run is in production or completed only at the end of the whole forward
\* path: every gate and release step in order and no recovery on the way.
THEOREM GatesBeforeProduction == Spec => []ProductionNeedsEveryGate
<1>1. Init => ForwardPath
  <2> SUFFICES ASSUME Init, NEW r \in Runs, NEW k \in 1 .. 16, runs[r].state = Stages[k]
               PROVE  k = 1 /\ Len(log[r]) = 0
    BY DEF ForwardPath
  <2>1. runs[r].state = Stages[1] /\ Len(log[r]) = 0 /\ 1 \in 1 .. 16
    BY DEF Init, Stages
  <2>2. k = 1
    BY <2>1, StagesApart
  <2> QED
    BY <2>1, <2>2
<1>2. ForwardPath => ProductionNeedsEveryGate
  <2> SUFFICES ASSUME ForwardPath, NEW r \in Runs,
                      runs[r].state \in {"prod", "acceptance", "completed"}
               PROVE  \A i \in 1 .. Len(log[r]) : log[r][i].event = StageEvents[i]
    BY DEF ProductionNeedsEveryGate
  <2>1. Stages[14] = "prod" /\ Stages[15] = "acceptance" /\ Stages[16] = "completed"
    BY DEF Stages
  <2>2. PICK k \in 1 .. 16 : runs[r].state = Stages[k]
    BY <2>1
  <2> QED
    BY <2>2 DEF ForwardPath
<1> QED
  BY <1>1, <1>2, ForwardStep, TypeCorrect, PTL DEF Spec

-----------------------------------------------------------------------------
(***************************************************************************)
(* The journal implements the effect lifecycle.  Every step of the journal *)
(* changes what the abstraction sees of one effect at most, and does it as *)
(* the lifecycle allows.                                                   *)
(***************************************************************************)

\* What the abstraction sees of the other effects stays.
Elsewhere(e) ==
  \A x \in Effects :
    x # e => /\ effects'[x] = effects[x] /\ started'[x] = started[x]
             /\ AbsenceFences(x)' = AbsenceFences(x)

\* The ways one effect may change.
Stays(e) ==
  /\ Phase(effects'[e].state) = Phase(effects[e].state)
  /\ effects'[e].evidence = effects[e].evidence
  /\ started'[e] = started[e] /\ AbsenceFences(e)' = AbsenceFences(e)
Unresolved(e) == Phase(effects[e].state) = "open" /\ started'[e] = started[e]
NewPlan(e) ==
  /\ Phase(effects[e].state) = "unplanned" /\ Phase(effects'[e].state) = "planned"
  /\ effects'[e].evidence = effects[e].evidence
  /\ started'[e] = started[e] /\ AbsenceFences(e)' = AbsenceFences(e)
NewStart(e, fence) ==
  /\ Phase(effects[e].state) = "planned" /\ Phase(effects'[e].state) = "open"
  /\ \A f \in started[e] : \E a \in AbsenceFences(e) : f <= a /\ a < fence
  /\ effects'[e].evidence = effects[e].evidence
  /\ started'[e] = started[e] \cup {fence} /\ AbsenceFences(e)' = AbsenceFences(e)
NewStage(e) ==
  /\ Unresolved(e) /\ AbsenceFences(e)' = AbsenceFences(e)
  /\ Phase(effects'[e].state) = "open"
NewAbsence(e, fence) ==
  /\ Unresolved(e) /\ AbsenceFences(e)' = AbsenceFences(e) \cup {fence}
  /\ \A f \in started[e] : f <= fence
  /\ \/ effects'[e].evidence = NoEvidence /\ Phase(effects'[e].state) = "planned"
     \/ effects'[e] = effects[e]
NewEnd(e) ==
  /\ Unresolved(e) /\ AbsenceFences(e)' = AbsenceFences(e)
  /\ Phase(effects'[e].state) = "done" /\ effects'[e].evidence \in Evidence

Changes(e) ==
  \/ Stays(e) \/ NewPlan(e) \/ NewStage(e) \/ NewEnd(e)
  \/ \E fence \in Fences : NewStart(e, fence) \/ NewAbsence(e, fence)

\* Such a change is a step of the lifecycle.
LEMMA ChangeIsStep ==
  ASSUME TypeOK, TypeOK', NEW e \in Effects, Elsewhere(e), Changes(e)
  PROVE  [Lifecycles!Next]_(Lifecycles!vars)
<1> DEFINE ph == [x \in Effects |-> Phase(effects[x].state)]
           ev == [x \in Effects |-> effects[x].evidence]
           ab == [x \in Effects |-> AbsenceFences(x)]
<1>1. /\ ph' = [x \in Effects |-> Phase(effects'[x].state)]
      /\ ev' = [x \in Effects |-> effects'[x].evidence]
      /\ ab' = [x \in Effects |-> AbsenceFences(x)']
  BY DEF Phase
<1>2. /\ ph' = [ph EXCEPT ![e] = Phase(effects'[e].state)]
      /\ ev' = [ev EXCEPT ![e] = effects'[e].evidence]
      /\ ab' = [ab EXCEPT ![e] = AbsenceFences(e)']
      /\ started' = [started EXCEPT ![e] = started'[e]]
  BY <1>1 DEF Elsewhere, TypeOK
<1>3. ph[e] = Phase(effects[e].state) /\ ev[e] = effects[e].evidence /\ ab[e] = AbsenceFences(e)
  OBVIOUS
<1>4. /\ ph = [ph EXCEPT ![e] = ph[e]] /\ ev = [ev EXCEPT ![e] = ev[e]]
      /\ ab = [ab EXCEPT ![e] = ab[e]] /\ started = [started EXCEPT ![e] = started[e]]
  BY DEF TypeOK
<1>5. effects'[e].evidence \in Evidence \cup {NoEvidence}
  BY DEF TypeOK, EffectRows
<1> HIDE DEF ph, ev, ab
<1>6. CASE Stays(e)
  <2>1. ph' = ph /\ ev' = ev /\ ab' = ab /\ started' = started
    BY <1>2, <1>3, <1>4, <1>6 DEF Stays
  <2> QED
    BY <2>1 DEF ph, ev, ab, Lifecycles!vars
<1>7. CASE NewPlan(e)
  <2>1. /\ ph[e] = "unplanned" /\ ph' = [ph EXCEPT ![e] = "planned"]
        /\ ev' = ev /\ ab' = ab /\ started' = started
    BY <1>2, <1>3, <1>4, <1>7 DEF NewPlan
  <2>2. Lifecycles!Plan(e)
    BY <2>1 DEF ph, ev, ab, Lifecycles!Plan
  <2> QED
    BY <2>2 DEF Lifecycles!Next
<1>8. ASSUME NEW fence \in Fences, NewStart(e, fence) PROVE Lifecycles!Next
  <2>1. /\ ph[e] = "planned" /\ ph' = [ph EXCEPT ![e] = "open"]
        /\ \A f \in started[e] : \E a \in ab[e] : f <= a /\ a < fence
        /\ started' = [started EXCEPT ![e] = started[e] \cup {fence}]
        /\ ev' = ev /\ ab' = ab
    BY <1>2, <1>3, <1>4, <1>8 DEF NewStart
  <2>2. Lifecycles!Start(e, fence)
    BY <2>1 DEF ph, ev, ab, Lifecycles!Start
  <2> QED
    BY <2>2 DEF Lifecycles!Next
<1>9. CASE NewStage(e)
  <2>0. PICK new \in Evidence \cup {NoEvidence} : new = effects'[e].evidence
    BY <1>5
  <2>1. /\ ph[e] = "open" /\ ev' = [ev EXCEPT ![e] = new]
        /\ ph' = ph /\ started' = started /\ ab' = ab
    BY <1>2, <1>3, <1>4, <1>9, <2>0 DEF NewStage, Unresolved
  <2>2. Lifecycles!Stage(e, new)
    BY <2>1 DEF ph, ev, ab, Lifecycles!Stage
  <2> QED
    BY <2>2 DEF Lifecycles!Next
<1>10. ASSUME NEW fence \in Fences, NewAbsence(e, fence) PROVE Lifecycles!Next
  <2>1. /\ ph[e] = "open" /\ \A f \in started[e] : f <= fence
        /\ ab' = [ab EXCEPT ![e] = ab[e] \cup {fence}]
        /\ started' = started
        /\ \/ ph' = [ph EXCEPT ![e] = "planned"] /\ ev' = [ev EXCEPT ![e] = NoEvidence]
           \/ ph' = ph /\ ev' = ev
    BY <1>2, <1>3, <1>4, <1>10 DEF NewAbsence, Unresolved
  <2>2. Lifecycles!ObserveAbsent(e, fence)
    BY <2>1 DEF ph, ev, ab, Lifecycles!ObserveAbsent
  <2> QED
    BY <2>2 DEF Lifecycles!Next
<1>11. CASE NewEnd(e)
  <2>0. PICK new \in Evidence : new = effects'[e].evidence
    BY <1>11 DEF NewEnd
  <2>1. /\ ph[e] = "open" /\ ph' = [ph EXCEPT ![e] = "done"] /\ ev' = [ev EXCEPT ![e] = new]
        /\ started' = started /\ ab' = ab
    BY <1>2, <1>3, <1>4, <1>11, <2>0 DEF NewEnd, Unresolved
  <2>2. Lifecycles!Finish(e, new)
    BY <2>1 DEF ph, ev, ab, Lifecycles!Finish
  <2> QED
    BY <2>2 DEF Lifecycles!Next
<1> QED
  BY <1>6, <1>7, <1>8, <1>9, <1>10, <1>11 DEF Changes

\* An attempt may start: the ones before were seen absent under older fences.
LEMMA EarlierAttemptsAbsent ==
  ASSUME TypeOK, AttemptInv, NEW e \in Effects, NEW fence \in Fences, NEW margin \in Nat,
         effects[e].state = "intent", HoldsFence(e, fence, margin), clock >= observed
  PROVE  \A f \in started[e] : \E a \in AbsenceFences(e) : f <= a /\ a < fence
<1> SUFFICES ASSUME NEW f \in started[e]
             PROVE  \E a \in AbsenceFences(e) : f <= a /\ a < fence
  OBVIOUS
<1>1. PICK p \in reconciliations : /\ p.effect = e /\ p.outcome = "observed_absent"
                                   /\ f <= p.fence /\ SpentFence(e, p.fence)
  BY DEF AttemptInv, PlannedIsCleared
<1>2. leases[e].fence = fence /\ leases[e].expires > observed
  BY DEF HoldsFence, TypeOK, LeaseRows
<1>3. p.fence < fence
  BY <1>1, <1>2 DEF SpentFence, TypeOK, LeaseRows
<1>4. p.fence \in AbsenceFences(e)
  BY <1>1 DEF AbsenceFences
<1> QED
  BY <1>1, <1>3, <1>4

\* What a step that does not touch the audit, or adds one row to it, does to
\* the absences.
LEMMA AbsencesMove ==
  /\ UNCHANGED reconciliations => \A x \in Effects : AbsenceFences(x)' = AbsenceFences(x)
  /\ \A row : reconciliations' = reconciliations \cup {row}
       => \A x \in Effects :
            AbsenceFences(x)' = IF row.effect = x /\ row.outcome = "observed_absent"
                                THEN AbsenceFences(x) \cup {row.fence} ELSE AbsenceFences(x)
<1>1. UNCHANGED reconciliations => \A x \in Effects : AbsenceFences(x)' = AbsenceFences(x)
  BY DEF AbsenceFences
<1>2. ASSUME NEW row, reconciliations' = reconciliations \cup {row}, NEW x \in Effects
      PROVE  AbsenceFences(x)' = IF row.effect = x /\ row.outcome = "observed_absent"
                                 THEN AbsenceFences(x) \cup {row.fence} ELSE AbsenceFences(x)
  BY <1>2 DEF AbsenceFences
<1> QED
  BY <1>1, <1>2

\* Every step of the journal is such a change of one effect, or of none.
LEMMA StepChanges ==
  ASSUME TypeOK, AttemptInv, EvidenceFollowsState, [Next]_vars
  PROVE  (\A x \in Effects : Stays(x)) \/ \E e \in Effects : Elsewhere(e) /\ Changes(e)
<1> USE DEF Changes
<1>1. ASSUME UNCHANGED <<effects, started, reconciliations>>
      PROVE  \A x \in Effects : Stays(x)
  BY <1>1, AbsencesMove DEF Stays
<1>2. ASSUME NEW r \in Runs, NEW e \in Effects, PlanEffect(r, e),
             UNCHANGED <<started, reconciliations>>
      PROVE  Elsewhere(e) /\ Changes(e)
  <2>1. /\ effects[e].state = "absent" /\ effects'[e].state = "intent"
        /\ effects'[e].evidence = NoEvidence
        /\ \A x \in Effects : x # e => effects'[x] = effects[x]
    BY <1>2 DEF PlanEffect, TypeOK
  <2>2. effects[e].evidence = NoEvidence
    BY <2>1 DEF EvidenceFollowsState
  <2> QED
    BY <1>2, <2>1, <2>2, AbsencesMove DEF Elsewhere, NewPlan, Phase
<1>3. ASSUME NEW e \in Effects, NEW fence \in Fences, NEW margin \in Nat,
             effects[e].state = "intent", HoldsFence(e, fence, margin), clock >= observed,
             SetEffect(e, "started", NoEvidence), NoteStart(e, fence),
             UNCHANGED reconciliations
      PROVE  Elsewhere(e) /\ Changes(e)
  <2>1. /\ effects'[e].state = "started" /\ effects'[e].evidence = NoEvidence
        /\ \A x \in Effects : x # e => effects'[x] = effects[x]
    BY <1>3 DEF SetEffect, TypeOK
  <2>2. /\ started'[e] = started[e] \cup {fence}
        /\ \A x \in Effects : x # e => started'[x] = started[x]
    BY <1>3 DEF NoteStart, TypeOK
  <2>3. effects[e].evidence = NoEvidence
    BY <1>3 DEF EvidenceFollowsState
  <2>4. \A f \in started[e] : \E a \in AbsenceFences(e) : f <= a /\ a < fence
    BY <1>3, EarlierAttemptsAbsent
  <2>5. NewStart(e, fence)
    BY <1>3, <2>1, <2>2, <2>3, <2>4, AbsencesMove DEF NewStart, Phase
  <2> QED
    BY <1>3, <2>1, <2>2, <2>5, AbsencesMove DEF Elsewhere
<1>4. ASSUME NEW e \in Effects, NEW state \in {"prepared", "completed", "reconciled"},
             NEW evidence \in Evidence \cup {NoEvidence},
             effects[e].state \in InProgress, SetEffect(e, state, evidence),
             state = "completed" => evidence \in Evidence,
             UNCHANGED started, \A x \in Effects : AbsenceFences(x)' = AbsenceFences(x)
      PROVE  Elsewhere(e) /\ Changes(e)
  <2>1. /\ effects'[e].state = state /\ effects'[e].evidence = evidence
        /\ \A x \in Effects : x # e => effects'[x] = effects[x]
    BY <1>4 DEF SetEffect, TypeOK
  <2>2. Elsewhere(e)
    BY <1>4, <2>1 DEF Elsewhere
  <2>3. Unresolved(e)
    BY <1>4 DEF Unresolved, Phase, InProgress
  <2>4. CASE state = "completed"
    BY <1>4, <2>1, <2>2, <2>3, <2>4 DEF NewEnd, Phase
  <2>5. CASE state # "completed"
    BY <1>4, <2>1, <2>2, <2>3, <2>5 DEF NewStage, Phase
  <2> QED
    BY <2>4, <2>5
<1>5. CASE Lifecycle
  <2>1. PICK r \in Runs, planned \in Effects \cup {NoEffect} :
          /\ \/ planned = NoEffect /\ UNCHANGED effects
             \/ planned \in Effects /\ PlanEffect(r, planned)
          /\ UNCHANGED <<started, reconciliations>>
    BY <1>5 DEF Lifecycle, Transition
  <2> QED
    BY <1>1, <1>2, <2>1
<1>6. ASSUME NEW e \in Effects, NEW w \in Workers, NEW fence \in Fences,
             NEW expected, NEW admission, NEW budget,
             BeginDispatch(e, w, fence, expected, admission, budget)
      PROVE  Elsewhere(e) /\ Changes(e)
  <2> DEFINE margin == 0
  <2>1. /\ margin \in Nat /\ effects[e].state = "intent" /\ HoldsFence(e, fence, margin)
        /\ clock >= observed /\ SetEffect(e, "started", NoEvidence) /\ NoteStart(e, fence)
        /\ UNCHANGED reconciliations
    BY <1>6 DEF BeginDispatch, Observe, HoldsReservation
  <2> HIDE DEF margin
  <2> QED
    BY <1>3, <2>1
<1>7. ASSUME NEW e \in Effects, NEW fence \in Fences, NEW target \in EffectStates,
             NEW evidence \in Evidence \cup {NoEvidence}, NEW margin \in MinimumTTLs,
             RecordEffect(e, fence, target, evidence, margin)
      PROVE  (\A x \in Effects : Stays(x)) \/ (Elsewhere(e) /\ Changes(e))
  <2>1. /\ clock >= observed /\ UNCHANGED reconciliations /\ margin \in Nat
        /\ \/ UNCHANGED <<effects, started>>
           \/ /\ HoldsFence(e, fence, margin)
              /\ <<effects[e].state, target>> \in RecordableSteps
              /\ (target = "started") <=> (evidence = NoEvidence)
              /\ SetEffect(e, target, evidence)
              /\ IF target = "started" THEN NoteStart(e, fence) ELSE UNCHANGED started
    BY <1>7, JournalConstants DEF RecordEffect, Observe
  <2>2. CASE UNCHANGED <<effects, started>>
    <3>1. UNCHANGED <<effects, started, reconciliations>>
      BY <2>1, <2>2
    <3> QED
      BY <1>1, <3>1
  <2>3. CASE /\ HoldsFence(e, fence, margin) /\ effects[e].state = "intent"
             /\ SetEffect(e, "started", NoEvidence) /\ NoteStart(e, fence)
    BY <1>3, <2>1, <2>3
  <2>4. CASE /\ effects[e].state \in InProgress /\ target \in {"prepared", "completed", "reconciled"}
             /\ SetEffect(e, target, evidence) /\ evidence \in Evidence /\ UNCHANGED started
    BY <1>4, <2>1, <2>4, AbsencesMove
  <2> QED
    BY <1>7, <2>1, <2>2, <2>3, <2>4 DEF RecordableSteps, InProgress
<1>8. ASSUME NEW e \in Effects, NEW fence, NEW prior, NEW adopted \in Evidence,
             AdoptPrepared(e, fence, prior, adopted)
      PROVE  (\A x \in Effects : Stays(x)) \/ (Elsewhere(e) /\ Changes(e))
  <2>1. /\ UNCHANGED <<started, reconciliations>> /\ effects[e].state = "prepared"
        /\ UNCHANGED effects \/ SetEffect(e, "prepared", adopted)
    BY <1>8 DEF AdoptPrepared
  <2> DEFINE prepared == "prepared"
  <2>2. CASE SetEffect(e, prepared, adopted)
    <3>1. /\ prepared \in {"prepared", "completed", "reconciled"}
          /\ effects[e].state \in InProgress
          /\ adopted \in Evidence \cup {NoEvidence}
          /\ prepared = "completed" => adopted \in Evidence
      BY <2>1 DEF InProgress
    <3> HIDE DEF prepared
    <3> QED
      BY <1>4, <2>1, <2>2, <3>1, AbsencesMove
  <2>3. CASE UNCHANGED effects
    <3>1. UNCHANGED <<effects, started, reconciliations>>
      BY <2>1, <2>3
    <3> QED
      BY <1>1, <3>1
  <2> QED
    BY <2>1, <2>2, <2>3
<1>9. ASSUME NEW e \in Effects, NEW fence \in Fences, NEW outcome \in Outcomes,
             NEW evidence \in Evidence,
             RecordReconciliation(e, fence, outcome, evidence)
      PROVE  (\A x \in Effects : Stays(x)) \/ (Elsewhere(e) /\ Changes(e))
  <2> DEFINE row == [effect |-> e, fence |-> fence, outcome |-> outcome, evidence |-> evidence]
  <2>1. /\ UNCHANGED started
        /\ \/ UNCHANGED <<effects, reconciliations>>
           \/ /\ effects[e].state \in InProgress
              /\ reconciliations' = reconciliations \cup {row}
              /\ HoldsFence(e, fence, 0) /\ ApplyOutcome(e, outcome, evidence)
    BY <1>9 DEF RecordReconciliation, InProgress
  <2>2. CASE UNCHANGED <<effects, reconciliations>>
    <3>1. UNCHANGED <<effects, started, reconciliations>>
      BY <2>1, <2>2
    <3> QED
      BY <1>1, <3>1
  <2>3. CASE /\ effects[e].state \in InProgress
             /\ reconciliations' = reconciliations \cup {row}
             /\ HoldsFence(e, fence, 0) /\ ApplyOutcome(e, outcome, evidence)
    <3>1. /\ \A x \in Effects \ {e} : AbsenceFences(x)' = AbsenceFences(x)
          /\ AbsenceFences(e)' = IF outcome = "observed_absent"
                                 THEN AbsenceFences(e) \cup {fence} ELSE AbsenceFences(e)
      <4>1. row.effect = e /\ row.outcome = outcome /\ row.fence = fence
        OBVIOUS
      <4> HIDE DEF row
      <4> QED
        BY <2>3, <4>1, AbsencesMove
    <3>2. CASE outcome = "observed_absent"
      <4>1. \/ effects[e].state = "prepared" /\ UNCHANGED effects
            \/ SetEffect(e, "intent", NoEvidence)
        BY <2>3, <3>2 DEF ApplyOutcome
      <4>2. /\ \A x \in Effects : x # e => effects'[x] = effects[x]
            /\ \/ effects'[e] = effects[e]
               \/ effects'[e].state = "intent" /\ effects'[e].evidence = NoEvidence
        BY <4>1 DEF SetEffect, TypeOK
      <4>3. \A f \in started[e] : f <= fence
        BY <2>3 DEF HoldsFence, AttemptInv, FencesInOrder
      <4>4. NewAbsence(e, fence)
        BY <2>1, <2>3, <3>1, <3>2, <4>2, <4>3 DEF NewAbsence, Unresolved, Phase, InProgress
      <4> QED
        BY <2>1, <3>1, <4>2, <4>4 DEF Elsewhere
    <3>3. ASSUME NEW state \in {"completed", "reconciled"}, NEW ev \in Evidence \cup {NoEvidence},
                 outcome # "observed_absent", SetEffect(e, state, ev),
                 state = "completed" => ev \in Evidence
          PROVE  Elsewhere(e) /\ Changes(e)
      <4>1. \A x \in Effects : AbsenceFences(x)' = AbsenceFences(x)
        BY <3>1, <3>3
      <4> QED
        BY <1>4, <2>1, <2>3, <3>3, <4>1
    <3>4. CASE outcome = "observed_completed"
      <4> DEFINE state == "completed"
      <4>1. /\ state \in {"completed", "reconciled"} /\ SetEffect(e, state, evidence)
            /\ outcome # "observed_absent" /\ evidence \in Evidence \cup {NoEvidence}
        BY <2>3, <3>4 DEF ApplyOutcome
      <4> HIDE DEF state
      <4> QED
        BY <3>3, <4>1
    <3>5. CASE outcome = "unknown"
      <4> DEFINE state == "reconciled"
                 ev == NoEvidence
      <4>1. /\ state \in {"completed", "reconciled"} /\ SetEffect(e, state, ev)
            /\ outcome # "observed_absent" /\ ev \in Evidence \cup {NoEvidence}
            /\ state # "completed"
        BY <2>3, <3>5 DEF ApplyOutcome
      <4> HIDE DEF state, ev
      <4> QED
        BY <3>3, <4>1
    <3> QED
      BY <3>2, <3>4, <3>5 DEF Outcomes
  <2> QED
    BY <2>1, <2>2, <2>3
<1>10. CASE UNCHANGED vars \/ Tick \/ StepBack \/ Refused
  BY <1>1, <1>10 DEF vars, Tick, StepBack, Refused
<1>11. ASSUME NEW e \in Effects, Authority(e)
       PROVE  (\A x \in Effects : Stays(x)) \/ (Elsewhere(e) /\ Changes(e))
  <2>1. ASSUME NEW w, NEW ttl, AcquireAttempt(e, w, ttl)
        PROVE  \A x \in Effects : Stays(x)
    <3>1. UNCHANGED <<effects, started, reconciliations>>
      BY <2>1 DEF AcquireAttempt
    <3> QED
      BY <1>1, <3>1
  <2>2. ASSUME NEW w, NEW fence, NEW expected, NEW admission, NEW evidence, NEW budget,
               BeginPreparedCommit(e, w, fence, expected, admission, evidence, budget)
        PROVE  \A x \in Effects : Stays(x)
    <3>1. UNCHANGED <<effects, started, reconciliations>>
      BY <2>2 DEF BeginPreparedCommit
    <3> QED
      BY <1>1, <3>1
  <2> HIDE DEF Changes
  <2> QED
    BY <1>6, <1>7, <1>8, <1>9, <1>11, <2>1, <2>2 DEF Authority
<1> HIDE DEF Changes
<1> QED
  BY <1>5, <1>10, <1>11 DEF Next

\* The journal implements the effect lifecycle: no second attempt while the
\* first is unresolved or unless it was seen absent, nothing after completion.
THEOREM JournalImplementsLifecycle == Spec => ImplementsEffectLifecycle
<1>1. Init => Lifecycles!Init
  <2> SUFFICES ASSUME Init PROVE Lifecycles!Init
    OBVIOUS
  <2>1. /\ \A e \in Effects : effects[e] = NoEffectRow /\ AbsenceFences(e) = {}
        /\ started = [e \in Effects |-> {}]
    BY DEF Init, AbsenceFences
  <2>2. Phase(NoEffectRow.state) = "unplanned" /\ NoEffectRow.evidence = NoEvidence
    BY DEF NoEffectRow, Phase
  <2> QED
    BY <2>1, <2>2 DEF Lifecycles!Init
<1>2. /\ TypeOK /\ TypeOK' /\ AttemptInv /\ RowInv /\ [Next]_vars
      => [Lifecycles!Next]_(Lifecycles!vars)
  <2> SUFFICES ASSUME TypeOK, TypeOK', AttemptInv, RowInv, [Next]_vars
               PROVE  [Lifecycles!Next]_(Lifecycles!vars)
    OBVIOUS
  <2>1. CASE \A x \in Effects : Stays(x)
    <3>1. UNCHANGED <<[e \in Effects |-> Phase(effects[e].state)],
                      [e \in Effects |-> effects[e].evidence], started,
                      [e \in Effects |-> AbsenceFences(e)]>>
      BY <2>1 DEF Stays, TypeOK
    <3> QED
      BY <3>1 DEF Lifecycles!vars
  <2>2. CASE \E e \in Effects : Elsewhere(e) /\ Changes(e)
    BY <2>2, ChangeIsStep
  <2> QED
    BY <2>1, <2>2, StepChanges DEF RowInv
<1> QED
  BY <1>1, <1>2, TypeCorrect, AttemptsConsistent, RowsCorrect, PTL
  DEF Spec, ImplementsEffectLifecycle, Lifecycles!Spec
=============================================================================
