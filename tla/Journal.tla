------------------------------- MODULE Journal -------------------------------
(***************************************************************************)
(* The durable run journal (journal.py): runs and their event log, the     *)
(* effects they plan, the fenced lease of each effect, and the audit of    *)
(* reconciliations.  Every write operation is one SQLite transaction       *)
(* (BEGIN IMMEDIATE ... COMMIT), so it is one action here; its arguments   *)
(* are free, because any process that can open the file may call it with   *)
(* whatever it remembers.                                                  *)
(*                                                                         *)
(* Operations that depend on lease time go through _authority_transaction: *)
(* they read the wall clock, refuse a clock behind the persisted           *)
(* watermark, and commit the new watermark even when the operation itself  *)
(* is refused.                                                             *)
(***************************************************************************)
EXTENDS StateMachine, Sequences

CONSTANTS
  Runs, Effects, Workers,   \* run_id, effect_id and worker_id values
  Evidence,                 \* evidence references
  NoRun, NoEffect, NoWorker, NoEvidence,
  OfferedEvents,            \* the lifecycle events callers ask for
  LeaseTTLs,                \* ttl arguments of acquire_attempt
  ExecutionBudgets,         \* timeout + termination + commit of begin_dispatch
  CommitBudgets,            \* commit_budget of begin_prepared_commit
  MinimumTTLs,              \* minimum_lease_ttl of record_effect
  MaxTime, MaxRevision, MaxFence   \* bounds of the counters

ASSUME JournalConstants ==
  /\ NoRun \notin Runs /\ NoEffect \notin Effects
  /\ NoWorker \notin Workers /\ NoEvidence \notin Evidence
  /\ OfferedEvents \subseteq RunEvents
  /\ LeaseTTLs \subseteq Nat /\ ExecutionBudgets \subseteq Nat \ {0}
  /\ CommitBudgets \subseteq Nat \ {0}
  /\ MinimumTTLs \subseteq Nat
  /\ MaxTime \in Nat /\ MaxRevision \in Nat /\ MaxFence \in Nat

VARIABLES
  clock,            \* what the host's wall clock reads; it may step back
  observed,         \* journal_metadata.last_observed_time
  runs,             \* row of the runs table; revision 0 means no row
  log,              \* the events rows of a run, in insertion order
  effects,          \* row of the effects table
  leases,           \* row of the leases table; fence 0 means no row
  reconciliations,  \* rows of the reconciliations table
  started           \* history: the fences under which an effect was STARTED, 0
                    \* for an attempt of an older release that left no lease

vars == <<clock, observed, runs, log, effects, leases, reconciliations, started>>

EffectStates == {"intent", "started", "prepared", "completed", "reconciled"}
Outcomes == {"observed_completed", "observed_absent", "unknown"}

NoEffectRow == [run |-> NoRun, state |-> "absent", evidence |-> NoEvidence]
NoLease == [worker |-> NoWorker, fence |-> 0, expires |-> 0]

Init ==
  /\ clock = 0
  /\ observed = 0
  /\ runs = [r \in Runs |-> [state |-> "new", revision |-> 0]]
  /\ log = [r \in Runs |-> << >>]
  /\ effects = [e \in Effects |-> NoEffectRow]
  /\ leases = [e \in Effects |-> NoLease]
  /\ reconciliations = {}
  /\ started = [e \in Effects |-> {}]

-----------------------------------------------------------------------------
(* The environment's clock. *)

Tick == /\ clock < MaxTime
        /\ clock' = clock + 1
        /\ UNCHANGED <<observed, runs, log, effects, leases, reconciliations, started>>

StepBack == /\ clock' \in 0 .. (clock - 1)
            /\ UNCHANGED <<observed, runs, log, effects, leases, reconciliations, started>>

-----------------------------------------------------------------------------
(* transition(): compare-and-set on the revision, one lifecycle edge, one  *)
(* event row and, when the request carries an effect, its INTENT row.  A   *)
(* refused transition rolls back whole.  It never reads the watermark.     *)

\* Slip: the row records where the run was.
AppendOldState(r, event, context, next) ==
  log' = [log EXCEPT ![r] = Append(@, [revision |-> runs[r].revision + 1,
                                       event    |-> event,
                                       state    |-> runs[r].state,
                                       context  |-> context])]

AppendEvent(r, event, context, next) ==
  log' = [log EXCEPT ![r] = Append(@, [revision |-> runs[r].revision + 1,
                                       event    |-> event,
                                       state    |-> next,
                                       context  |-> context])]

PlanEffect(r, e) ==
  /\ effects[e].state = "absent"
  /\ effects' = [effects EXCEPT ![e] = [run      |-> r,
                                        state    |-> "intent",
                                        evidence |-> NoEvidence]]

Transition(r, expected, event, context, planned) ==
  /\ runs[r].revision = expected
  /\ expected < MaxRevision
  /\ \E next \in NextStates(runs[r].state, event, context) :
       /\ runs' = [runs EXCEPT ![r] = [state    |-> next,
                                       revision |-> expected + 1]]
       /\ AppendEvent(r, event, context, next)
  /\ \/ planned = NoEffect /\ UNCHANGED effects
     \/ planned \in Effects /\ PlanEffect(r, planned)
  /\ UNCHANGED <<clock, observed, leases, reconciliations, started>>

-----------------------------------------------------------------------------
(* _authority_transaction and the lease test shared by the operations.     *)

\* Slip: a clock behind the watermark is believed.
ObserveAnyClock == observed' = clock

Observe == /\ clock >= observed
           /\ observed' = clock

\* Slip: the fence is compared and its expiry forgotten.
HoldsFenceForever(e, fence, margin) == leases[e].fence = fence

HoldsFence(e, fence, margin) ==
  /\ leases[e].fence = fence
  /\ leases[e].expires > clock + margin

HoldsReservation(e, w, fence) ==
  /\ HoldsFence(e, fence, 0)
  /\ leases[e].worker = w

\* A refused call: the mutation is rolled back to the savepoint, the
\* watermark is kept.  (A call on an unknown effect is always refused.)
Refused ==
  /\ Observe
  /\ UNCHANGED <<clock, runs, log, effects, leases, reconciliations, started>>

\* Slips: a live lease is taken over, or an attempt is made at a completed
\* effect.
AcquireOverHolder(e, w, ttl) ==
  /\ Observe
  /\ effects[e].state \in EffectStates \ {"completed"}
  /\ leases[e].fence < MaxFence
  /\ leases' = [leases EXCEPT ![e] = [worker  |-> w,
                                      fence   |-> @.fence + 1,
                                      expires |-> clock + ttl]]
  /\ UNCHANGED <<clock, runs, log, effects, reconciliations, started>>

AcquireCompleted(e, w, ttl) ==
  /\ Observe
  /\ effects[e].state \in EffectStates
  /\ leases[e].expires <= clock
  /\ leases[e].fence < MaxFence
  /\ leases' = [leases EXCEPT ![e] = [worker  |-> w,
                                      fence   |-> @.fence + 1,
                                      expires |-> clock + ttl]]
  /\ UNCHANGED <<clock, runs, log, effects, reconciliations, started>>

\* acquire_attempt: the holder of a live lease gets it back unchanged, any
\* other worker is refused, and an expired lease is taken under a new fence.
AcquireAttempt(e, w, ttl) ==
  /\ Observe
  /\ effects[e].state \in EffectStates \ {"completed"}
  /\ \/ /\ leases[e].expires > clock
        /\ leases[e].worker = w
        /\ UNCHANGED leases
     \/ /\ leases[e].expires <= clock
        /\ leases[e].fence < MaxFence
        /\ leases' = [leases EXCEPT ![e] = [worker  |-> w,
                                            fence   |-> @.fence + 1,
                                            expires |-> clock + ttl]]
  /\ UNCHANGED <<clock, runs, log, effects, reconciliations, started>>

SetEffect(e, state, evidence) ==
  effects' = [effects EXCEPT ![e] = [run      |-> @.run,
                                     state    |-> state,
                                     evidence |-> evidence]]

NoteStart(e, fence) == started' = [started EXCEPT ![e] = @ \cup {fence}]

Extend(e, budget) ==
  leases' = [leases EXCEPT ![e] = [worker  |-> @.worker,
                                   fence   |-> @.fence,
                                   expires |-> clock + budget]]

\* Slip: STARTED without a lease that lasts for the execution.
BeginUnanchored(e, w, fence, expected, admission, budget) ==
  /\ Observe
  /\ effects[e].state = "intent"
  /\ runs[effects[e].run] = expected
  /\ clock < admission
  /\ HoldsReservation(e, w, fence)
  /\ SetEffect(e, "started", NoEvidence)
  /\ NoteStart(e, fence)
  /\ UNCHANGED <<clock, runs, log, leases, reconciliations>>

\* begin_dispatch: STARTED and the lease of the whole execution, atomically.
BeginDispatch(e, w, fence, expected, admission, budget) ==
  /\ Observe
  /\ effects[e].state = "intent"
  /\ runs[effects[e].run] = expected
  /\ clock < admission
  /\ HoldsReservation(e, w, fence)
  /\ SetEffect(e, "started", NoEvidence)
  /\ NoteStart(e, fence)
  /\ Extend(e, budget)
  /\ UNCHANGED <<clock, runs, log, reconciliations>>

\* begin_prepared_commit: a lease for the commit of an adopted stage.
BeginPreparedCommit(e, w, fence, expected, admission, evidence, budget) ==
  /\ Observe
  /\ effects[e].state = "prepared"
  /\ runs[effects[e].run] = expected
  /\ effects[e].evidence = evidence
  /\ clock < admission
  /\ HoldsReservation(e, w, fence)
  /\ Extend(e, budget)
  /\ UNCHANGED <<clock, runs, log, effects, reconciliations, started>>

-----------------------------------------------------------------------------
\* Slips: an uncertain effect may be started, a planned one completed.
StepsRestarting == {<<"intent", "started">>, <<"started", "prepared">>,
                    <<"started", "completed">>, <<"prepared", "completed">>,
                    <<"reconciled", "started">>}

StepsUnstarted == {<<"intent", "started">>, <<"started", "prepared">>,
                   <<"started", "completed">>, <<"prepared", "completed">>,
                   <<"intent", "completed">>}

\* record_effect's table of allowed steps.
RecordableSteps == {<<"intent", "started">>, <<"started", "prepared">>,
                    <<"started", "completed">>, <<"prepared", "completed">>}

\* The target is already recorded with this evidence: accepted, no change.
\* A terminal effect asks for its fence only, any other for a live lease.
AlreadyRecorded(e, fence, target, evidence, margin) ==
  /\ effects[e].state = target
  /\ effects[e].evidence = evidence
  /\ \/ target \in {"completed", "reconciled"} /\ leases[e].fence = fence
     \/ HoldsFence(e, fence, margin)

RecordEffect(e, fence, target, evidence, margin) ==
  /\ Observe
  /\ \/ /\ AlreadyRecorded(e, fence, target, evidence, margin)
        /\ UNCHANGED <<effects, started>>
     \/ /\ HoldsFence(e, fence, margin)
        /\ <<effects[e].state, target>> \in RecordableSteps
        /\ (target = "started") <=> (evidence = NoEvidence)
        /\ SetEffect(e, target, evidence)
        /\ IF target = "started" THEN NoteStart(e, fence) ELSE UNCHANGED started
  /\ UNCHANGED <<clock, runs, log, leases, reconciliations>>

\* adopt_prepared: the current fence rebinds a stage an earlier one left.
AdoptPrepared(e, fence, prior, adopted) ==
  /\ Observe
  /\ effects[e].state = "prepared"
  /\ \/ /\ effects[e].evidence = adopted
        /\ leases[e].fence = fence
        /\ UNCHANGED effects
     \/ /\ effects[e].evidence # adopted
        /\ effects[e].evidence = prior
        /\ HoldsFence(e, fence, 0)
        /\ SetEffect(e, "prepared", adopted)
  /\ UNCHANGED <<clock, runs, log, leases, reconciliations, started>>

-----------------------------------------------------------------------------
\* record_reconciliation: one immutable outcome per fence.  An effect that
\* was observed absent goes back to INTENT, except that a PREPARED one keeps
\* its stage, and the reconciler's own lease ends at once either way.
Audit(e, fence) == {p \in reconciliations : p.effect = e /\ p.fence = fence}

\* Slips: the lease is dated before its row, the reconciler keeps its lease,
\* an uncertain effect keeps its evidence, or counts as completed.
ApplyBackdating(e, outcome, evidence) ==
  /\ outcome = "observed_absent"
  /\ SetEffect(e, "intent", NoEvidence)
  /\ Extend(e, -1)

ApplyKeepingLease(e, outcome, evidence) ==
  /\ outcome = "observed_absent"
  /\ SetEffect(e, "intent", NoEvidence)
  /\ UNCHANGED leases

ApplyKeepingEvidence(e, outcome, evidence) ==
  /\ outcome = "unknown"
  /\ SetEffect(e, "reconciled", effects[e].evidence)
  /\ UNCHANGED leases

ApplyAlwaysCompleted(e, outcome, evidence) ==
  /\ SetEffect(e, "completed", evidence)
  /\ UNCHANGED leases

ApplyOutcome(e, outcome, evidence) ==
  \/ /\ outcome = "observed_completed"
     /\ SetEffect(e, "completed", evidence)
     /\ UNCHANGED leases
  \/ /\ outcome = "observed_absent"
     /\ IF effects[e].state = "prepared" THEN UNCHANGED effects
                                         ELSE SetEffect(e, "intent", NoEvidence)
     /\ Extend(e, 0)
  \/ /\ outcome = "unknown"
     /\ SetEffect(e, "reconciled", NoEvidence)
     /\ UNCHANGED leases

RecordReconciliation(e, fence, outcome, evidence) ==
  LET row == [effect |-> e, fence |-> fence, outcome |-> outcome, evidence |-> evidence]
  IN
  /\ Observe
  /\ \/ /\ row \in reconciliations
        /\ UNCHANGED <<effects, leases, reconciliations>>
     \/ /\ Audit(e, fence) = {}
        /\ effects[e].state \in {"started", "prepared", "reconciled"}
        /\ HoldsFence(e, fence, 0)
        /\ reconciliations' = reconciliations \cup {row}
        /\ ApplyOutcome(e, outcome, evidence)
  /\ UNCHANGED <<clock, runs, log, started>>

-----------------------------------------------------------------------------
Fences == 1 .. MaxFence

\* A caller's request carries only the records its event calls for, or none.
Lifecycle ==
  \E r \in Runs, expected \in 0 .. MaxRevision, event \in OfferedEvents,
     planned \in Effects \cup {NoEffect} :
    \E context \in SUBSET RequiredRecords(event) :
      Transition(r, expected, event, context, planned)

\* The snapshots, grants and fences callers present are whatever they
\* remember; a mismatch is a Refused call.
Authority(e) ==
  \/ \E w \in Workers :
       \/ \E ttl \in LeaseTTLs : AcquireAttempt(e, w, ttl)
       \/ \E fence \in Fences, r \in Runs, admission \in 0 .. (MaxTime + 1) :
            \/ \E budget \in ExecutionBudgets :
                 BeginDispatch(e, w, fence, runs[r], admission, budget)
            \/ \E budget \in CommitBudgets, evidence \in Evidence :
                 BeginPreparedCommit(e, w, fence, runs[r], admission, evidence, budget)
  \/ \E fence \in Fences :
       \/ \E target \in EffectStates, evidence \in Evidence \cup {NoEvidence},
             margin \in MinimumTTLs :
            RecordEffect(e, fence, target, evidence, margin)
       \/ \E prior, adopted \in Evidence : AdoptPrepared(e, fence, prior, adopted)
       \/ \E outcome \in Outcomes, evidence \in Evidence :
            RecordReconciliation(e, fence, outcome, evidence)

Next == \/ Tick
        \/ StepBack
        \/ Lifecycle
        \/ Refused
        \/ \E e \in Effects : Authority(e)

Spec == Init /\ [][Next]_vars

-----------------------------------------------------------------------------
(* What the journal guarantees, whoever calls it. *)

RunRows == [state : RunStates, revision : 0 .. MaxRevision]
EventRows == [revision : 1 .. MaxRevision, event : RunEvents,
              state : RunStates, context : SUBSET RecordKinds]
EffectRows == [run : Runs \cup {NoRun}, state : EffectStates \cup {"absent"},
               evidence : Evidence \cup {NoEvidence}]
LeaseRows == [worker : Workers \cup {NoWorker}, fence : 0 .. MaxFence, expires : Nat]
AuditRows == [effect : Effects, fence : Fences, outcome : Outcomes, evidence : Evidence]

\* Every table holds rows of its schema.
TypeOK ==
  /\ clock \in 0 .. MaxTime /\ observed \in 0 .. MaxTime
  /\ runs \in [Runs -> RunRows]
  /\ log \in [Runs -> Seq(EventRows)]
  /\ effects \in [Effects -> EffectRows]
  /\ leases \in [Effects -> LeaseRows]
  /\ reconciliations \subseteq AuditRows
  /\ started \in [Effects -> SUBSET (0 .. MaxFence)]

\* The event log is the run's history: revisions are contiguous, every event
\* follows a lifecycle edge from the state the previous one left, carries the
\* record that edge demands, and the run row is where the log ends
\* (transition() writes both in one transaction).
StateBefore(r, i) == IF i = 1 THEN "new" ELSE log[r][i - 1].state

LogExplainsRun ==
  \A r \in Runs :
    /\ Len(log[r]) = runs[r].revision
    /\ runs[r].state = StateBefore(r, Len(log[r]) + 1)
    /\ \A i \in 1 .. Len(log[r]) :
         /\ log[r][i].revision = i
         /\ log[r][i].state \in NextStates(StateBefore(r, i), log[r][i].event,
                                          log[r][i].context)

\* A run is in production or completed only at the end of the whole forward
\* path: every gate approval and both release steps, in order, and no incident
\* or invalidation on the way (no recovery edge leads back to a stage).
ProductionNeedsEveryGate ==
  \A r \in Runs :
    runs[r].state \in {"prod", "acceptance", "completed"}
      => \A i \in 1 .. Len(log[r]) : log[r][i].event = StageEvents[i]

\* The CHECK constraint of the effects table: evidence exactly with PREPARED
\* and COMPLETED, whatever mix of recording, adoption and reconciliation led
\* there.
EvidenceFollowsState ==
  \A e \in Effects :
    effects[e].evidence # NoEvidence <=> effects[e].state \in {"prepared", "completed"}

\* The UNIQUE constraint of the audit: no fence ever reports two outcomes.
OneOutcomePerFence ==
  \A p, q \in reconciliations : p.effect = q.effect /\ p.fence = q.fence => p = q

ClearedBetween(e, f, g) ==
  \E p \in reconciliations : /\ p.effect = e
                             /\ p.outcome = "observed_absent"
                             /\ f <= p.fence /\ p.fence < g

\* No silent duplicate side effect: an effect that was started once is started
\* again only under a later fence, and only after the audit holds a probe that
\* observed it absent under a fence in between.
RestartOnlyAfterAbsence ==
  \A e \in Effects : \A f, g \in started[e] : f < g => ClearedBetween(e, f, g)

\* An effect that may be dispatched has every earlier attempt observed absent,
\* and the fence that reported it cannot dispatch it again: a newer fence has
\* replaced it or its lease is spent (OBSERVED_ABSENT ends its own lease).
SpentFence(e, fence) == fence < leases[e].fence \/ leases[e].expires <= observed

PlannedIsCleared ==
  \A e \in Effects :
    effects[e].state = "intent" =>
      \A f \in started[e] :
        \E p \in reconciliations : /\ p.effect = e
                                   /\ p.outcome = "observed_absent"
                                   /\ f <= p.fence
                                   /\ SpentFence(e, p.fence)

\* Nothing is in flight, staged, uncertain or completed that was never started,
\* and nothing was started that was never planned.
StartedIffResolving ==
  \A e \in Effects :
    /\ effects[e].state \in {"started", "prepared", "completed", "reconciled"}
         => started[e] # {}
    /\ effects[e].state = "absent" => started[e] = {}

\* No attempt and no audit row is ahead of the fence last granted.
FencesInOrder ==
  \A e \in Effects :
    /\ \A f \in started[e] : f <= leases[e].fence
    /\ \A p \in reconciliations : p.effect = e => p.fence <= leases[e].fence

\* The inductive strengthening of RestartOnlyAfterAbsence.
AttemptInv == /\ FencesInOrder
              /\ StartedIffResolving
              /\ PlannedIsCleared
              /\ RestartOnlyAfterAbsence

\* Two workers never hold one effect at once: the lease changes hands only
\* after the former holder's expiry has been observed, and then the fence
\* grows, so the former holder can no longer match it.
TakeoverOnlyAfterExpiry ==
  [][\A e \in Effects :
       leases'[e].worker # leases[e].worker \/ leases'[e].fence # leases[e].fence
         => /\ leases[e].expires <= observed'
            /\ leases'[e].fence > leases[e].fence]_vars

\* A lease once observed expired stays dead for its fence, even when the wall
\* clock steps back: no extension revives it.
ExpiredLeaseStaysDead ==
  [][\A e \in Effects :
       leases[e].expires <= observed /\ leases'[e].fence = leases[e].fence
         => leases'[e].expires <= observed']_vars

\* An effect row is only ever changed under a lease that is live when the
\* change is made: a caller whose fence is stale or expired changes nothing.
ChangedOnlyUnderLiveLease ==
  [][\A e \in Effects :
       effects'[e] # effects[e] /\ effects[e].state # "absent"
         => leases[e].expires > observed' /\ leases[e].fence > 0]_vars

\* A completed effect is final: its row, its lease and its audit are frozen.
CompletedIsFinal ==
  [][\A e \in Effects :
       effects[e].state = "completed"
         => /\ effects'[e] = effects[e]
            /\ leases'[e] = leases[e]
            /\ {p \in reconciliations' : p.effect = e}
                 = {p \in reconciliations : p.effect = e}
            /\ started'[e] = started[e]]_vars
=============================================================================
