---------------------------- MODULE StateMachine ----------------------------
(***************************************************************************)
(* The lifecycle of a governed delivery run (state_machine.py): which      *)
(* event is accepted in which state, where it leads, and which structured  *)
(* record its context must carry.  Pure data: the journal stores the       *)
(* current state and applies these edges.                                  *)
(***************************************************************************)
EXTENDS Integers

\* RunState, in the order of the forward path, then the recovery states.
Stages == << "new", "discovery", "requirements", "gate_1", "design",
             "modules", "gate_2", "planning", "gate_3", "implementation",
             "verification", "test", "production_authorization", "prod",
             "acceptance", "completed" >>

RecoveryStates == {"incident", "correction", "rollback", "safe_checkpoint"}

RunStates == {Stages[i] : i \in 1..16} \cup RecoveryStates

\* RunEvent: StageEvents[i] leads from Stages[i] to Stages[i + 1].
StageEvents == << "DISCOVER", "DRAFT_REQUIREMENTS", "APPROVE_GATE_1",
                  "DESIGN", "DEFINE_MODULES", "APPROVE_GATE_2", "PLAN",
                  "APPROVE_GATE_3", "IMPLEMENT", "VERIFY", "RELEASE_TEST",
                  "REQUEST_PRODUCTION", "RELEASE_PRODUCTION", "ACCEPT",
                  "APPROVE_GATE_4" >>

\* _INCIDENT_EVENTS
IncidentEvents == {"RECORD_INCIDENT", "CORRECT", "ROLLBACK",
                   "ENTER_SAFE_CHECKPOINT"}

RunEvents == {StageEvents[i] : i \in 1..15}
               \cup IncidentEvents \cup {"INVALIDATE_DEPENDENCY"}

Edge(from, event, to) == [from |-> from, event |-> event, to |-> to]

\* _FORWARD_TRANSITIONS
ForwardTransitions ==
  {Edge(Stages[i], StageEvents[i], Stages[i + 1]) : i \in 1..15}

\* _INVALIDATABLE_STATES and _INCIDENT_ORIGINS
InvalidatableStates ==
  RunStates \ {"new", "discovery", "completed", "safe_checkpoint",
               "incident", "rollback"}

IncidentOrigins == {Stages[i] : i \in 10..15}

\* Slip: a correction resumes at verification.
ResumingTransitions ==
  {Edge("correction", "VERIFY", "verification"),
   Edge("incident", "CORRECT", "correction")}
  \cup {Edge(s, "RECORD_INCIDENT", "incident") : s \in IncidentOrigins}

\* _RECOVERY_TRANSITIONS
RecoveryTransitions ==
  {Edge(s, "INVALIDATE_DEPENDENCY", "safe_checkpoint") :
       s \in InvalidatableStates}
  \cup {Edge(s, "RECORD_INCIDENT", "incident") : s \in IncidentOrigins}
  \cup {Edge("incident", "CORRECT", "correction"),
        Edge("incident", "ROLLBACK", "rollback"),
        Edge("correction", "ROLLBACK", "rollback"),
        Edge("correction", "ENTER_SAFE_CHECKPOINT", "safe_checkpoint"),
        Edge("rollback", "ENTER_SAFE_CHECKPOINT", "safe_checkpoint")}

Transitions == ForwardTransitions \cup RecoveryTransitions

(***************************************************************************)
(* The record next_state() demands of the caller's context.  A context is  *)
(* abstracted to the set of well-formed structured records it carries; a   *)
(* missing, blank or wrongly typed record is one that is not in the set.   *)
(***************************************************************************)
RecordKinds == {"invalidated_dependency", "incident_record"}

RequiredRecords(event) ==
  {k \in RecordKinds :
     \/ k = "invalidated_dependency" /\ event = "INVALIDATE_DEPENDENCY"
     \/ k = "incident_record" /\ event \in IncidentEvents}

\* StateMachine.next_state: empty when it raises InvalidTransition.
NextStates(state, event, context) ==
  {edge.to : edge \in {t \in Transitions :
                         /\ t.from = state
                         /\ t.event = event
                         /\ RequiredRecords(event) \subseteq context}}
=============================================================================
