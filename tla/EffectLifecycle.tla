--------------------------- MODULE EffectLifecycle ---------------------------
(***************************************************************************)
(* What the journal promises about one side effect, without runs, clocks,  *)
(* workers or leases: an attempt is started under a fence of its own, and  *)
(* while its outcome is open no other attempt starts; only an audited      *)
(* observation that the effect is absent reopens it; completion is final.  *)
(***************************************************************************)
EXTENDS Integers

CONSTANTS Effects, Evidence, NoEvidence, Fences

VARIABLES
  phase,      \* "unplanned", "planned", "open" or "done"
  evidence,   \* the evidence the effect row carries
  attempts,   \* fences under which an attempt was started
  absences    \* fences under which the effect was observed absent

vars == <<phase, evidence, attempts, absences>>

Init == /\ phase = [e \in Effects |-> "unplanned"]
        /\ evidence = [e \in Effects |-> NoEvidence]
        /\ attempts = [e \in Effects |-> {}]
        /\ absences = [e \in Effects |-> {}]

Plan(e) == /\ phase[e] = "unplanned"
           /\ phase' = [phase EXCEPT ![e] = "planned"]
           /\ UNCHANGED <<evidence, attempts, absences>>

\* A new attempt: every earlier one has been observed absent before it.
Start(e, fence) ==
  /\ phase[e] = "planned"
  /\ \A f \in attempts[e] : \E a \in absences[e] : f <= a /\ a < fence
  /\ phase' = [phase EXCEPT ![e] = "open"]
  /\ attempts' = [attempts EXCEPT ![e] = @ \cup {fence}]
  /\ UNCHANGED <<evidence, absences>>

\* The open attempt stages a result, adopts a stage or loses track of one.
Stage(e, ev) ==
  /\ phase[e] = "open"
  /\ evidence' = [evidence EXCEPT ![e] = ev]
  /\ UNCHANGED <<phase, attempts, absences>>

\* A probe finds the effect absent; the attempt may be reopened, or, when a
\* stage survives, stay open.
ObserveAbsent(e, fence) ==
  /\ phase[e] = "open"
  /\ \A f \in attempts[e] : f <= fence
  /\ absences' = [absences EXCEPT ![e] = @ \cup {fence}]
  /\ \/ /\ phase' = [phase EXCEPT ![e] = "planned"]
        /\ evidence' = [evidence EXCEPT ![e] = NoEvidence]
     \/ UNCHANGED <<phase, evidence>>
  /\ UNCHANGED attempts

Finish(e, ev) ==
  /\ phase[e] = "open"
  /\ phase' = [phase EXCEPT ![e] = "done"]
  /\ evidence' = [evidence EXCEPT ![e] = ev]
  /\ UNCHANGED <<attempts, absences>>

Next == \E e \in Effects :
          \/ Plan(e)
          \/ \E fence \in Fences : Start(e, fence) \/ ObserveAbsent(e, fence)
          \/ \E ev \in Evidence \cup {NoEvidence} : Stage(e, ev)
          \/ \E ev \in Evidence : Finish(e, ev)

Spec == Init /\ [][Next]_vars
=============================================================================
