---------------------------- MODULE DispatchProofs ----------------------------
(***************************************************************************)
(* What a broker thread's step does to the journal's rows.  Every journal  *)
(* operation is reduced to what it does to one effect: nothing (Rests),    *)
(* a takeover of an expired lease (Takes), or a change under a live one    *)
(* (Works).  The theorems about brokers follow from these moves and from   *)
(* what the thread keeps in memory.                                        *)
(***************************************************************************)
EXTENDS Dispatch, JournalProofs

Pcs == {"idle", "context", "granted", "checked", "admitted", "started", "running",
        "effective", "exported", "staged", "bound", "cleared", "rebound", "applying",
        "finishing", "adopted", "probing"} \cup Outcomes

\* The rows and the threads' memory are of their types.
RowsTyped ==
  /\ clock \in Nat /\ observed \in Nat
  /\ effects \in [Effects -> EffectRows]
  /\ leases \in [Effects -> LeaseRows]
  /\ \A e \in Effects : leases[e].fence = 0 => leases[e].expires = 0
  /\ started \in [Effects -> SUBSET Fences]

JobOK(j) ==
  /\ j.pc \in Pcs
  /\ j.fence \in 0 .. MaxFence /\ j.elapsed \in Nat
  /\ j.ref \in Evidence \cup {NoEvidence}
  /\ j.pc # "idle" => j.effect \in Effects
  /\ j.pc \notin {"idle", "context"} => j.fence \in Fences

JobsTyped ==
  /\ job = [d \in Dispatchers |-> job[d]]
  /\ \A d \in Dispatchers : JobOK(job[d])

HistoryTyped ==
  /\ deployment \in Deployments
  /\ applied \in [Effects -> Nat]
  /\ launched \in [Effects -> SUBSET (Dispatchers \X Fences)]

DispatchTyped == RowsTyped /\ JobsTyped /\ HistoryTyped

-----------------------------------------------------------------------------
(* The journal's operations as moves. *)

Rests(e) == effects'[e] = effects[e] /\ leases'[e] = leases[e] /\ started'[e] = started[e]

Takes(e, w) ==
  /\ effects'[e] = effects[e] /\ started'[e] = started[e]
  /\ effects[e].state # "absent"
  /\ leases[e].expires <= clock
  /\ leases'[e].worker = w /\ leases'[e].fence = leases[e].fence + 1

Works(e, f) ==
  /\ leases[e].fence = f /\ leases[e].expires > clock
  /\ leases'[e].fence = f /\ leases'[e].worker = leases[e].worker
  /\ effects[e].state # "absent" /\ effects'[e].state # "absent"
  /\ effects'[e].state = "intent" => leases'[e].expires = clock

\* Only the effect of the call is concerned, and the rows keep their types.
Concerns(e) ==
  /\ RowsTyped'
  /\ clock' = clock /\ clock >= observed /\ observed' = clock
  /\ \A x \in Effects : x # e => Rests(x)

\* The budgets are numbers and every reference a thread makes is evidence.
LEMMA Budgets ==
  /\ LeaseTTL \in Nat /\ ExecutionBudget \in Nat /\ CommitBudget \in Nat
  /\ MutationBudget \in Nat /\ Timeout \in Nat /\ Grace \in Nat
  /\ \A what \in {"ok", "failed", "stage", "probe"}, f \in Fences : Ref(what, f) \in Evidence
<1>1. {Timeout, Grace, Termination, CommitBudget, MutationBudget} \subseteq Nat
  BY DispatchConstants
<1>2. /\ Timeout \in Nat /\ Grace \in Nat /\ Termination \in Nat
      /\ CommitBudget \in Nat /\ MutationBudget \in Nat
  BY <1>1
<1>3. \A what \in {"ok", "failed", "stage", "probe"}, f \in Fences : Ref(what, f) \in References
  BY DEF References
<1> QED
  BY <1>2, <1>3, DispatchConstants DEF LeaseTTL, ExecutionBudget

\* SetEffect writes one row of the effects table.
LEMMA RowSet ==
  ASSUME RowsTyped, NEW e \in Effects, NEW state \in EffectStates,
         NEW evidence \in Evidence \cup {NoEvidence}, SetEffect(e, state, evidence)
  PROVE  /\ effects' \in [Effects -> EffectRows]
         /\ effects'[e].state = state /\ effects'[e].evidence = evidence
         /\ \A x \in Effects : x # e => effects'[x] = effects[x]
<1>1. [run |-> effects[e].run, state |-> state, evidence |-> evidence] \in EffectRows
  BY DEF RowsTyped, EffectRows
<1> QED
  BY <1>1 DEF SetEffect, RowsTyped

\* Extend writes the expiry of one lease that was taken.
LEMMA LeaseExtended ==
  ASSUME RowsTyped, NEW e \in Effects, NEW budget \in Nat, Extend(e, budget),
         leases[e].fence \in Fences
  PROVE  /\ leases' \in [Effects -> LeaseRows]
         /\ \A x \in Effects : leases'[x].fence = 0 => leases'[x].expires = 0
         /\ leases'[e].worker = leases[e].worker /\ leases'[e].fence = leases[e].fence
         /\ leases'[e].expires = clock + budget
         /\ \A x \in Effects : x # e => leases'[x] = leases[x]
<1>1. [worker |-> leases[e].worker, fence |-> leases[e].fence, expires |-> clock + budget]
        \in LeaseRows
  BY DEF RowsTyped, LeaseRows
<1> QED
  BY <1>1 DEF Extend, RowsTyped, Fences

\* NoteStart adds one fence to one effect's history.
LEMMA StartNoted ==
  ASSUME RowsTyped, NEW e \in Effects, NEW f \in Fences, NoteStart(e, f)
  PROVE  /\ started' \in [Effects -> SUBSET Fences]
         /\ started'[e] = started[e] \cup {f}
         /\ \A x \in Effects : x # e => started'[x] = started[x]
BY DEF NoteStart, RowsTyped

\* acquire_attempt: the holder's live lease is returned, or an expired one taken.
LEMMA AcquireMoves ==
  ASSUME RowsTyped, NEW e \in Effects, NEW w \in Workers, NEW ttl \in Nat,
         AcquireAttempt(e, w, ttl)
  PROVE  /\ Concerns(e)
         /\ \/ Rests(e) /\ leases[e].worker = w /\ leases[e].expires > clock
            \/ Takes(e, w)
         /\ leases'[e].fence \in Fences
<1> USE JournalConstants
<1>1. CASE UNCHANGED leases /\ leases[e].expires > clock /\ leases[e].worker = w
  <2>1. Concerns(e) /\ Rests(e)
    BY <1>1 DEF AcquireAttempt, Observe, Concerns, Rests, RowsTyped
  <2>2. leases[e].fence \in Fences
    BY <1>1 DEF RowsTyped, LeaseRows, Fences
  <2> QED
    BY <1>1, <2>1, <2>2
<1>2. CASE /\ leases[e].expires <= clock /\ leases[e].fence < MaxFence
           /\ leases' = [leases EXCEPT ![e] = [worker  |-> w, fence   |-> @.fence + 1,
                                               expires |-> clock + ttl]]
  <2>1. [worker |-> w, fence |-> leases[e].fence + 1, expires |-> clock + ttl] \in LeaseRows
    BY <1>2 DEF RowsTyped, LeaseRows
  <2>2. /\ leases' \in [Effects -> LeaseRows]
        /\ leases'[e] = [worker |-> w, fence |-> leases[e].fence + 1, expires |-> clock + ttl]
        /\ \A x \in Effects : x # e => leases'[x] = leases[x]
        /\ \A x \in Effects : leases'[x].fence = 0 => leases'[x].expires = 0
    BY <1>2, <2>1 DEF RowsTyped, LeaseRows
  <2>3. /\ UNCHANGED <<clock, effects, started>> /\ clock >= observed /\ observed' = clock
        /\ effects[e].state \in EffectStates
    BY <1>2 DEF AcquireAttempt, Observe
  <2>4. Takes(e, w)
    BY <1>2, <2>2, <2>3 DEF Takes, EffectStates
  <2>5. Concerns(e)
    BY <2>2, <2>3 DEF Concerns, Rests, RowsTyped
  <2>6. leases'[e].fence \in Fences
    BY <1>2, <2>2 DEF RowsTyped, LeaseRows, Fences
  <2> QED
    BY <2>4, <2>5, <2>6
<1> QED
  BY <1>1, <1>2 DEF AcquireAttempt

\* A fence that passes the lease test is one the lease was taken under.
LEMMA LiveFence ==
  ASSUME RowsTyped, NEW e \in Effects, NEW f, NEW margin \in Nat, HoldsFence(e, f, margin)
  PROVE  /\ leases[e].fence = f /\ leases[e].expires > clock + margin
         /\ leases[e].expires > clock /\ f \in Fences
BY JournalConstants DEF HoldsFence, RowsTyped, LeaseRows, Fences

\* begin_dispatch: an INTENT row is STARTED and its lease anchored for the execution.
LEMMA BeginMoves ==
  ASSUME RowsTyped, NEW e \in Effects, NEW w, NEW f, NEW expected, NEW admission,
         NEW budget \in Nat, BeginDispatch(e, w, f, expected, admission, budget)
  PROVE  /\ Concerns(e) /\ Works(e, f)
         /\ leases[e].worker = w
         /\ effects[e].state = "intent" /\ effects'[e].state = "started"
         /\ leases'[e].expires = clock + budget
         /\ started'[e] = started[e] \cup {f}
<1>1. /\ UNCHANGED clock /\ clock >= observed /\ observed' = clock
      /\ effects[e].state = "intent"
      /\ SetEffect(e, "started", NoEvidence) /\ NoteStart(e, f) /\ Extend(e, budget)
      /\ HoldsFence(e, f, 0) /\ leases[e].worker = w
  BY DEF BeginDispatch, Observe, HoldsReservation
<1>2. leases[e].fence = f /\ leases[e].expires > clock /\ f \in Fences
  BY <1>1, LiveFence
<1>3. /\ effects' \in [Effects -> EffectRows] /\ effects'[e].state = "started"
      /\ \A x \in Effects : x # e => effects'[x] = effects[x]
  BY <1>1, RowSet DEF EffectStates
<1>4. /\ leases' \in [Effects -> LeaseRows]
      /\ \A x \in Effects : leases'[x].fence = 0 => leases'[x].expires = 0
      /\ leases'[e].worker = leases[e].worker /\ leases'[e].fence = leases[e].fence
      /\ leases'[e].expires = clock + budget
      /\ \A x \in Effects : x # e => leases'[x] = leases[x]
  BY <1>1, <1>2, LeaseExtended
<1>5. /\ started' \in [Effects -> SUBSET Fences]
      /\ started'[e] = started[e] \cup {f}
      /\ \A x \in Effects : x # e => started'[x] = started[x]
  BY <1>1, <1>2, StartNoted
<1>6. Concerns(e)
  BY <1>1, <1>3, <1>4, <1>5 DEF Concerns, Rests, RowsTyped
<1> QED
  BY <1>1, <1>2, <1>3, <1>4, <1>5, <1>6 DEF Works

\* begin_prepared_commit: only the lease of a PREPARED row is anchored.
LEMMA AnchorMoves ==
  ASSUME RowsTyped, NEW e \in Effects, NEW w, NEW f, NEW expected, NEW admission,
         NEW evidence, NEW budget \in Nat,
         BeginPreparedCommit(e, w, f, expected, admission, evidence, budget)
  PROVE  /\ Concerns(e) /\ Works(e, f)
         /\ effects'[e] = effects[e] /\ started'[e] = started[e]
         /\ effects[e].state = "prepared" /\ leases'[e].expires = clock + budget
<1>1. /\ UNCHANGED <<clock, effects, started>> /\ clock >= observed /\ observed' = clock
      /\ effects[e].state = "prepared"
      /\ Extend(e, budget) /\ HoldsFence(e, f, 0)
  BY DEF BeginPreparedCommit, Observe, HoldsReservation
<1>2. leases[e].fence = f /\ leases[e].expires > clock /\ f \in Fences
  BY <1>1, LiveFence
<1>3. /\ leases' \in [Effects -> LeaseRows]
      /\ \A x \in Effects : leases'[x].fence = 0 => leases'[x].expires = 0
      /\ leases'[e].worker = leases[e].worker /\ leases'[e].fence = leases[e].fence
      /\ leases'[e].expires = clock + budget
      /\ \A x \in Effects : x # e => leases'[x] = leases[x]
  BY <1>1, <1>2, LeaseExtended
<1>4. Concerns(e)
  BY <1>1, <1>3 DEF Concerns, Rests, RowsTyped
<1> QED
  BY <1>1, <1>2, <1>3, <1>4 DEF Works

\* record_effect: the target is recorded already, or it is recorded now under
\* a live lease, from the state its step starts in.
LEMMA RecordMoves ==
  ASSUME RowsTyped, NEW e \in Effects, NEW f, NEW target \in EffectStates,
         NEW evidence \in Evidence \cup {NoEvidence}, NEW margin \in Nat,
         RecordEffect(e, f, target, evidence, margin)
  PROVE  /\ Concerns(e)
         /\ effects'[e].state = target /\ effects'[e].evidence = evidence
         /\ leases'[e] = leases[e]
         /\ \/ Rests(e)
            \/ /\ Works(e, f) /\ <<effects[e].state, target>> \in RecordableSteps
               /\ started'[e] = IF target = "started" THEN started[e] \cup {f} ELSE started[e]
         /\ target \notin {"completed", "reconciled"}
              => leases[e].fence = f /\ leases[e].expires > clock + margin
<1>1. /\ UNCHANGED <<clock, leases>> /\ clock >= observed /\ observed' = clock
  BY DEF RecordEffect, Observe
<1>2. CASE AlreadyRecorded(e, f, target, evidence, margin) /\ UNCHANGED <<effects, started>>
  <2>1. Concerns(e) /\ Rests(e)
    BY <1>1, <1>2 DEF Concerns, Rests, RowsTyped
  <2>2. effects'[e].state = target /\ effects'[e].evidence = evidence
    BY <1>2 DEF AlreadyRecorded
  <2>3. target \notin {"completed", "reconciled"}
          => leases[e].fence = f /\ leases[e].expires > clock + margin
    BY <1>2 DEF AlreadyRecorded, HoldsFence
  <2> QED
    BY <1>1, <2>1, <2>2, <2>3
<1>3. CASE /\ HoldsFence(e, f, margin)
           /\ <<effects[e].state, target>> \in RecordableSteps
           /\ SetEffect(e, target, evidence)
           /\ IF target = "started" THEN NoteStart(e, f) ELSE UNCHANGED started
  <2>1. /\ leases[e].fence = f /\ leases[e].expires > clock + margin
        /\ leases[e].expires > clock /\ f \in Fences
    BY <1>3, LiveFence
  <2>2. /\ effects' \in [Effects -> EffectRows]
        /\ effects'[e].state = target /\ effects'[e].evidence = evidence
        /\ \A x \in Effects : x # e => effects'[x] = effects[x]
    BY <1>3, RowSet
  <2>3. /\ started' \in [Effects -> SUBSET Fences]
        /\ started'[e] = IF target = "started" THEN started[e] \cup {f} ELSE started[e]
        /\ \A x \in Effects : x # e => started'[x] = started[x]
    <3>1. CASE target = "started"
      BY <1>3, <2>1, <3>1, StartNoted
    <3>2. CASE target # "started"
      BY <1>3, <3>2 DEF RowsTyped
    <3> QED
      BY <3>1, <3>2
  <2>4. Concerns(e)
    BY <1>1, <2>2, <2>3 DEF Concerns, Rests, RowsTyped
  <2>5. Works(e, f)
    BY <1>1, <1>3, <2>1, <2>2 DEF Works, RecordableSteps, EffectStates
  <2> QED
    BY <1>1, <1>3, <2>1, <2>2, <2>3, <2>4, <2>5
<1> QED
  BY <1>2, <1>3 DEF RecordEffect

\* adopt_prepared: a PREPARED row is bound to the new stage, or was already.
LEMMA AdoptMoves ==
  ASSUME RowsTyped, NEW e \in Effects, NEW f, NEW prior, NEW adopted \in Evidence,
         AdoptPrepared(e, f, prior, adopted)
  PROVE  /\ Concerns(e)
         /\ Rests(e) \/ Works(e, f)
         /\ leases'[e] = leases[e] /\ started'[e] = started[e]
         /\ effects[e].state = "prepared" /\ effects'[e].state = "prepared"
<1>1. /\ UNCHANGED <<clock, leases, started>> /\ clock >= observed /\ observed' = clock
      /\ effects[e].state = "prepared"
  BY DEF AdoptPrepared, Observe
<1>2. CASE UNCHANGED effects
  BY <1>1, <1>2 DEF Concerns, Rests, RowsTyped
<1>3. CASE HoldsFence(e, f, 0) /\ SetEffect(e, "prepared", adopted)
  <2>1. leases[e].fence = f /\ leases[e].expires > clock
    BY <1>3, LiveFence
  <2>2. /\ effects' \in [Effects -> EffectRows]
        /\ effects'[e].state = "prepared"
        /\ \A x \in Effects : x # e => effects'[x] = effects[x]
    BY <1>3, RowSet DEF EffectStates
  <2>3. Concerns(e)
    BY <1>1, <2>2 DEF Concerns, Rests, RowsTyped
  <2> QED
    BY <1>1, <2>1, <2>2, <2>3 DEF Works
<1> QED
  BY <1>2, <1>3 DEF AdoptPrepared

\* record_reconciliation: reported already, or one of three outcomes.
LEMMA ReconcileMoves ==
  ASSUME RowsTyped, NEW e \in Effects, NEW f, NEW outcome \in Outcomes,
         NEW evidence \in Evidence, RecordReconciliation(e, f, outcome, evidence)
  PROVE  /\ Concerns(e) /\ started'[e] = started[e]
         /\ \/ Rests(e)
            \/ /\ Works(e, f)
               /\ \/ outcome = "observed_completed" /\ leases'[e] = leases[e]
                     /\ effects'[e].state = "completed" /\ effects'[e].evidence = evidence
                  \/ outcome = "observed_absent" /\ leases'[e].expires = clock
                     /\ \/ effects[e].state = "prepared" /\ effects'[e] = effects[e]
                        \/ effects'[e].state = "intent"
                  \/ outcome = "unknown" /\ effects'[e].state = "reconciled"
                     /\ leases'[e] = leases[e]
<1>1. /\ UNCHANGED <<clock, started>> /\ clock >= observed /\ observed' = clock
  BY DEF RecordReconciliation, Observe
<1>2. CASE UNCHANGED <<effects, leases>>
  BY <1>1, <1>2 DEF Concerns, Rests, RowsTyped
<1>3. CASE /\ effects[e].state \in {"started", "prepared", "reconciled"}
           /\ HoldsFence(e, f, 0) /\ ApplyOutcome(e, outcome, evidence)
  <2>1. leases[e].fence = f /\ leases[e].expires > clock /\ f \in Fences
    BY <1>3, LiveFence
  <2>2. CASE outcome = "observed_completed"
    <3>1. SetEffect(e, "completed", evidence) /\ UNCHANGED leases
      BY <1>3, <2>2 DEF ApplyOutcome
    <3>2. /\ effects' \in [Effects -> EffectRows]
          /\ effects'[e].state = "completed" /\ effects'[e].evidence = evidence
          /\ \A x \in Effects : x # e => effects'[x] = effects[x]
      BY <3>1, RowSet DEF EffectStates
    <3> QED
      BY <1>1, <1>3, <2>1, <2>2, <3>1, <3>2 DEF Concerns, Rests, RowsTyped, Works
  <2>3. CASE outcome = "unknown"
    <3>1. SetEffect(e, "reconciled", NoEvidence) /\ UNCHANGED leases
      BY <1>3, <2>3 DEF ApplyOutcome
    <3>2. /\ effects' \in [Effects -> EffectRows]
          /\ effects'[e].state = "reconciled"
          /\ \A x \in Effects : x # e => effects'[x] = effects[x]
      BY <3>1, RowSet DEF EffectStates
    <3> QED
      BY <1>1, <1>3, <2>1, <2>3, <3>1, <3>2 DEF Concerns, Rests, RowsTyped, Works
  <2>4. CASE outcome = "observed_absent"
    <3>1. /\ IF effects[e].state = "prepared" THEN UNCHANGED effects
                                              ELSE SetEffect(e, "intent", NoEvidence)
          /\ Extend(e, 0)
      BY <1>3, <2>4 DEF ApplyOutcome
    <3>2. /\ effects' \in [Effects -> EffectRows]
          /\ \/ effects[e].state = "prepared" /\ effects'[e] = effects[e]
             \/ effects'[e].state = "intent"
          /\ \A x \in Effects : x # e => effects'[x] = effects[x]
      BY <3>1, RowSet DEF EffectStates, RowsTyped
    <3>3. /\ leases' \in [Effects -> LeaseRows]
          /\ \A x \in Effects : leases'[x].fence = 0 => leases'[x].expires = 0
          /\ leases'[e].worker = leases[e].worker /\ leases'[e].fence = leases[e].fence
          /\ leases'[e].expires = clock + 0
          /\ \A x \in Effects : x # e => leases'[x] = leases[x]
      BY <2>1, <3>1, LeaseExtended
    <3>4. Concerns(e)
      BY <1>1, <3>2, <3>3 DEF Concerns, Rests, RowsTyped
    <3>5. leases'[e].expires = clock
      BY <3>3 DEF RowsTyped
    <3> QED
      BY <1>1, <1>3, <2>1, <2>4, <3>2, <3>3, <3>4, <3>5 DEF Works
  <2> QED
    BY <2>2, <2>3, <2>4 DEF Outcomes
<1> QED
  BY <1>2, <1>3 DEF RecordReconciliation

-----------------------------------------------------------------------------
(* The threads' steps as moves. *)

Calls(d, e) == job[d].pc \notin {"idle", "context"} /\ job[d].effect = e

\* A step of one thread leaves the other threads alone, and takes a lease only
\* for the call it begins, or works only for the call and the fence it holds.
Moves(d) ==
  /\ RowsTyped'
  /\ clock' = clock /\ observed' \in {observed, clock} /\ observed' >= observed
  /\ \A c \in Dispatchers : c # d => job'[c] = job[c]
  /\ \A x \in Effects :
       \/ Rests(x)
       \/ /\ Takes(x, WorkerOf[d]) /\ observed' = clock
          /\ job[d].pc \in {"idle", "context"}
       \/ Works(x, job[d].fence) /\ observed' = clock /\ Calls(d, x)

\* One thread moves, the others stay where they were.
LEMMA Became ==
  ASSUME JobsTyped, NEW d \in Dispatchers, NEW j, Become(d, j)
  PROVE  /\ job'[d] = j
         /\ \A c \in Dispatchers : c # d => job'[c] = job[c]
         /\ job' = [c \in Dispatchers |-> job'[c]]
BY DEF JobsTyped, Become

\* A thread that moves to a well-formed memory keeps all of them well-formed.
LEMMA BecameTyped ==
  ASSUME JobsTyped, NEW d \in Dispatchers, NEW j, Become(d, j), JobOK(j)
  PROVE  JobsTyped'
<1>1. \A c \in Dispatchers : JobOK(job'[c])
  BY Became DEF JobsTyped
<1> QED
  BY <1>1, Became DEF JobsTyped, JobOK

\* The same call at another place is well-formed.
LEMMA MovedOK ==
  ASSUME NEW j, JobOK(j), j.pc \notin {"idle", "context"},
         NEW pc \in Pcs \ {"idle", "context"}, NEW expires, NEW elapsed \in Nat,
         NEW ref \in Evidence \cup {NoEvidence}
  PROVE  JobOK(Moved(j, pc, expires, elapsed, ref))
BY DEF JobOK, Moved

\* A thread that returned is well-formed.
LEMMA IdleOK == JobOK(Idle)
BY JournalConstants DEF JobOK, Idle, Pcs

\* A call moves on, or returns.
LEMMA WentTyped ==
  ASSUME JobsTyped, NEW d \in Dispatchers, job[d].pc \notin {"idle", "context"},
         NEW pc \in Pcs \ {"idle", "context"}
  PROVE  /\ Goto(d, pc) => JobsTyped'
         /\ \A ref \in Evidence \cup {NoEvidence} : Carry(d, pc, ref) => JobsTyped'
<1>1. JobOK(job[d]) /\ job[d].elapsed \in Nat /\ job[d].ref \in Evidence \cup {NoEvidence}
  BY DEF JobsTyped, JobOK
<1>2. ASSUME Goto(d, pc) PROVE JobsTyped'
  <2>1. JobOK(Moved(job[d], pc, job[d].expires, job[d].elapsed, job[d].ref))
    BY <1>1, MovedOK
  <2> QED
    BY <1>2, <2>1, BecameTyped DEF Goto
<1>3. ASSUME NEW ref \in Evidence \cup {NoEvidence}, Carry(d, pc, ref) PROVE JobsTyped'
  <2>1. JobOK(Moved(job[d], pc, job[d].expires, 0, ref))
    BY <1>1, MovedOK
  <2> QED
    BY <1>3, <2>1, BecameTyped DEF Carry
<1> QED
  BY <1>2, <1>3

\* A thread that returns leaves every memory well-formed.
LEMMA ReturnTyped ==
  ASSUME JobsTyped, NEW d \in Dispatchers, Return(d) PROVE JobsTyped'
BY IdleOK, BecameTyped DEF Return

\* Going on, carrying evidence and returning concern one thread.
LEMMA OthersStay ==
  ASSUME JobsTyped, NEW d \in Dispatchers
  PROVE  /\ \A pc : Goto(d, pc) => \A c \in Dispatchers : c # d => job'[c] = job[c]
         /\ \A pc, ref : Carry(d, pc, ref) => \A c \in Dispatchers : c # d => job'[c] = job[c]
         /\ Return(d) => \A c \in Dispatchers : c # d => job'[c] = job[c]
BY Became DEF Goto, Carry, Return

\* The journal stands still.
LEMMA StillMoves ==
  ASSUME RowsTyped, UNCHANGED vars \/ Refused
  PROVE  /\ RowsTyped' /\ clock' = clock
         /\ observed' \in {observed, clock} /\ observed' >= observed
         /\ \A x \in Effects : Rests(x)
BY DEF vars, Refused, Observe, RowsTyped, Rests

\* A concerned effect rests, is taken, or is worked on.
LEMMA ConcernedMoves ==
  ASSUME NEW d \in Dispatchers, NEW e, Concerns(e),
         \A c \in Dispatchers : c # d => job'[c] = job[c],
         \/ Rests(e)
         \/ Takes(e, WorkerOf[d]) /\ job[d].pc \in {"idle", "context"}
         \/ Works(e, job[d].fence) /\ Calls(d, e)
  PROVE  Moves(d)
<1>1. RowsTyped' /\ clock' = clock /\ observed' = clock /\ clock >= observed
  BY DEF Concerns
<1>2. ASSUME NEW x \in Effects
      PROVE  \/ Rests(x)
             \/ /\ Takes(x, WorkerOf[d]) /\ observed' = clock
                /\ job[d].pc \in {"idle", "context"}
             \/ Works(x, job[d].fence) /\ observed' = clock /\ Calls(d, x)
  <2>1. CASE x # e
    BY <2>1 DEF Concerns
  <2>2. CASE x = e
    BY <1>1, <2>2
  <2> QED
    BY <2>1, <2>2
<1>3. observed' \in {observed, clock} /\ observed' >= observed
  BY <1>1
<1> QED
  BY <1>1, <1>2, <1>3 DEF Moves

\* The steps that leave the journal alone.
Quiet(d) ==
  \/ \E e \in Effects, role \in {"dispatch", "adopt"} : Authorize(d, e, role)
  \/ Check(d) \/ Recheck(d) \/ Launch(d) \/ TakeEffect(d) \/ Exit(d) \/ Lock(d)
  \/ Rebind(d) \/ Apply(d) \/ Probe(d) \/ Abandon(d)

\* The ids and the history variables keep their types in every step.
LEMMA HistoryStep ==
  ASSUME DispatchTyped, NEW d \in Dispatchers, Step(d), UNCHANGED deployment
  PROVE  HistoryTyped'
<1> USE DEF HistoryTyped
<1>1. CASE UNCHANGED <<launched, applied>>
  BY <1>1 DEF DispatchTyped
<1>2. CASE Launch(d)
  <2>1. job[d].effect \in Effects /\ job[d].fence \in Fences
    BY <1>2 DEF Launch, DispatchTyped, JobsTyped, JobOK
  <2> QED
    BY <1>2, <2>1 DEF Launch, DispatchTyped
<1>3. CASE TakeEffect(d) \/ Apply(d)
  <2>1. job[d].effect \in Effects
    BY <1>3 DEF TakeEffect, Apply, DispatchTyped, JobsTyped, JobOK
  <2> QED
    BY <1>3, <2>1 DEF TakeEffect, Apply, DispatchTyped
<1> QED
  BY <1>1, <1>2, <1>3
  DEF Step, Authorize, Recover, Reserve, Check, Recheck, Start, Exit, Prepare, Lock, Rebind,
      Clear, Finish, Adopt, Anchor, Probe, Report, Abandon, Unmoved

\* A step that leaves the journal alone moves nothing but its thread.
LEMMA QuietMoves ==
  ASSUME DispatchTyped, NEW d \in Dispatchers, Quiet(d)
  PROVE  Moves(d) /\ JobsTyped'
<1> USE JournalConstants, Budgets
<1>0. /\ JobsTyped /\ RowsTyped /\ JobOK(job[d])
      /\ job[d].effect \in Effects \/ job[d].pc = "idle"
      /\ job[d].fence \in Fences \/ job[d].pc \in {"idle", "context"}
  BY DEF DispatchTyped, JobsTyped, JobOK
<1>1. UNCHANGED vars \/ Refused
  BY DEF Quiet, Authorize, Check, Recheck, Launch, TakeEffect, Exit, Lock, Rebind, Apply,
         Probe, Abandon
<1>2. SUFFICES JobsTyped' /\ \A c \in Dispatchers : c # d => job'[c] = job[c]
  BY <1>0, <1>1, StillMoves DEF Moves
<1>3. ASSUME NEW e \in Effects, NEW role, Authorize(d, e, role)
      PROVE  JobsTyped' /\ \A c \in Dispatchers : c # d => job'[c] = job[c]
  <2> DEFINE j == [pc |-> "context", role |-> role, effect |-> e, fence |-> 0,
                   snapshot |-> runs[effects[e].run], expires |-> clock + Timeout,
                   elapsed |-> 0,
                   ref |-> IF role = "adopt" THEN effects[e].evidence ELSE NoEvidence]
  <2>1. Become(d, j)
    BY <1>3 DEF Authorize
  <2>2. effects[e].evidence \in Evidence \cup {NoEvidence}
    BY <1>0 DEF RowsTyped, EffectRows
  <2>3. JobOK(j)
    BY <2>2 DEF JobOK, Pcs
  <2> HIDE DEF j
  <2> QED
    BY <1>0, <2>1, <2>3, Became, BecameTyped
<1>4. CASE \E pc \in Pcs \ {"idle", "context"} :
             job[d].pc \notin {"idle", "context"} /\ Goto(d, pc)
  BY <1>0, <1>4, WentTyped, OthersStay
<1>5. CASE \E pc \in Pcs \ {"idle", "context"}, ref \in Evidence \cup {NoEvidence} :
             job[d].pc \notin {"idle", "context"} /\ Carry(d, pc, ref)
  BY <1>0, <1>5, WentTyped, OthersStay
<1>6. CASE Return(d)
  BY <1>0, <1>6, ReturnTyped, OthersStay
<1>7. CASE Check(d) \/ Recheck(d) \/ Launch(d) \/ TakeEffect(d) \/ Lock(d) \/ Rebind(d) \/ Probe(d)
  BY <1>4, <1>7 DEF Check, Recheck, Launch, TakeEffect, Lock, Rebind, Probe, Pcs, Outcomes, Seen
<1>8. CASE Exit(d)
  <2>1. PICK what \in {"ok", "failed", "stage"} :
          /\ job[d].pc \in {"running", "effective"}
          /\ Carry(d, IF what = "stage" THEN "exported" ELSE "finishing", Ref(what, job[d].fence))
    BY <1>8 DEF Exit
  <2>2. Ref(what, job[d].fence) \in Evidence
    BY <1>0, <2>1, Budgets
  <2> QED
    BY <1>5, <2>1, <2>2 DEF Pcs
<1>9. CASE Apply(d)
  BY <1>0, <1>5, <1>9 DEF Apply, Pcs, JobOK
<1>10. CASE Abandon(d)
  BY <1>6, <1>10 DEF Abandon
<1> QED
  BY <1>3, <1>7, <1>8, <1>9, <1>10 DEF Quiet

\* Every deployment names a kind and a known id for every thread.
LEMMA WorkerIds ==
  ASSUME HistoryTyped
  PROVE  /\ Kind \in {"worker", "local", "command"}
         /\ \A d \in Dispatchers : WorkerOf[d] \in Workers
BY DispatchConstants DEF HistoryTyped, Kind, WorkerOf

\* What is known of a thread in the middle of a call.
LEMMA InCall ==
  ASSUME DispatchTyped, NEW d \in Dispatchers
  PROVE  /\ JobsTyped /\ RowsTyped /\ HistoryTyped /\ JobOK(job[d])
         /\ job[d].pc # "idle" => job[d].effect \in Effects
         /\ job[d].pc \notin {"idle", "context"} => job[d].fence \in Fences
         /\ job[d].ref \in Evidence \cup {NoEvidence}
         /\ WorkerOf[d] \in Workers
BY WorkerIds DEF DispatchTyped, JobsTyped, JobOK

\* Reserve takes the lease, or gets its own back, for the call it begins.
LEMMA ReserveMoves ==
  ASSUME DispatchTyped, NEW d \in Dispatchers, Reserve(d)
  PROVE  Moves(d) /\ JobsTyped'
<1> DEFINE e == job[d].effect
           ttl == LeaseTTL
           k == [pc |-> "granted", role |-> job[d].role, effect |-> e,
                 fence |-> leases'[e].fence, snapshot |-> job[d].snapshot,
                 expires |-> job[d].expires, elapsed |-> 0, ref |-> job[d].ref]
<1>1. /\ job[d].pc = "context" /\ AcquireAttempt(e, WorkerOf[d], ttl)
      /\ Become(d, k) \/ Return(d)
  BY DEF Reserve
<1>2. e \in Effects /\ ttl \in Nat /\ RowsTyped /\ JobsTyped /\ WorkerOf[d] \in Workers
      /\ job[d].ref \in Evidence \cup {NoEvidence}
  BY <1>1, InCall, Budgets
<1>3. leases'[e].fence \in Fences => JobOK(k)
  BY <1>2, JournalConstants DEF JobOK, Pcs, Fences
<1> HIDE DEF e, ttl, k
<1>4. /\ Concerns(e)
      /\ Rests(e) \/ Takes(e, WorkerOf[d])
      /\ leases'[e].fence \in Fences
  BY <1>1, <1>2, AcquireMoves
<1>5. JobsTyped' /\ \A c \in Dispatchers : c # d => job'[c] = job[c]
  BY <1>1, <1>2, <1>3, <1>4, Became, BecameTyped, ReturnTyped, OthersStay
<1>6. \/ Rests(e)
      \/ Takes(e, WorkerOf[d]) /\ job[d].pc \in {"idle", "context"}
      \/ Works(e, job[d].fence) /\ Calls(d, e)
  BY <1>1, <1>4
<1>7. Moves(d)
  BY <1>4, <1>5, <1>6, ConcernedMoves
<1> QED
  BY <1>5, <1>7

\* Recover takes the lease, or gets its own back, for the probe it begins.
LEMMA RecoverMoves ==
  ASSUME DispatchTyped, NEW d \in Dispatchers, NEW e \in Effects, Recover(d, e)
  PROVE  Moves(d) /\ JobsTyped'
<1> DEFINE ttl == LeaseTTL
           k == [pc |-> "probing", role |-> "recover", effect |-> e,
                 fence |-> leases'[e].fence, snapshot |-> NoSnapshot, expires |-> 0,
                 elapsed |-> 0, ref |-> NoEvidence]
<1>1. /\ job[d].pc = "idle" /\ AcquireAttempt(e, WorkerOf[d], ttl)
      /\ Become(d, k)
  BY DEF Recover
<1>2. ttl \in Nat /\ RowsTyped /\ JobsTyped /\ WorkerOf[d] \in Workers
  BY InCall, Budgets
<1>3. leases'[e].fence \in Fences => JobOK(k)
  BY <1>2, JournalConstants DEF JobOK, Pcs, Fences
<1> HIDE DEF ttl, k
<1>4. /\ Concerns(e)
      /\ Rests(e) \/ Takes(e, WorkerOf[d])
      /\ leases'[e].fence \in Fences
  BY <1>1, <1>2, AcquireMoves
<1>5. JobsTyped' /\ \A c \in Dispatchers : c # d => job'[c] = job[c]
  BY <1>1, <1>2, <1>3, <1>4, Became, BecameTyped
<1>6. \/ Rests(e)
      \/ Takes(e, WorkerOf[d]) /\ job[d].pc \in {"idle", "context"}
      \/ Works(e, job[d].fence) /\ Calls(d, e)
  BY <1>1, <1>4
<1>7. Moves(d)
  BY <1>4, <1>5, <1>6, ConcernedMoves
<1> QED
  BY <1>5, <1>7

\* The steps that write the journal under the fence the thread holds.
Busy(d) == \/ Start(d) \/ Prepare(d) \/ Clear(d) \/ Finish(d) \/ Adopt(d) \/ Anchor(d)
           \/ Report(d)

\* The row each of them leaves.
LEMMA StartMoves ==
  ASSUME DispatchTyped, NEW d \in Dispatchers, Start(d)
  PROVE  LET e == job[d].effect IN
         /\ e \in Effects /\ Concerns(e) /\ Calls(d, e)
         /\ Rests(e) \/ Works(e, job[d].fence)
         /\ leases[e].fence = job[d].fence /\ leases[e].expires > clock
         /\ effects'[e].state = "started"
         /\ Rests(e) \/ started'[e] = started[e] \cup {job[d].fence}
         /\ Kind = "command" => leases'[e] = leases[e]
         /\ Kind # "command" =>
              /\ Works(e, job[d].fence) /\ effects[e].state = "intent"
              /\ leases[e].worker = WorkerOf[d]
              /\ leases'[e].expires = clock + ExecutionBudget
              /\ started'[e] = started[e] \cup {job[d].fence}
         /\ job'[d] = Moved(job[d], "started", 0, 0, NoEvidence)
<1> DEFINE e == job[d].effect
           f == job[d].fence
           budget == ExecutionBudget
<1>1. /\ job[d].pc = "admitted" /\ Become(d, Moved(job[d], "started", 0, 0, NoEvidence))
      /\ \/ /\ Kind # "command"
            /\ BeginDispatch(e, WorkerOf[d], f, job[d].snapshot, job[d].expires, budget)
         \/ /\ Kind = "command"
            /\ RecordEffect(e, f, "started", NoEvidence, 0)
  BY DEF Start
<1>2. e \in Effects /\ RowsTyped /\ JobsTyped /\ budget \in Nat /\ Calls(d, e)
  BY <1>1, InCall, Budgets DEF Calls
<1>3. job'[d] = Moved(job[d], "started", 0, 0, NoEvidence)
  BY <1>1, <1>2, Became
<1> DEFINE w == WorkerOf[d]
           expected == job[d].snapshot
           admission == job[d].expires
           none == NoEvidence
<1>4. CASE /\ Kind # "command" /\ BeginDispatch(e, w, f, expected, admission, budget)
  <2> HIDE DEF e, f, budget, w, expected, admission
  <2>1. /\ Concerns(e) /\ Works(e, f) /\ leases[e].worker = w
        /\ effects[e].state = "intent" /\ effects'[e].state = "started"
        /\ leases'[e].expires = clock + budget
        /\ started'[e] = started[e] \cup {f}
    BY <1>2, <1>4, BeginMoves
  <2> QED
    BY <1>2, <1>3, <1>4, <2>1 DEF e, f, budget, w, Works
<1>5. CASE /\ Kind = "command" /\ RecordEffect(e, f, "started", none, 0)
  <2> DEFINE margin == 0
  <2>1. RecordEffect(e, f, "started", none, margin) /\ margin \in Nat
    BY <1>5
  <2> HIDE DEF e, f, none, margin
  <2>2. none \in Evidence \cup {NoEvidence} /\ "started" \in EffectStates
    BY DEF none, EffectStates
  <2>3. /\ Concerns(e) /\ effects'[e].state = "started"
        /\ \/ Rests(e)
           \/ Works(e, f) /\ started'[e] = started[e] \cup {f}
        /\ leases'[e] = leases[e]
        /\ leases[e].fence = f /\ leases[e].expires > clock + margin
    BY <1>2, <2>1, <2>2, RecordMoves
  <2>4. leases[e].expires > clock
    BY <1>2, <2>3, JournalConstants DEF margin, RowsTyped, LeaseRows
  <2> QED
    BY <1>2, <1>3, <1>5, <2>3, <2>4 DEF e, f
<1> QED
  BY <1>1, <1>4, <1>5

\* record_effect of any other state, as the threads call it.
LEMMA Recording ==
  ASSUME DispatchTyped, NEW d \in Dispatchers, NEW target \in {"prepared", "completed"},
         NEW margin \in Nat, job[d].pc \notin {"idle", "context"},
         RecordEffect(job[d].effect, job[d].fence, target, job[d].ref, margin)
  PROVE  LET e == job[d].effect IN
         /\ e \in Effects /\ Concerns(e) /\ Calls(d, e)
         /\ Rests(e) \/ Works(e, job[d].fence)
         /\ effects'[e].state = target /\ effects'[e].evidence = job[d].ref
         /\ leases'[e] = leases[e] /\ started'[e] = started[e]
         /\ target = "prepared"
              => leases[e].fence = job[d].fence /\ leases[e].expires > clock + margin
<1> DEFINE e == job[d].effect
           f == job[d].fence
           evidence == job[d].ref
<1>1. e \in Effects /\ RowsTyped /\ Calls(d, e) /\ evidence \in Evidence \cup {NoEvidence}
  BY InCall DEF Calls
<1>2. target \in EffectStates /\ RecordEffect(e, f, target, evidence, margin)
  BY DEF EffectStates
<1> HIDE DEF e, f, evidence
<1>3. /\ Concerns(e)
      /\ effects'[e].state = target /\ effects'[e].evidence = evidence
      /\ leases'[e] = leases[e]
      /\ \/ Rests(e)
         \/ /\ Works(e, f) /\ <<effects[e].state, target>> \in RecordableSteps
            /\ started'[e] = IF target = "started" THEN started[e] \cup {f} ELSE started[e]
      /\ target \notin {"completed", "reconciled"}
           => leases[e].fence = f /\ leases[e].expires > clock + margin
  <2>1. target \in EffectStates /\ margin \in Nat
    BY <1>2
  <2> QED
    BY <1>1, <1>2, <2>1, RecordMoves
<1>4. started'[e] = started[e]
  BY <1>3 DEF Rests
<1> QED
  BY <1>1, <1>3, <1>4 DEF e, f, evidence

\* The authority check of the commit, at first and right before the mutation.
LEMMA ClearMoves ==
  ASSUME DispatchTyped, NEW d \in Dispatchers, Clear(d)
  PROVE  LET e == job[d].effect IN
         /\ e \in Effects /\ Concerns(e) /\ Calls(d, e)
         /\ Rests(e) \/ Works(e, job[d].fence)
         /\ effects'[e].state = "prepared" /\ effects'[e].evidence = job[d].ref
         /\ leases'[e] = leases[e] /\ started'[e] = started[e]
         /\ leases[e].fence = job[d].fence
         /\ \/ /\ job[d].pc = "bound" /\ leases[e].expires > clock + CommitBudget
               /\ Goto(d, IF applied[e] = 0 THEN "cleared" ELSE "finishing")
            \/ /\ job[d].pc = "rebound" /\ leases[e].expires > clock + MutationBudget
               /\ Carry(d, "applying", job[d].ref)
<1>1. CASE /\ job[d].pc = "bound"
           /\ RecordEffect(job[d].effect, job[d].fence, "prepared", job[d].ref, CommitBudget)
           /\ Goto(d, IF applied[job[d].effect] = 0 THEN "cleared" ELSE "finishing")
  <2> DEFINE margin == CommitBudget
             target == "prepared"
  <2>1. /\ margin \in Nat /\ target \in {"prepared", "completed"}
        /\ RecordEffect(job[d].effect, job[d].fence, target, job[d].ref, margin)
    BY <1>1, Budgets
  <2> HIDE DEF margin, target
  <2> QED
    BY <1>1, <2>1, Recording DEF target, margin
<1>2. CASE /\ job[d].pc = "rebound"
           /\ RecordEffect(job[d].effect, job[d].fence, "prepared", job[d].ref, MutationBudget)
           /\ Carry(d, "applying", job[d].ref)
  <2> DEFINE margin == MutationBudget
             target == "prepared"
  <2>1. /\ margin \in Nat /\ target \in {"prepared", "completed"}
        /\ RecordEffect(job[d].effect, job[d].fence, target, job[d].ref, margin)
    BY <1>2, Budgets
  <2> HIDE DEF margin, target
  <2> QED
    BY <1>2, <2>1, Recording DEF target, margin
<1> QED
  BY <1>1, <1>2 DEF Clear

\* Prepare and Finish.
LEMMA RecordingMoves ==
  ASSUME DispatchTyped, NEW d \in Dispatchers, Prepare(d) \/ Finish(d)
  PROVE  LET e == job[d].effect IN
         /\ e \in Effects /\ Concerns(e) /\ Calls(d, e)
         /\ Rests(e) \/ Works(e, job[d].fence)
         /\ effects'[e].evidence = job[d].ref
         /\ leases'[e] = leases[e] /\ started'[e] = started[e]
         /\ \/ Prepare(d) /\ effects'[e].state = "prepared" /\ Goto(d, "staged")
            \/ Finish(d) /\ effects'[e].state = "completed" /\ Return(d)
<1> DEFINE margin == 0
           prepared == "prepared"
           completed == "completed"
<1>1. /\ margin \in Nat /\ {prepared, completed} \subseteq {"prepared", "completed"}
  OBVIOUS
<1>2. CASE Prepare(d)
  <2>1. /\ job[d].pc \notin {"idle", "context"} /\ Goto(d, "staged")
        /\ RecordEffect(job[d].effect, job[d].fence, prepared, job[d].ref, margin)
    BY <1>2 DEF Prepare
  <2> HIDE DEF margin, prepared
  <2> QED
    BY <1>1, <1>2, <2>1, Recording DEF prepared
<1>3. CASE Finish(d)
  <2>1. /\ job[d].pc \notin {"idle", "context"} /\ Return(d)
        /\ RecordEffect(job[d].effect, job[d].fence, completed, job[d].ref, margin)
    BY <1>3 DEF Finish
  <2> HIDE DEF margin, completed
  <2> QED
    BY <1>1, <1>3, <2>1, Recording DEF completed
<1> QED
  BY <1>2, <1>3

\* Adopt binds the stage to the thread's fence.
LEMMA AdoptingMoves ==
  ASSUME DispatchTyped, NEW d \in Dispatchers, Adopt(d)
  PROVE  LET e == job[d].effect IN
         /\ e \in Effects /\ Concerns(e) /\ Calls(d, e)
         /\ Rests(e) \/ Works(e, job[d].fence)
         /\ effects[e].state = "prepared" /\ effects'[e].state = "prepared"
         /\ leases'[e] = leases[e] /\ started'[e] = started[e]
         /\ Ref("stage", job[d].fence) \in Evidence
         /\ Carry(d, "adopted", Ref("stage", job[d].fence))
<1> DEFINE e == job[d].effect
           f == job[d].fence
           prior == job[d].ref
           adopted == Ref("stage", f)
<1>1. /\ job[d].pc = "granted" /\ AdoptPrepared(e, f, prior, adopted)
      /\ Carry(d, "adopted", adopted)
  BY DEF Adopt
<1>2. e \in Effects /\ f \in Fences /\ RowsTyped /\ Calls(d, e)
  BY <1>1, InCall DEF Calls
<1>3. adopted \in Evidence
  BY <1>2, Budgets
<1> HIDE DEF e, f, prior, adopted
<1>4. /\ Concerns(e)
      /\ Rests(e) \/ Works(e, f)
      /\ leases'[e] = leases[e] /\ started'[e] = started[e]
      /\ effects[e].state = "prepared" /\ effects'[e].state = "prepared"
  BY <1>1, <1>2, <1>3, AdoptMoves
<1> QED
  BY <1>1, <1>2, <1>3, <1>4 DEF e, f, adopted

\* Anchor extends the lease of the adopted stage.
LEMMA AnchoringMoves ==
  ASSUME DispatchTyped, NEW d \in Dispatchers, Anchor(d)
  PROVE  LET e == job[d].effect IN
         /\ e \in Effects /\ Concerns(e) /\ Calls(d, e)
         /\ Works(e, job[d].fence)
         /\ effects'[e] = effects[e] /\ started'[e] = started[e]
         /\ effects[e].state = "prepared" /\ leases'[e].expires = clock + CommitBudget
         /\ Become(d, Moved(job[d], "staged", 0, 0, job[d].ref))
<1> DEFINE e == job[d].effect
           w == WorkerOf[d]
           f == job[d].fence
           expected == job[d].snapshot
           admission == job[d].expires
           evidence == job[d].ref
           budget == CommitBudget
<1>1. /\ job[d].pc = "adopted"
      /\ BeginPreparedCommit(e, w, f, expected, admission, evidence, budget)
      /\ Become(d, Moved(job[d], "staged", 0, 0, job[d].ref))
  BY DEF Anchor
<1>2. e \in Effects /\ RowsTyped /\ Calls(d, e) /\ budget \in Nat
  BY <1>1, InCall, Budgets DEF Calls
<1> HIDE DEF e, w, f, expected, admission, evidence, budget
<1>3. /\ Concerns(e) /\ Works(e, f) /\ effects'[e] = effects[e] /\ started'[e] = started[e]
      /\ effects[e].state = "prepared" /\ leases'[e].expires = clock + budget
  BY <1>1, <1>2, AnchorMoves
<1> QED
  BY <1>1, <1>2, <1>3 DEF e, f, budget

\* Report records what the probe saw, once per fence.
LEMMA ReportMoves ==
  ASSUME DispatchTyped, NEW d \in Dispatchers, Report(d)
  PROVE  LET e == job[d].effect IN
         /\ e \in Effects /\ Concerns(e) /\ Calls(d, e) /\ started'[e] = started[e]
         /\ job[d].pc \in Outcomes /\ Return(d)
         /\ \/ Rests(e)
            \/ /\ Works(e, job[d].fence)
               /\ \/ job[d].pc = "observed_completed" /\ leases'[e] = leases[e]
                     /\ effects'[e].state = "completed"
                     /\ effects'[e].evidence = Ref("probe", job[d].fence)
                  \/ job[d].pc = "observed_absent" /\ leases'[e].expires = clock
                     /\ \/ effects[e].state = "prepared" /\ effects'[e] = effects[e]
                        \/ effects'[e].state = "intent"
                  \/ job[d].pc = "unknown" /\ effects'[e].state = "reconciled"
                     /\ leases'[e] = leases[e]
<1> DEFINE e == job[d].effect
           f == job[d].fence
           outcome == job[d].pc
           evidence == Ref("probe", f)
<1>1. /\ outcome \in Outcomes /\ Return(d)
      /\ RecordReconciliation(e, f, outcome, evidence)
  BY DEF Report
<1>2. e \in Effects /\ f \in Fences /\ RowsTyped /\ Calls(d, e)
  BY <1>1, InCall DEF Calls, Outcomes
<1>3. evidence \in Evidence
  BY <1>2, Budgets
<1> HIDE DEF e, f, outcome, evidence
<1>4. /\ Concerns(e) /\ started'[e] = started[e]
      /\ \/ Rests(e)
         \/ /\ Works(e, f)
            /\ \/ outcome = "observed_completed" /\ leases'[e] = leases[e]
                  /\ effects'[e].state = "completed" /\ effects'[e].evidence = evidence
               \/ outcome = "observed_absent" /\ leases'[e].expires = clock
                  /\ \/ effects[e].state = "prepared" /\ effects'[e] = effects[e]
                     \/ effects'[e].state = "intent"
               \/ outcome = "unknown" /\ effects'[e].state = "reconciled"
                  /\ leases'[e] = leases[e]
  BY <1>1, <1>2, <1>3, ReconcileMoves
<1> QED
  BY <1>1, <1>2, <1>3, <1>4 DEF e, f, outcome, evidence

\* The steps that write the journal, with what they do to the row.
LEMMA BusyMoves ==
  ASSUME DispatchTyped, NEW d \in Dispatchers, Busy(d)
  PROVE  Moves(d) /\ JobsTyped'
<1> USE DEF Pcs
<1> DEFINE e == job[d].effect
           Served == /\ e \in Effects /\ Concerns(e) /\ Calls(d, e)
                     /\ Rests(e) \/ Works(e, job[d].fence)
<1>1. /\ JobsTyped /\ HistoryTyped /\ JobOK(job[d])
      /\ job[d].ref \in Evidence \cup {NoEvidence}
  BY InCall
<1>2. ASSUME Served, \A c \in Dispatchers : c # d => job'[c] = job[c]
      PROVE  Moves(d)
  <2> HIDE DEF e
  <2> QED
    BY <1>2, ConcernedMoves
<1>3. ASSUME NEW pc \in Pcs \ {"idle", "context"}, NEW ref \in Evidence \cup {NoEvidence},
             Served, Goto(d, pc) \/ Carry(d, pc, ref)
      PROVE  Moves(d) /\ JobsTyped'
  <2>1. job[d].pc \notin {"idle", "context"}
    BY <1>3 DEF Calls
  <2>2. JobsTyped'
    BY <1>1, <1>3, <2>1, WentTyped
  <2>3. \A c \in Dispatchers : c # d => job'[c] = job[c]
    BY <1>1, <1>3, OthersStay
  <2> QED
    BY <1>2, <1>3, <2>2, <2>3
<1>4. ASSUME Served, Return(d) PROVE Moves(d) /\ JobsTyped'
  <2>1. JobsTyped' /\ \A c \in Dispatchers : c # d => job'[c] = job[c]
    BY <1>1, <1>4, ReturnTyped, OthersStay
  <2> QED
    BY <1>2, <1>4, <2>1
<1>5. ASSUME NEW pc \in {"started", "staged"}, NEW ref \in Evidence \cup {NoEvidence},
             Served, Become(d, Moved(job[d], pc, 0, 0, ref))
      PROVE  Moves(d) /\ JobsTyped'
  <2> DEFINE zero == 0
             j == Moved(job[d], pc, zero, zero, ref)
  <2>1. Become(d, j) /\ zero \in Nat /\ pc \in Pcs \ {"idle", "context"}
        /\ job[d].pc \notin {"idle", "context"}
    BY <1>5 DEF Calls
  <2> HIDE DEF zero
  <2>2. JobOK(j)
    BY <1>1, <2>1, MovedOK
  <2> HIDE DEF j
  <2>3. JobsTyped' /\ \A c \in Dispatchers : c # d => job'[c] = job[c]
    BY <1>1, <2>1, <2>2, Became, BecameTyped
  <2> QED
    BY <1>2, <1>5, <2>3
<1>6. CASE Start(d)
  <2>1. Served
    BY <1>6, StartMoves
  <2>2. Become(d, Moved(job[d], "started", 0, 0, NoEvidence))
    BY <1>6 DEF Start
  <2> HIDE DEF Served
  <2> QED
    BY <1>5, <2>1, <2>2
<1>7. CASE Prepare(d) \/ Finish(d)
  <2>1. Served /\ (Goto(d, "staged") \/ Return(d))
    BY <1>7, RecordingMoves
  <2> HIDE DEF Served
  <2> QED
    BY <1>1, <1>3, <1>4, <2>1
<1>8. CASE Clear(d)
  <2>1. /\ Served
        /\ \/ Goto(d, IF applied[e] = 0 THEN "cleared" ELSE "finishing")
           \/ Carry(d, "applying", job[d].ref)
    BY <1>8, ClearMoves
  <2> HIDE DEF Served
  <2> QED
    BY <1>1, <1>3, <2>1
<1>9. CASE Adopt(d)
  <2>1. Served /\ Ref("stage", job[d].fence) \in Evidence
        /\ Carry(d, "adopted", Ref("stage", job[d].fence))
    BY <1>9, AdoptingMoves
  <2> HIDE DEF Served
  <2> QED
    BY <1>3, <2>1
<1>10. CASE Anchor(d)
  <2>1. Served /\ Become(d, Moved(job[d], "staged", 0, 0, job[d].ref))
    BY <1>10, AnchoringMoves
  <2> HIDE DEF Served
  <2> QED
    BY <1>1, <1>5, <2>1
<1>11. CASE Report(d)
  <2>1. Served /\ Return(d)
    BY <1>11, ReportMoves
  <2> HIDE DEF Served
  <2> QED
    BY <1>4, <2>1
<1> QED
  BY <1>6, <1>7, <1>8, <1>9, <1>10, <1>11 DEF Busy

\* Every step of a thread moves the rows as Moves says and keeps the types.
LEMMA StepMoves ==
  ASSUME DispatchTyped, NEW d \in Dispatchers, Step(d), UNCHANGED deployment
  PROVE  Moves(d) /\ DispatchTyped'
<1>1. Moves(d) /\ JobsTyped'
  <2>1. CASE \E e \in Effects : Recover(d, e)
    BY <2>1, RecoverMoves
  <2>2. CASE Reserve(d)
    BY <2>2, ReserveMoves
  <2>3. CASE Busy(d)
    BY <2>3, BusyMoves
  <2>4. CASE Quiet(d)
    BY <2>4, QuietMoves
  <2> QED
    BY <2>1, <2>2, <2>3, <2>4 DEF Step, Busy, Quiet
<1> QED
  BY <1>1, HistoryStep DEF Moves, DispatchTyped

-----------------------------------------------------------------------------
(* The steps of nobody's thread. *)

\* Only the clock and the work in progress move.
LEMMA TimeTyped ==
  ASSUME DispatchTyped, PassTime \/ SetBack, UNCHANGED deployment
  PROVE  /\ DispatchTyped'
         /\ UNCHANGED <<observed, effects, leases, started, launched, applied>>
<1>1. UNCHANGED <<observed, effects, leases, started, launched, applied>>
      /\ clock' \in Nat
  BY DEF PassTime, SetBack, Tick, StepBack, Unmoved, DispatchTyped, RowsTyped
<1>2. RowsTyped' /\ HistoryTyped'
  BY <1>1 DEF DispatchTyped, RowsTyped, HistoryTyped
<1>3. JobsTyped'
  <2>1. CASE UNCHANGED job
    BY <2>1 DEF DispatchTyped, JobsTyped, JobOK
  <2>2. CASE PassTime
    <3>1. job' = [d \in Dispatchers |->
                    IF job[d].pc \in {"running", "effective", "applying"}
                    THEN Moved(job[d], job[d].pc, job[d].expires, job[d].elapsed + 1, job[d].ref)
                    ELSE job[d]]
      BY <2>2 DEF PassTime
    <3>2. ASSUME NEW d \in Dispatchers PROVE JobOK(job'[d])
      <4>1. JobOK(job[d]) /\ job[d].pc \in Pcs /\ job[d].elapsed + 1 \in Nat
            /\ job[d].ref \in Evidence \cup {NoEvidence}
        BY DEF DispatchTyped, JobsTyped, JobOK
      <4>2. CASE job[d].pc \in {"running", "effective", "applying"}
        <5> DEFINE n == job[d].elapsed + 1
        <5>1. job'[d] = Moved(job[d], job[d].pc, job[d].expires, n, job[d].ref)
          BY <3>1, <4>2
        <5>2. job[d].pc \in Pcs \ {"idle", "context"} /\ job[d].pc \notin {"idle", "context"}
              /\ n \in Nat
          BY <4>1, <4>2
        <5> HIDE DEF n
        <5> QED
          BY <4>1, <5>1, <5>2, MovedOK
      <4>3. CASE job[d].pc \notin {"running", "effective", "applying"}
        BY <3>1, <4>1, <4>3
      <4> QED
        BY <4>2, <4>3
    <3> QED
      BY <3>1, <3>2 DEF JobsTyped, JobOK
  <2> QED
    BY <2>1, <2>2 DEF SetBack
<1> QED
  BY <1>1, <1>2, <1>3 DEF DispatchTyped

\* A transition plans at most one effect that was absent.
LEMMA RunTyped ==
  ASSUME DispatchTyped, MoveRun, UNCHANGED deployment
  PROVE  /\ DispatchTyped'
         /\ UNCHANGED <<clock, observed, leases, started, job, launched, applied>>
         /\ \A e \in Effects : \/ effects'[e] = effects[e]
                               \/ effects[e].state = "absent" /\ effects'[e].state = "intent"
<1>1. UNCHANGED <<clock, observed, leases, started, job, launched, applied>>
  BY DEF MoveRun, Lifecycle, Transition, Unmoved
<1>2. \/ UNCHANGED effects
      \/ \E r \in Runs, e \in Effects : PlanEffect(r, e)
  BY DEF MoveRun, Lifecycle, Transition
<1>3. /\ effects' \in [Effects -> EffectRows]
      /\ \A e \in Effects : \/ effects'[e] = effects[e]
                            \/ effects[e].state = "absent" /\ effects'[e].state = "intent"
  <2>1. CASE UNCHANGED effects
    BY <2>1 DEF DispatchTyped, RowsTyped
  <2>2. ASSUME NEW r \in Runs, NEW e \in Effects, PlanEffect(r, e)
        PROVE  <1>3!:
    <3>1. [run |-> r, state |-> "intent", evidence |-> NoEvidence] \in EffectRows
      BY DEF EffectRows, EffectStates
    <3> QED
      BY <2>2, <3>1 DEF PlanEffect, DispatchTyped, RowsTyped
  <2> QED
    BY <1>2, <2>1, <2>2
<1>4. RowsTyped' /\ HistoryTyped' /\ JobsTyped'
  BY <1>1, <1>3 DEF DispatchTyped, RowsTyped, HistoryTyped, JobsTyped, JobOK
<1> QED
  BY <1>1, <1>3, <1>4 DEF DispatchTyped

\* A fresh journal with idle threads is well-formed.
LEMMA InitTyped == DispatchInit => DispatchTyped
<1> SUFFICES ASSUME DispatchInit PROVE DispatchTyped
  OBVIOUS
<1>1. RowsTyped
  <2>1. NoEffectRow \in EffectRows
    BY DEF NoEffectRow, EffectRows
  <2>2. NoLease \in LeaseRows /\ NoLease.expires = 0
    BY JournalConstants DEF NoLease, LeaseRows
  <2> QED
    BY <2>1, <2>2 DEF DispatchInit, Init, RowsTyped
<1>2. JobsTyped
  BY IdleOK DEF DispatchInit, JobsTyped
<1>3. HistoryTyped
  BY DEF DispatchInit, HistoryTyped
<1> QED
  BY <1>1, <1>2, <1>3 DEF DispatchTyped

\* The rows, the threads' memory and the history keep their types.
THEOREM DispatchTypeCorrect == DispatchSpec => []DispatchTyped
<1>1. ASSUME DispatchTyped, [DispatchNext]_dispatchVars PROVE DispatchTyped'
  <2>1. CASE UNCHANGED dispatchVars
    BY <1>1, <2>1
    DEF dispatchVars, vars, DispatchTyped, RowsTyped, JobsTyped, JobOK, HistoryTyped
  <2>2. CASE DispatchNext
    BY <1>1, <2>2, TimeTyped, RunTyped, StepMoves DEF DispatchNext
  <2> QED
    BY <1>1, <2>1, <2>2
<1> QED
  BY <1>1, InitTyped, PTL DEF DispatchSpec

-----------------------------------------------------------------------------
(* Brokers are callers of the journal: each of their steps is one of its    *)
(* operations with arguments it allows, or leaves it alone.  What the       *)
(* journal guarantees, whoever calls it, it guarantees to them.             *)

\* What a broker's step has to know of the rows for its call to be a legal one.
JournalInv == TypeOK /\ RowInv /\ EffectsOwned

\* The values the brokers call the journal with are values it is open to.
LEMMA Arguments ==
  /\ LeaseTTL \in LeaseTTLs
  /\ ExecutionBudget \in ExecutionBudgets
  /\ CommitBudget \in CommitBudgets
  /\ 0 \in MinimumTTLs /\ MutationBudget \in MinimumTTLs /\ CommitBudget \in MinimumTTLs
BY BrokerArguments DEF LeaseTTL, ExecutionBudget

\* A snapshot the run still has is the row of the effect's run, and any grant
\* that has not expired might as well expire at the end of time.
LEMMA BeginIsAuthority ==
  ASSUME JournalInv, NEW e \in Effects, NEW w \in Workers, NEW f \in Fences,
         NEW snapshot, NEW admission, NEW budget \in ExecutionBudgets,
         BeginDispatch(e, w, f, snapshot, admission, budget)
  PROVE  Authority(e)
<1> DEFINE r == effects[e].run
           last == MaxTime + 1
<1>1. r \in Runs /\ snapshot = runs[r]
  BY DEF BeginDispatch, JournalInv, EffectsOwned
<1>2. last \in 0 .. (MaxTime + 1) /\ clock < last
  BY JournalConstants DEF JournalInv, TypeOK
<1>3. BeginDispatch(e, w, f, runs[r], last, budget)
  BY <1>1, <1>2 DEF BeginDispatch
<1> HIDE DEF r, last
<1> QED
  BY <1>1, <1>2, <1>3 DEF Authority

\* The same for the anchor of an adopted stage, whose evidence the row holds.
LEMMA AnchorIsAuthority ==
  ASSUME JournalInv, NEW e \in Effects, NEW w \in Workers, NEW f \in Fences,
         NEW snapshot, NEW admission, NEW evidence, NEW budget \in CommitBudgets,
         BeginPreparedCommit(e, w, f, snapshot, admission, evidence, budget)
  PROVE  Authority(e)
<1> DEFINE r == effects[e].run
           last == MaxTime + 1
<1>1. r \in Runs /\ snapshot = runs[r]
  BY DEF BeginPreparedCommit, JournalInv, EffectsOwned
<1>2. last \in 0 .. (MaxTime + 1) /\ clock < last
  BY JournalConstants DEF JournalInv, TypeOK
<1>3. evidence \in Evidence
  <2>1. effects[e].state = "prepared" /\ effects[e].evidence = evidence
    BY DEF BeginPreparedCommit
  <2>2. effects[e].evidence \in Evidence \cup {NoEvidence} /\ effects[e].evidence # NoEvidence
    BY <2>1 DEF JournalInv, TypeOK, EffectRows, RowInv, EvidenceFollowsState
  <2> QED
    BY <2>1, <2>2
<1>4. BeginPreparedCommit(e, w, f, runs[r], last, evidence, budget)
  BY <1>1, <1>2 DEF BeginPreparedCommit
<1> HIDE DEF r, last
<1> QED
  BY <1>1, <1>2, <1>3, <1>4 DEF Authority

\* A stage that is rebound is the evidence of a PREPARED row.
LEMMA AdoptIsAuthority ==
  ASSUME JournalInv, NEW e \in Effects, NEW f \in Fences, NEW prior,
         NEW adopted \in Evidence, AdoptPrepared(e, f, prior, adopted)
  PROVE  Authority(e)
<1>1. CASE effects[e].evidence = adopted
  <2>1. AdoptPrepared(e, f, adopted, adopted)
    BY <1>1 DEF AdoptPrepared
  <2> QED
    BY <2>1 DEF Authority
<1>2. CASE effects[e].evidence # adopted
  <2>1. effects[e].state = "prepared" /\ effects[e].evidence = prior
    BY <1>2 DEF AdoptPrepared
  <2>2. prior \in Evidence
    BY <2>1 DEF JournalInv, TypeOK, EffectRows, RowInv, EvidenceFollowsState
  <2> QED
    BY <2>2 DEF Authority
<1> QED
  BY <1>1, <1>2

\* record_effect, acquire_attempt and record_reconciliation take the broker's
\* arguments as they are.
LEMMA PlainAuthority ==
  ASSUME NEW e \in Effects, NEW f \in Fences
  PROVE  /\ \A w \in Workers, ttl \in LeaseTTLs : AcquireAttempt(e, w, ttl) => Authority(e)
         /\ \A target \in EffectStates, evidence \in Evidence \cup {NoEvidence},
               margin \in MinimumTTLs :
              RecordEffect(e, f, target, evidence, margin) => Authority(e)
         /\ \A outcome \in Outcomes, evidence \in Evidence :
              RecordReconciliation(e, f, outcome, evidence) => Authority(e)
BY DEF Authority

\* A thread's step is a call of the journal, a refused one, or none.
LEMMA StepIsNext ==
  ASSUME DispatchTyped, JournalInv, NEW d \in Dispatchers, Step(d)
  PROVE  [Next]_vars
<1> DEFINE e == job[d].effect
           f == job[d].fence
           ref == job[d].ref
<1>1. /\ WorkerOf[d] \in Workers /\ ref \in Evidence \cup {NoEvidence}
      /\ job[d].pc # "idle" => e \in Effects
      /\ job[d].pc \notin {"idle", "context"} => f \in Fences
  BY InCall
<1>2. ASSUME NEW x \in Effects, Authority(x) PROVE [Next]_vars
  BY <1>2 DEF Next
<1>3. CASE UNCHANGED vars \/ Refused
  BY <1>3 DEF Next
<1>4. ASSUME NEW x \in Effects, AcquireAttempt(x, WorkerOf[d], LeaseTTL)
      PROVE  [Next]_vars
  <2> DEFINE w == WorkerOf[d]
             ttl == LeaseTTL
  <2>1. w \in Workers /\ ttl \in LeaseTTLs /\ AcquireAttempt(x, w, ttl)
    BY <1>1, <1>4, Arguments
  <2> HIDE DEF w, ttl
  <2>2. Authority(x)
    BY <2>1 DEF Authority
  <2> QED
    BY <1>2, <2>2
<1>5. ASSUME e \in Effects, f \in Fences, NEW target \in EffectStates,
             NEW evidence \in Evidence \cup {NoEvidence}, NEW margin \in MinimumTTLs,
             RecordEffect(e, f, target, evidence, margin)
      PROVE  [Next]_vars
  <2> HIDE DEF e, f
  <2> QED
    BY <1>2, <1>5, PlainAuthority
<1>6. CASE (\E x \in Effects : Recover(d, x)) \/ Reserve(d)
  BY <1>1, <1>4, <1>6 DEF Recover, Reserve
<1>7. CASE Start(d)
  <2>1. job[d].pc = "admitted" /\ e \in Effects /\ f \in Fences
    BY <1>1, <1>7 DEF Start
  <2>2. CASE BeginDispatch(e, WorkerOf[d], f, job[d].snapshot, job[d].expires, ExecutionBudget)
    <3> DEFINE w == WorkerOf[d]
               s == job[d].snapshot
               a == job[d].expires
               b == ExecutionBudget
    <3>1. w \in Workers /\ b \in ExecutionBudgets /\ BeginDispatch(e, w, f, s, a, b)
      BY <1>1, <2>2, Arguments
    <3> HIDE DEF w, s, a, b, e, f
    <3> QED
      BY <1>2, <2>1, <3>1, BeginIsAuthority
  <2>3. CASE RecordEffect(e, f, "started", NoEvidence, 0)
    BY <1>5, <2>1, <2>3, Arguments DEF EffectStates
  <2> QED
    BY <1>7, <2>2, <2>3 DEF Start
<1>8. CASE Prepare(d) \/ Clear(d) \/ Finish(d)
  <2>1. e \in Effects /\ f \in Fences
    BY <1>1, <1>8 DEF Prepare, Clear, Finish
  <2>2. \E target \in EffectStates, margin \in MinimumTTLs :
          RecordEffect(e, f, target, ref, margin)
    BY <1>8, Arguments DEF Prepare, Clear, Finish, EffectStates
  <2> QED
    BY <1>1, <1>5, <2>1, <2>2
<1>9. CASE Adopt(d)
  <2> DEFINE stage == Ref("stage", f)
  <2>1. e \in Effects /\ f \in Fences /\ stage \in Evidence
        /\ AdoptPrepared(e, f, ref, stage)
    BY <1>1, <1>9, Budgets DEF Adopt
  <2> HIDE DEF stage, e, f, ref
  <2> QED
    BY <1>2, <2>1, AdoptIsAuthority
<1>10. CASE Anchor(d)
  <2> DEFINE w == WorkerOf[d]
             s == job[d].snapshot
             a == job[d].expires
  <2>1. /\ e \in Effects /\ f \in Fences /\ w \in Workers
        /\ BeginPreparedCommit(e, w, f, s, a, ref, CommitBudget)
    BY <1>1, <1>10 DEF Anchor
  <2> HIDE DEF w, s, a, e, f, ref
  <2> QED
    BY <1>2, <2>1, Arguments, AnchorIsAuthority
<1>11. CASE Report(d)
  <2> DEFINE outcome == job[d].pc
             seen == Ref("probe", f)
  <2>1. /\ e \in Effects /\ f \in Fences /\ outcome \in Outcomes /\ seen \in Evidence
        /\ RecordReconciliation(e, f, outcome, seen)
    BY <1>1, <1>11, Budgets DEF Report, Outcomes
  <2> HIDE DEF outcome, seen, e, f
  <2> QED
    BY <1>2, <2>1, PlainAuthority
<1>12. CASE Quiet(d)
  BY <1>3, <1>12
  DEF Quiet, Authorize, Check, Recheck, Launch, TakeEffect, Exit, Lock, Rebind, Apply, Probe,
      Abandon
<1> QED
  BY <1>6, <1>7, <1>8, <1>9, <1>10, <1>11, <1>12 DEF Step, Quiet

\* So is every step of the composition.
LEMMA DispatchIsNext ==
  DispatchTyped /\ JournalInv /\ [DispatchNext]_dispatchVars => [Next]_vars
<1> SUFFICES ASSUME DispatchTyped, JournalInv, [DispatchNext]_dispatchVars PROVE [Next]_vars
  OBVIOUS
<1>1. CASE UNCHANGED dispatchVars
  BY <1>1 DEF dispatchVars
<1>2. CASE PassTime \/ SetBack \/ MoveRun
  BY <1>2 DEF PassTime, SetBack, MoveRun, Next
<1> QED
  BY <1>1, <1>2, StepIsNext DEF DispatchNext

\* The rows a broker relies on are legal ones.
LEMMA JournalStays == DispatchSpec => []JournalInv
<1>1. Init => JournalInv
  <2> SUFFICES ASSUME Init PROVE JournalInv
    OBVIOUS
  <2>1. RowInv
    BY DEF Init, RowInv, EvidenceFollowsState, OneOutcomePerFence, NoEffectRow
  <2>2. EffectsOwned
    BY DEF Init, EffectsOwned, NoEffectRow
  <2> QED
    BY <2>1, <2>2, EmptyTyped DEF JournalInv
<1>2. JournalInv /\ [Next]_vars => JournalInv'
  BY TypeStep, RowsStep, OwnedStep DEF JournalInv
<1>3. DispatchInit => Init
  BY DEF DispatchInit
<1> QED
  BY <1>1, <1>2, <1>3, DispatchTypeCorrect, DispatchIsNext, PTL DEF DispatchSpec

\* The brokers implement the journal's specification: their grants, budgets,
\* fences and references never make a call that specification rules out, so
\* every theorem about the journal is one about the journal they share
\* (capabilities.py drives journal.py).
THEOREM BrokersUseJournal == DispatchSpec => Spec
<1>1. DispatchInit => Init
  BY DEF DispatchInit
<1> QED
  BY <1>1, DispatchTypeCorrect, JournalStays, DispatchIsNext, PTL DEF DispatchSpec, Spec

\* Whatever brokers and recovery workers do, crash or retry, an effect is
\* started again only after its earlier attempt was observed absent.
THEOREM BrokersNeverRepeat == DispatchSpec => []RestartOnlyAfterAbsence
BY BrokersUseJournal, NoSilentDuplicate, PTL

\* And what they do to an effect is what the abstract lifecycle allows.
THEOREM BrokersImplementLifecycle == DispatchSpec => ImplementsEffectLifecycle
BY BrokersUseJournal, JournalImplementsLifecycle, PTL

-----------------------------------------------------------------------------
(* Two promises of the brokers that hold whatever worker ids they present: *)
(* completion is recorded only for work that happened, and a worker's      *)
(* fence, sandboxed or not, pays for one process.                          *)

\* What a thread knows to have happened when it is about to say so.
Earned(j) ==
  \/ j.pc \in {"effective", "observed_completed"}
  \/ j.pc = "finishing" /\ j.ref[1] # "failed"
  => applied[j.effect] > 0

DoneInv ==
  /\ DispatchTyped
  /\ \A d \in Dispatchers : Earned(job[d])
  /\ CompletedMeansDone

\* Work that happened is never taken back.
LEMMA AppliedGrows ==
  ASSUME DispatchTyped, NEW d \in Dispatchers, Step(d)
  PROVE  \A e \in Effects : applied'[e] >= applied[e] /\ applied[e] \in Nat /\ applied'[e] \in Nat
<1> USE DEF DispatchTyped, HistoryTyped
<1>1. CASE UNCHANGED applied
  BY <1>1
<1>2. CASE TakeEffect(d) \/ Apply(d)
  BY <1>2 DEF TakeEffect, Apply
<1> QED
  BY <1>1, <1>2
  DEF Step, Authorize, Recover, Reserve, Check, Recheck, Start, Launch, Exit, Prepare, Lock,
      Rebind, Clear, Finish, Adopt, Anchor, Probe, Report, Abandon, Unmoved

\* What a thread is told at each step it takes, for any row it may see.
LEMMA StepEarned ==
  ASSUME DispatchTyped, NEW d \in Dispatchers, Earned(job[d]), Step(d), DispatchTyped'
  PROVE  Earned(job[d])'
<1> USE DEF Earned
<1>1. /\ JobsTyped
      /\ job[d].pc # "idle" => job[d].effect \in Effects
      /\ \A e \in Effects : applied'[e] >= applied[e] /\ applied[e] \in Nat /\ applied'[e] \in Nat
  BY InCall, AppliedGrows
<1>2. ASSUME NEW j, Become(d, j) PROVE job'[d] = j
  BY <1>1, <1>2, Became
<1>3. ASSUME NEW pc, Goto(d, pc)
      PROVE  job'[d].pc = pc /\ job'[d].effect = job[d].effect /\ job'[d].ref = job[d].ref
  BY <1>2, <1>3 DEF Goto, Moved
<1>4. ASSUME NEW pc, NEW ref, Carry(d, pc, ref)
      PROVE  job'[d].pc = pc /\ job'[d].effect = job[d].effect /\ job'[d].ref = ref
  BY <1>2, <1>4 DEF Carry, Moved
<1>5. ASSUME Return(d) PROVE job'[d].pc = "idle"
  BY <1>2, <1>5 DEF Return, Idle
<1>6. CASE Return(d)
  BY <1>5, <1>6
<1>7. CASE \E pc \in {"checked", "admitted", "running", "staged", "bound", "rebound"} : Goto(d, pc)
  BY <1>3, <1>7
<1>8. ASSUME NEW e \in Effects, Recover(d, e) \/ \E role : Authorize(d, e, role)
      PROVE  Earned(job[d])'
  <2>1. Recover(d, e) => job'[d].pc = "probing"
    BY <1>2 DEF Recover
  <2>2. \A role : Authorize(d, e, role) => job'[d].pc = "context"
    BY <1>2 DEF Authorize
  <2> QED
    BY <1>8, <2>1, <2>2
<1>9. CASE Reserve(d)
  BY <1>2, <1>6, <1>9 DEF Reserve
<1>10. CASE Start(d)
  BY <1>2, <1>10 DEF Start, Moved
<1>11. CASE Anchor(d)
  BY <1>2, <1>11 DEF Anchor, Moved
<1>12. CASE Adopt(d)
  BY <1>4, <1>12 DEF Adopt
<1>13. CASE TakeEffect(d)
  <2>1. /\ job[d].effect \in Effects /\ Goto(d, "effective")
        /\ applied' = [applied EXCEPT ![job[d].effect] = @ + 1]
    BY <1>1, <1>13 DEF TakeEffect
  <2>2. applied'[job[d].effect] > 0
    BY <1>1, <2>1 DEF DispatchTyped, HistoryTyped
  <2> QED
    BY <1>3, <2>1, <2>2
<1>14. CASE Apply(d)
  <2>1. /\ job[d].effect \in Effects /\ Carry(d, "finishing", job[d].ref)
        /\ applied' = [applied EXCEPT ![job[d].effect] = @ + 1]
    BY <1>1, <1>14 DEF Apply
  <2>2. applied'[job[d].effect] > 0
    BY <1>1, <2>1 DEF DispatchTyped, HistoryTyped
  <2> QED
    BY <1>4, <2>1, <2>2
<1>15. CASE Exit(d)
  <2>1. PICK what \in {"ok", "failed", "stage"} :
          /\ job[d].pc \in {"running", "effective"}
          /\ what = "ok" => job[d].pc = "effective"
          /\ Carry(d, IF what = "stage" THEN "exported" ELSE "finishing", Ref(what, job[d].fence))
    BY <1>15 DEF Exit
  <2>2. Ref(what, job[d].fence)[1] = what
    BY DEF Ref
  <2> QED
    BY <1>1, <1>4, <2>1, <2>2
<1>16. CASE Clear(d)
  BY <1>1, <1>3, <1>4, <1>16 DEF Clear
<1>17. CASE Probe(d)
  BY <1>1, <1>3, <1>17 DEF Probe, Seen
<1> QED
  BY <1>6, <1>7, <1>8, <1>9, <1>10, <1>11, <1>12, <1>13, <1>14, <1>15, <1>16, <1>17
  DEF Step, Check, Recheck, Launch, Prepare, Lock, Rebind, Finish, Report, Abandon

\* A row comes to say completed only by Finish or by a probe's report.
LEMMA RowCompleted ==
  ASSUME DispatchTyped, NEW d \in Dispatchers, Step(d), NEW x \in Effects,
         effects'[x].state = "completed"
  PROVE  \/ effects'[x] = effects[x]
         \/ /\ x = job[d].effect
            /\ \/ job[d].pc = "finishing" /\ effects'[x].evidence = job[d].ref
               \/ job[d].pc = "observed_completed"
<1>1. CASE UNCHANGED effects
  BY <1>1
<1>2. CASE Start(d)
  BY <1>2, StartMoves DEF Concerns, Rests
<1>3. CASE Clear(d)
  BY <1>3, ClearMoves DEF Concerns, Rests
<1>4. CASE Prepare(d)
  BY <1>4, RecordingMoves DEF Concerns, Rests, Finish, Prepare
<1>5. CASE Finish(d)
  BY <1>5, RecordingMoves DEF Concerns, Rests, Finish
<1>6. CASE Adopt(d)
  BY <1>6, AdoptingMoves DEF Concerns, Rests
<1>7. CASE Anchor(d)
  BY <1>7, AnchoringMoves DEF Concerns, Rests
<1>8. CASE Report(d)
  BY <1>8, ReportMoves DEF Concerns, Rests
<1> QED
  BY <1>1, <1>2, <1>3, <1>4, <1>5, <1>6, <1>7, <1>8
  DEF Step, Authorize, Recover, Reserve, Check, Recheck, Launch, TakeEffect, Exit, Lock,
      Rebind, Apply, Probe, Abandon, AcquireAttempt, Refused, vars

\* Completion is never recorded for work that did not happen, except as the
\* failure it was.
THEOREM CompletionIsHonest == DispatchSpec => []CompletedMeansDone
<1>1. DispatchInit => DoneInv
  <2> SUFFICES ASSUME DispatchInit PROVE DoneInv
    OBVIOUS
  <2>1. \A d \in Dispatchers : Earned(job[d])
    BY DEF DispatchInit, Earned, Idle
  <2>2. CompletedMeansDone
    BY DEF DispatchInit, Init, CompletedMeansDone, NoEffectRow
  <2> QED
    BY <2>1, <2>2, InitTyped DEF DoneInv
<1>2. ASSUME DoneInv, [DispatchNext]_dispatchVars PROVE DoneInv'
  <2> USE DEF DoneInv
  <2>1. CASE UNCHANGED dispatchVars
    BY <1>2, <2>1
    DEF dispatchVars, vars, DispatchTyped, RowsTyped, JobsTyped, JobOK, HistoryTyped, Earned,
        CompletedMeansDone
  <2>2. CASE (PassTime \/ SetBack) /\ UNCHANGED deployment
    <3>1. DispatchTyped' /\ UNCHANGED <<effects, applied>>
      BY <1>2, <2>2, TimeTyped
    <3>2. ASSUME NEW d \in Dispatchers PROVE Earned(job[d])'
      <4>1. /\ job'[d].pc = job[d].pc /\ job'[d].effect = job[d].effect
            /\ job'[d].ref = job[d].ref
        BY <2>2 DEF PassTime, SetBack, Moved
      <4> QED
        BY <1>2, <3>1, <4>1 DEF Earned
    <3> QED
      BY <1>2, <3>1, <3>2 DEF CompletedMeansDone
  <2>3. CASE MoveRun /\ UNCHANGED deployment
    <3>1. /\ DispatchTyped' /\ UNCHANGED <<job, applied>>
          /\ \A e \in Effects : effects'[e] = effects[e] \/ effects'[e].state = "intent"
      BY <1>2, <2>3, RunTyped
    <3> QED
      BY <1>2, <3>1 DEF CompletedMeansDone, Earned
  <2>4. ASSUME NEW d \in Dispatchers, Step(d), UNCHANGED deployment PROVE DoneInv'
    <3>1. Moves(d) /\ DispatchTyped'
      BY <1>2, <2>4, StepMoves
    <3>2. \A e \in Effects : applied'[e] >= applied[e] /\ applied[e] \in Nat /\ applied'[e] \in Nat
      BY <1>2, <2>4, AppliedGrows
    <3>3. ASSUME NEW c \in Dispatchers PROVE Earned(job[c])'
      <4>1. CASE c = d
        BY <1>2, <2>4, <3>1, <4>1, StepEarned
      <4>2. CASE c # d
        <5>1. job'[c] = job[c] /\ (job[c].pc # "idle" => job[c].effect \in Effects)
          BY <1>2, <3>1, <4>2, InCall DEF Moves
        <5> QED
          BY <1>2, <3>2, <5>1 DEF Earned
      <4> QED
        BY <4>1, <4>2
    <3>4. ASSUME NEW x \in Effects, effects'[x].state = "completed",
                 effects'[x].evidence[1] # "failed"
          PROVE  applied'[x] > 0
      <4>1. \/ effects'[x] = effects[x]
            \/ /\ x = job[d].effect
               /\ \/ job[d].pc = "finishing" /\ effects'[x].evidence = job[d].ref
                  \/ job[d].pc = "observed_completed"
        BY <1>2, <2>4, <3>4, RowCompleted
      <4>2. applied[x] > 0
        BY <1>2, <3>4, <4>1 DEF CompletedMeansDone, Earned
      <4> QED
        BY <3>2, <4>2
    <3> QED
      BY <3>1, <3>3, <3>4 DEF CompletedMeansDone
  <2> QED
    BY <1>2, <2>1, <2>2, <2>3, <2>4 DEF DispatchNext
<1>3. DoneInv => CompletedMeansDone
  BY DEF DoneInv
<1> QED
  BY <1>1, <1>2, <1>3, PTL DEF DispatchSpec

-----------------------------------------------------------------------------
(* One process per fence of a worker. *)

\* A fence that started something and may dispatch again is spent.
FencesSpent ==
  \A e \in Effects : \A f \in started[e] :
    /\ f <= leases[e].fence
    /\ f = leases[e].fence /\ effects[e].state = "intent" => leases[e].expires <= observed

\* The journal sees to it: the probe that reopened the effect reported under
\* that fence or a later one, and its report ended the lease.
LEMMA AttemptsSpendFences == DispatchSpec => []FencesSpent
<1>1. ASSUME TypeOK, AttemptInv PROVE FencesSpent
  <2>1. SUFFICES ASSUME NEW e \in Effects, NEW f \in started[e]
                 PROVE  /\ f <= leases[e].fence
                        /\ f = leases[e].fence /\ effects[e].state = "intent"
                             => leases[e].expires <= observed
    BY DEF FencesSpent
  <2>2. f <= leases[e].fence
    BY <1>1 DEF AttemptInv, FencesInOrder
  <2>3. ASSUME f = leases[e].fence, effects[e].state = "intent"
        PROVE  leases[e].expires <= observed
    <3>1. PICK p \in reconciliations : p.effect = e /\ f <= p.fence /\ SpentFence(e, p.fence)
      BY <1>1, <2>3 DEF AttemptInv, PlannedIsCleared
    <3>2. p.fence <= leases[e].fence /\ p.fence \in Nat /\ leases[e].fence \in Nat
      BY <1>1, <3>1, JournalConstants
      DEF AttemptInv, FencesInOrder, TypeOK, AuditRows, LeaseRows, Fences
    <3> QED
      BY <2>3, <3>1, <3>2 DEF SpentFence
  <2> QED
    BY <2>2, <2>3
<1> QED
  BY <1>1, BrokersUseJournal, AttemptsConsistent, TypeCorrect, PTL

\* A thread between STARTED and its process is the only one that may create a
\* process for its fence.
AboutToLaunch(d) == job[d].pc = "started"

LaunchPaid ==
  /\ \A e \in Effects : \A p \in launched[e] : p[2] \in started[e]
  /\ \A d \in Dispatchers :
       AboutToLaunch(d) =>
         /\ job[d].fence \in started[job[d].effect]
         /\ \A p \in launched[job[d].effect] : p[2] # job[d].fence
         /\ \A c \in Dispatchers :
              AboutToLaunch(c) /\ job[c].effect = job[d].effect /\ job[c].fence = job[d].fence
              => c = d

LaunchInv ==
  /\ DispatchTyped
  /\ Kind # "command" => LaunchPaid /\ LaunchOncePerFence

\* An attempt is noted as started only by Start, under the thread's fence.
LEMMA NotedByStart ==
  ASSUME DispatchTyped, NEW d \in Dispatchers, Step(d), NEW x \in Effects
  PROVE  \/ started'[x] = started[x]
         \/ Start(d) /\ x = job[d].effect
<1>1. CASE UNCHANGED started
  BY <1>1
<1>2. CASE Start(d)
  BY <1>2, StartMoves DEF Concerns, Rests
<1>3. CASE Clear(d)
  BY <1>3, ClearMoves DEF Concerns, Rests
<1>4. CASE Prepare(d) \/ Finish(d)
  BY <1>4, RecordingMoves DEF Concerns, Rests
<1>5. CASE Adopt(d)
  BY <1>5, AdoptingMoves DEF Concerns, Rests
<1>6. CASE Anchor(d)
  BY <1>6, AnchoringMoves DEF Concerns, Rests
<1>7. CASE Report(d)
  BY <1>7, ReportMoves DEF Concerns, Rests
<1> QED
  BY <1>1, <1>2, <1>3, <1>4, <1>5, <1>6, <1>7
  DEF Step, Authorize, Recover, Reserve, Check, Recheck, Launch, TakeEffect, Exit, Lock,
      Rebind, Apply, Probe, Abandon, AcquireAttempt, Refused, vars

\* A thread is about to launch only after its own Start.
LEMMA LaunchFollowsStart ==
  ASSUME DispatchTyped, NEW d \in Dispatchers, Step(d), AboutToLaunch(d)'
  PROVE  Start(d)
<1> USE DEF AboutToLaunch
<1>1. JobsTyped
  BY InCall
<1>2. \A j : Become(d, j) => job'[d] = j
  BY <1>1, Became
<1>3. \A pc : Goto(d, pc) => job'[d].pc = pc
  BY <1>2 DEF Goto, Moved
<1>4. \A pc, ref : Carry(d, pc, ref) => job'[d].pc = pc
  BY <1>2 DEF Carry, Moved
<1>5. Return(d) => job'[d].pc = "idle"
  BY <1>2 DEF Return, Idle
<1>6. ~Reserve(d) /\ ~Anchor(d) /\ \A e \in Effects : ~Recover(d, e)
  BY <1>2, <1>5 DEF Reserve, Anchor, Recover, Moved
<1>7. \A e \in Effects, role \in {"dispatch", "adopt"} : ~Authorize(d, e, role)
  BY <1>2 DEF Authorize
<1>8. ~Check(d) /\ ~Recheck(d) /\ ~Launch(d) /\ ~TakeEffect(d) /\ ~Prepare(d) /\ ~Lock(d)
  BY <1>3 DEF Check, Recheck, Launch, TakeEffect, Prepare, Lock
<1>9. ~Exit(d)
  BY <1>4 DEF Exit
<1>10. ~Rebind(d) /\ ~Clear(d) /\ ~Apply(d) /\ ~Finish(d) /\ ~Adopt(d) /\ ~Report(d) /\ ~Abandon(d)
  BY <1>3, <1>4, <1>5 DEF Rebind, Clear, Apply, Finish, Adopt, Report, Abandon
<1>11. ~Probe(d)
  BY <1>3 DEF Probe, Seen
<1> QED
  BY <1>6, <1>7, <1>8, <1>9, <1>10, <1>11 DEF Step

\* Only a process is created in Launch.
LEMMA LaunchedByLaunch ==
  ASSUME NEW d \in Dispatchers, Step(d)
  PROVE  launched' = launched \/ Launch(d)
BY DEF Step, Authorize, Recover, Reserve, Check, Recheck, Start, TakeEffect, Exit, Prepare,
       Lock, Rebind, Clear, Apply, Finish, Adopt, Anchor, Probe, Report, Abandon, Unmoved

\* LaunchPaid and its promise survive every step of a worker's thread.
LEMMA PaidKept ==
  ASSUME DispatchTyped, NEW d \in Dispatchers, Step(d), Kind # "command", FencesSpent,
         LaunchPaid, LaunchOncePerFence, UNCHANGED deployment
  PROVE  LaunchPaid' /\ LaunchOncePerFence'
<1> USE DEF AboutToLaunch
<1>1. Moves(d) /\ DispatchTyped' /\ JobsTyped
  BY StepMoves, InCall
<1>2. /\ \A c \in Dispatchers : c # d => job'[c] = job[c]
      /\ \A x \in Effects : started[x] \subseteq started'[x]
  <2>1. \A x \in Effects : started[x] \subseteq started'[x]
    BY NotedByStart, StartMoves
  <2> QED
    BY <1>1, <2>1 DEF Moves
<1>3. \A c \in Dispatchers : job[c].pc = "started" => job[c].effect \in Effects
  BY InCall
<1>4. CASE Launch(d)
  <2> DEFINE e == job[d].effect
             f == job[d].fence
  <2>1. /\ job[d].pc = "started" /\ e \in Effects /\ Goto(d, "running")
        /\ launched' = [launched EXCEPT ![e] = @ \cup {<<d, f>>}]
    BY <1>3, <1>4 DEF Launch
  <2>2. job'[d].pc = "running"
    BY <1>1, <2>1, Became DEF Goto, Moved
  <2>3. /\ launched'[e] = launched[e] \cup {<<d, f>>}
        /\ \A x \in Effects : x # e => launched'[x] = launched[x]
    BY <2>1 DEF DispatchTyped, HistoryTyped
  <2>4. f \in started[e] /\ \A p \in launched[e] : p[2] # f
    BY <2>1 DEF LaunchPaid
  <2>5. \A c \in Dispatchers :
          c # d /\ job[c].pc = "started" /\ job[c].effect = e => job[c].fence # f
    BY <2>1 DEF LaunchPaid
  <2> HIDE DEF e, f
  <2>6. LaunchOncePerFence'
    BY <2>3, <2>4 DEF LaunchOncePerFence
  <2>7. \A x \in Effects : \A p \in launched'[x] : p[2] \in started'[x]
    BY <1>2, <2>3, <2>4 DEF LaunchPaid
  <2>8. ASSUME NEW c \in Dispatchers, job'[c].pc = "started"
        PROVE  /\ job'[c].fence \in started'[job'[c].effect]
               /\ \A p \in launched'[job'[c].effect] : p[2] # job'[c].fence
               /\ \A b \in Dispatchers :
                    /\ job'[b].pc = "started"
                    /\ job'[b].effect = job'[c].effect /\ job'[b].fence = job'[c].fence
                    => b = c
    <3>1. c # d /\ job'[c] = job[c] /\ job[c].pc = "started" /\ job[c].effect \in Effects
      BY <1>2, <1>3, <2>2, <2>8
    <3>2. job[c].fence \in started'[job[c].effect]
      BY <1>2, <3>1 DEF LaunchPaid
    <3>3. \A p \in launched'[job[c].effect] : p[2] # job[c].fence
      BY <2>3, <2>5, <3>1 DEF LaunchPaid
    <3>4. \A b \in Dispatchers :
            job'[b].pc = "started" => b # d /\ job'[b] = job[b]
      BY <1>2, <2>2
    <3> QED
      BY <3>1, <3>2, <3>3, <3>4 DEF LaunchPaid
  <2> QED
    BY <2>6, <2>7, <2>8 DEF LaunchPaid
<1>5. CASE launched' = launched /\ ~Start(d)
  <2>1. job'[d].pc # "started"
    BY <1>5, LaunchFollowsStart
  <2>2. \A c \in Dispatchers :
          job'[c].pc = "started" => c # d /\ job'[c] = job[c] /\ job[c].effect \in Effects
    BY <1>2, <1>3, <2>1
  <2> QED
    BY <1>2, <1>5, <2>2 DEF LaunchPaid, LaunchOncePerFence
<1>6. CASE launched' = launched /\ Start(d)
  <2> DEFINE e == job[d].effect
             f == job[d].fence
  <2>1. /\ e \in Effects /\ Concerns(e) /\ Works(e, f) /\ effects[e].state = "intent"
        /\ started'[e] = started[e] \cup {f}
        /\ job'[d] = Moved(job[d], "started", 0, 0, NoEvidence)
    BY <1>6, StartMoves
  <2>2. /\ job'[d].pc = "started" /\ job'[d].effect = e /\ job'[d].fence = f
    BY <2>1 DEF Moved
  <2> HIDE DEF e, f
  <2>3. f \notin started[e]
    <3>1. leases[e].fence = f /\ leases[e].expires > clock /\ clock >= observed
      BY <2>1 DEF Works, Concerns
    <3>2. leases[e].expires \in Nat /\ clock \in Nat /\ observed \in Nat
      BY <2>1 DEF DispatchTyped, RowsTyped, LeaseRows
    <3> QED
      BY <2>1, <3>1, <3>2 DEF FencesSpent
  <2>4. \A p \in launched[e] : p[2] # f
    BY <2>1, <2>3 DEF LaunchPaid
  <2>5. \A c \in Dispatchers :
          c # d /\ job'[c].pc = "started"
          => /\ job'[c] = job[c] /\ job[c].pc = "started" /\ job[c].effect \in Effects
             /\ job[c].effect = e => job[c].fence # f
    BY <1>2, <1>3, <2>3 DEF LaunchPaid
  <2>6. \A x \in Effects : \A p \in launched'[x] : p[2] \in started'[x]
    BY <1>2, <1>6 DEF LaunchPaid
  <2>7. ASSUME NEW c \in Dispatchers, job'[c].pc = "started"
        PROVE  /\ job'[c].fence \in started'[job'[c].effect]
               /\ \A p \in launched'[job'[c].effect] : p[2] # job'[c].fence
               /\ \A b \in Dispatchers :
                    /\ job'[b].pc = "started"
                    /\ job'[b].effect = job'[c].effect /\ job'[b].fence = job'[c].fence
                    => b = c
    <3>1. CASE c = d
      BY <1>6, <2>1, <2>2, <2>4, <2>5, <3>1
    <3>2. CASE c # d
      <4>1. job'[c] = job[c] /\ job[c].pc = "started" /\ job[c].effect \in Effects
        BY <2>5, <2>7, <3>2
      <4>2. /\ job[c].fence \in started'[job[c].effect]
            /\ \A p \in launched'[job[c].effect] : p[2] # job[c].fence
        BY <1>2, <1>6, <4>1 DEF LaunchPaid
      <4>3. \A b \in Dispatchers :
              /\ job'[b].pc = "started"
              /\ job'[b].effect = job[c].effect /\ job'[b].fence = job[c].fence
              => b = c
        BY <2>2, <2>5, <2>7, <3>2, <4>1 DEF LaunchPaid
      <4> QED
        BY <4>1, <4>2, <4>3
    <3> QED
      BY <3>1, <3>2
  <2> QED
    BY <1>6, <2>6, <2>7 DEF LaunchPaid, LaunchOncePerFence
<1> QED
  BY <1>4, <1>5, <1>6, LaunchedByLaunch DEF Launch, Start

\* A worker's fence pays for one process: a grant is dispatched once, whoever
\* retries and whatever worker ids are shared.
LEMMA WorkersLaunchOnce == DispatchSpec => [](Kind # "command" => LaunchOncePerFence)
<1>1. DispatchInit => LaunchInv
  <2> SUFFICES ASSUME DispatchInit PROVE LaunchInv
    OBVIOUS
  <2>1. LaunchPaid /\ LaunchOncePerFence
    BY DEF DispatchInit, Init, LaunchPaid, LaunchOncePerFence, AboutToLaunch, Idle
  <2> QED
    BY <2>1, InitTyped DEF LaunchInv
<1>2. ASSUME LaunchInv, FencesSpent, [DispatchNext]_dispatchVars PROVE LaunchInv'
  <2> USE DEF LaunchInv
  <2>1. CASE UNCHANGED dispatchVars
    BY <1>2, <2>1
    DEF dispatchVars, vars, DispatchTyped, RowsTyped, JobsTyped, JobOK, HistoryTyped, Kind,
        LaunchPaid, AboutToLaunch, LaunchOncePerFence
  <2>2. CASE (PassTime \/ SetBack) /\ UNCHANGED deployment
    <3>1. /\ DispatchTyped' /\ Kind' = Kind
          /\ UNCHANGED <<observed, effects, leases, started, launched>>
      BY <1>2, <2>2, TimeTyped DEF Kind
    <3>2. \A d \in Dispatchers :
            /\ job'[d].pc = job[d].pc /\ job'[d].effect = job[d].effect
            /\ job'[d].fence = job[d].fence
      BY <2>2 DEF PassTime, SetBack, Moved
    <3>3. Kind # "command" => LaunchPaid' /\ LaunchOncePerFence'
      BY <1>2, <3>1, <3>2 DEF LaunchPaid, AboutToLaunch, LaunchOncePerFence
    <3> QED
      BY <3>1, <3>3
  <2>3. CASE MoveRun /\ UNCHANGED deployment
    <3>1. /\ DispatchTyped' /\ Kind' = Kind
          /\ UNCHANGED <<observed, leases, started, job, launched>>
          /\ \A e \in Effects : \/ effects'[e] = effects[e]
                                \/ effects[e].state = "absent" /\ effects'[e].state = "intent"
      BY <1>2, <2>3, RunTyped DEF Kind
    <3>2. Kind # "command" => LaunchPaid' /\ LaunchOncePerFence'
      BY <1>2, <3>1 DEF LaunchPaid, AboutToLaunch, LaunchOncePerFence
    <3> QED
      BY <3>1, <3>2
  <2>4. ASSUME NEW d \in Dispatchers, Step(d), UNCHANGED deployment PROVE LaunchInv'
    <3>1. DispatchTyped' /\ Kind' = Kind
      BY <1>2, <2>4, StepMoves DEF Kind
    <3>2. Kind # "command" => LaunchPaid' /\ LaunchOncePerFence'
      BY <1>2, <2>4, PaidKept
    <3> QED
      BY <3>1, <3>2
  <2> QED
    BY <1>2, <2>1, <2>2, <2>3, <2>4 DEF DispatchNext
<1>3. LaunchInv => (Kind # "command" => LaunchOncePerFence)
  BY DEF LaunchInv
<1> QED
  BY <1>1, <1>2, <1>3, AttemptsSpendFences, PTL DEF DispatchSpec
=============================================================================
