---------------------------- MODULE ExclusionProofs ----------------------------
(***************************************************************************)
(* What keeps the brokers' threads apart.  Workers under ids of their own  *)
(* exclude one another: a live fence belongs to one thread, its  *)
(* process and its git apply end before the lease does, and so nobody can  *)
(* take an effect over, report it absent or dispatch it again while one of *)
(* them is at work on it.  Under ids of their own no two grants of any     *)
(* capability share a fence, so a fence pays for one process.  And the     *)
(* root lock lets a worker's result reach the host once, whatever the ids. *)
(***************************************************************************)
EXTENDS DispatchProofs

InCallPcs == Pcs \ {"idle", "context"}

LeaseOf(d) == leases[job[d].effect]

\* A thread's fence is the lease's own or an older one, and the lease under
\* its fence is held in its name.
OwnsFence(d) ==
  job[d].pc \in InCallPcs =>
    /\ job[d].fence <= LeaseOf(d).fence
    /\ job[d].fence = LeaseOf(d).fence => LeaseOf(d).worker = WorkerOf[d]

\* The lease covers what is left of the execution, the kill and the commit.
CoversProcess(d) ==
  job[d].pc \in {"started", "running", "effective"} =>
    /\ LeaseOf(d).fence = job[d].fence
    /\ LeaseOf(d).expires + job[d].elapsed >= clock + ExecutionBudget
    /\ job[d].elapsed <= Timeout + Grace
    /\ effects[job[d].effect].state = "started"

\* The lease covers what is left of git apply.
CoversMutation(d) ==
  job[d].pc = "applying" =>
    /\ LeaseOf(d).fence = job[d].fence
    /\ LeaseOf(d).expires + job[d].elapsed > clock + MutationBudget
    /\ job[d].elapsed <= MutationBudget
    /\ effects[job[d].effect].state = "prepared"

\* What a probe saw absent is still absent as long as its fence is current.
StillAbsent(d) ==
  job[d].pc = "observed_absent" /\ LeaseOf(d).fence = job[d].fence
    => applied[job[d].effect] = 0

ThreadOK(d) ==
  OwnsFence(d) /\ CoversProcess(d) /\ CoversMutation(d) /\ StillAbsent(d)

\* What is not yet dispatched has not happened.
Undone == \A e \in Effects : effects[e].state \in {"absent", "intent"} => applied[e] = 0

ExclusionInv ==
  /\ DispatchTyped
  /\ Exclusive => Undone /\ \A d \in Dispatchers : ThreadOK(d)

-----------------------------------------------------------------------------
\* The budgets leave room: a process is killed, and a mutation ends, before
\* the lease that covers it.
LEMMA BudgetOrder ==
  /\ ExecutionBudget \in Nat /\ MutationBudget \in Nat /\ CommitBudget \in Nat
  /\ Timeout \in Nat /\ Grace \in Nat /\ Timeout + Grace \in Nat
  /\ ExecutionBudget > Timeout + Grace
BY Budgets, DispatchConstants DEF ExecutionBudget

\* The numbers of a row are numbers.
LEMMA Numbers ==
  ASSUME DispatchTyped
  PROVE  /\ clock \in Nat /\ observed \in Nat
         /\ \A e \in Effects : leases[e].fence \in Nat /\ leases[e].expires \in Nat
         /\ \A d \in Dispatchers :
              /\ job[d].pc \in Pcs /\ job[d].elapsed \in Nat /\ job[d].fence \in Nat
              /\ job[d].pc \in InCallPcs => job[d].effect \in Effects
BY JournalConstants DEF DispatchTyped, RowsTyped, LeaseRows, JobsTyped, JobOK, InCallPcs

\* Where a call may be after one of its thread's steps.
LEMMA NextJob ==
  ASSUME DispatchTyped, NEW d \in Dispatchers, Step(d)
  PROVE
    \/ job'[d].pc \in {"idle", "context"}
    \/ /\ job'[d].pc \in {"granted", "probing"} /\ job'[d].effect \in Effects
       /\ job'[d].fence = leases'[job'[d].effect].fence
       /\ leases'[job'[d].effect].worker = WorkerOf[d]
    \/ /\ job[d].pc \in InCallPcs
       /\ job'[d].effect = job[d].effect /\ job'[d].fence = job[d].fence
       /\ \/ /\ job[d].pc = "running" /\ job'[d].pc = "effective"
             /\ job'[d].elapsed = job[d].elapsed /\ UNCHANGED vars
          \/ job'[d].pc \in {"checked", "admitted", "exported", "finishing", "staged",
                             "bound", "cleared", "rebound", "adopted",
                             "observed_completed", "unknown"}
          \/ Start(d) /\ job'[d].pc = "started" /\ job'[d].elapsed = 0
          \/ /\ job[d].pc = "started" /\ job'[d].pc = "running"
             /\ job'[d].elapsed = job[d].elapsed /\ UNCHANGED vars
          \/ Clear(d) /\ job[d].pc = "rebound" /\ job'[d].pc = "applying" /\ job'[d].elapsed = 0
          \/ /\ job'[d].pc = "observed_absent" /\ applied[job[d].effect] = 0
             /\ UNCHANGED vars /\ UNCHANGED applied
<1>1. JobsTyped /\ RowsTyped /\ WorkerOf[d] \in Workers /\ job[d].pc \in Pcs
      /\ (job[d].pc # "idle" => job[d].effect \in Effects)
  BY InCall DEF JobOK
<1>2. \A j : Become(d, j) => job'[d] = j
  BY <1>1, Became
<1>3. \A pc : Goto(d, pc) => /\ job'[d].pc = pc /\ job'[d].effect = job[d].effect
                             /\ job'[d].fence = job[d].fence
                             /\ job'[d].elapsed = job[d].elapsed
  BY <1>2 DEF Goto, Moved
<1>4. \A pc, ref : Carry(d, pc, ref) => /\ job'[d].pc = pc /\ job'[d].effect = job[d].effect
                                        /\ job'[d].fence = job[d].fence /\ job'[d].elapsed = 0
  BY <1>2 DEF Carry, Moved
<1>5. CASE Return(d)
  BY <1>2, <1>5 DEF Return, Idle
<1>6. ASSUME NEW e \in Effects, NEW role, Authorize(d, e, role) PROVE job'[d].pc = "context"
  BY <1>2, <1>6 DEF Authorize
<1>7. ASSUME NEW e \in Effects, AcquireAttempt(e, WorkerOf[d], LeaseTTL)
      PROVE  leases'[e].worker = WorkerOf[d]
  <2> DEFINE w == WorkerOf[d]
             ttl == LeaseTTL
  <2>1. w \in Workers /\ ttl \in Nat /\ AcquireAttempt(e, w, ttl)
    BY <1>1, <1>7, Budgets
  <2> HIDE DEF w, ttl
  <2>2. (Rests(e) /\ leases[e].worker = w) \/ Takes(e, w)
    BY <1>1, <2>1, AcquireMoves
  <2> QED
    BY <2>2 DEF Rests, Takes, w
<1>8. ASSUME NEW e \in Effects, Recover(d, e)
      PROVE  /\ job'[d].pc = "probing" /\ job'[d].effect = e
             /\ job'[d].fence = leases'[e].fence /\ leases'[e].worker = WorkerOf[d]
  BY <1>2, <1>7, <1>8 DEF Recover
<1>9. ASSUME Reserve(d), ~Return(d)
      PROVE  /\ job'[d].pc = "granted" /\ job'[d].effect \in Effects
             /\ job'[d].fence = leases'[job'[d].effect].fence
             /\ leases'[job'[d].effect].worker = WorkerOf[d]
  BY <1>1, <1>2, <1>7, <1>9 DEF Reserve
<1>10. CASE Check(d) \/ Recheck(d) \/ Prepare(d) \/ Lock(d) \/ Rebind(d)
  BY <1>1, <1>3, <1>10 DEF Check, Recheck, Prepare, Lock, Rebind, InCallPcs
<1>11. CASE Start(d)
  BY <1>1, <1>2, <1>11 DEF Start, Moved, InCallPcs
<1>12. CASE Launch(d)
  BY <1>1, <1>3, <1>12 DEF Launch, InCallPcs
<1>13. CASE Exit(d)
  BY <1>1, <1>4, <1>13 DEF Exit, InCallPcs
<1>14. CASE Clear(d)
  BY <1>1, <1>3, <1>4, <1>14 DEF Clear, InCallPcs
<1>15. CASE Apply(d) \/ Adopt(d)
  BY <1>1, <1>4, <1>15 DEF Apply, Adopt, InCallPcs
<1>16. CASE Anchor(d)
  BY <1>1, <1>2, <1>16 DEF Anchor, Moved, InCallPcs
<1>17. CASE Probe(d)
  <2>1. /\ job[d].pc = "probing" /\ UNCHANGED vars /\ UNCHANGED applied
        /\ \/ Goto(d, "observed_completed") \/ Goto(d, "unknown")
           \/ Goto(d, "observed_absent") /\ ~(applied[job[d].effect] > 0)
    BY <1>17 DEF Probe, Seen, Unmoved
  <2>2. job[d].effect \in Effects /\ applied[job[d].effect] \in Nat
    BY <1>1, <2>1 DEF DispatchTyped, HistoryTyped
  <2> QED
    BY <1>1, <1>3, <2>1, <2>2 DEF InCallPcs
<1>18. CASE TakeEffect(d)
  BY <1>1, <1>3, <1>18 DEF TakeEffect, InCallPcs
<1> QED
  BY <1>5, <1>6, <1>8, <1>9, <1>10, <1>11, <1>12, <1>13, <1>14, <1>15, <1>16, <1>17, <1>18
  DEF Step, Finish, Report, Abandon

\* An effect happens while its process runs, or in Apply.
LEMMA NextApplied ==
  ASSUME DispatchTyped, NEW d \in Dispatchers, Step(d), NEW x \in Effects
  PROVE  \/ applied'[x] = applied[x]
         \/ job[d].pc \in {"running", "applying"} /\ x = job[d].effect /\ UNCHANGED vars
<1>1. CASE UNCHANGED applied
  BY <1>1
<1>2. CASE Apply(d) \/ TakeEffect(d)
  BY <1>2 DEF Apply, TakeEffect, DispatchTyped, HistoryTyped
<1> QED
  BY <1>1, <1>2
  DEF Step, Authorize, Recover, Reserve, Check, Recheck, Start, Launch, Exit,
      Prepare, Lock, Rebind, Clear, Finish, Adopt, Anchor, Probe, Report, Abandon, Unmoved

\* A row comes back to be dispatched only by a report of absence.
LEMMA NextPlanned ==
  ASSUME DispatchTyped, NEW d \in Dispatchers, Step(d), UNCHANGED deployment,
         NEW x \in Effects, effects'[x].state \in {"absent", "intent"}
  PROVE  \/ effects'[x] = effects[x]
         \/ /\ x = job[d].effect /\ job[d].pc = "observed_absent"
            /\ leases[x].fence = job[d].fence
<1>1. CASE UNCHANGED effects
  BY <1>1
<1>2. CASE Start(d)
  BY <1>2, StartMoves DEF Concerns, Rests
<1>3. CASE Clear(d)
  BY <1>3, ClearMoves DEF Concerns, Rests
<1>4. CASE Prepare(d) \/ Finish(d)
  BY <1>4, RecordingMoves DEF Concerns, Rests
<1>5. CASE Adopt(d)
  BY <1>5, AdoptingMoves DEF Concerns, Rests
<1>6. CASE Anchor(d)
  BY <1>6, AnchoringMoves DEF Concerns, Rests
<1>7. CASE Report(d)
  BY <1>7, ReportMoves DEF Concerns, Rests, Works
<1> QED
  BY <1>1, <1>2, <1>3, <1>4, <1>5, <1>6, <1>7
  DEF Step, Authorize, Recover, Reserve, Check, Recheck, Launch, TakeEffect, Exit, Lock,
      Rebind, Apply, Probe, Abandon, AcquireAttempt, Refused, vars

-----------------------------------------------------------------------------
\* A lease changes hands only together with its fence, which only grows.
LEMMA FencesGrow ==
  ASSUME DispatchTyped, NEW d \in Dispatchers, Step(d), UNCHANGED deployment,
         NEW x \in Effects
  PROVE  /\ leases'[x].fence >= leases[x].fence
         /\ leases'[x].fence = leases[x].fence => leases'[x].worker = leases[x].worker
<1>1. Moves(d) /\ leases[x].fence \in Nat
  BY StepMoves, Numbers
<1>2. CASE Rests(x)
  BY <1>1, <1>2 DEF Rests
<1>3. CASE Takes(x, WorkerOf[d])
  BY <1>1, <1>3 DEF Takes
<1>4. CASE Works(x, job[d].fence)
  BY <1>1, <1>4 DEF Works
<1> QED
  BY <1>1, <1>2, <1>3, <1>4 DEF Moves

\* Every thread's fence stays its own through a step of any thread.
LEMMA OwnsKept ==
  ASSUME DispatchTyped, NEW d \in Dispatchers, Step(d), UNCHANGED deployment,
         NEW c \in Dispatchers, OwnsFence(c)
  PROVE  OwnsFence(c)'
<1>1. Moves(d) /\ WorkerOf' = WorkerOf
  BY StepMoves DEF WorkerOf
<1>2. \A x \in Effects : leases[x].fence \in Nat /\ leases'[x].fence \in Nat
  BY StepMoves, Numbers, JournalConstants DEF DispatchTyped, RowsTyped, LeaseRows
<1>3. job[c].fence \in Nat /\ (job[c].pc \in InCallPcs => job[c].effect \in Effects)
  BY Numbers
<1>4. CASE /\ job[c].pc \in InCallPcs
           /\ job'[c].effect = job[c].effect /\ job'[c].fence = job[c].fence
  BY <1>1, <1>2, <1>3, <1>4, FencesGrow DEF OwnsFence, LeaseOf
<1>5. CASE c # d
  BY <1>1, <1>4, <1>5 DEF Moves, OwnsFence, LeaseOf
<1>6. CASE c = d /\ job'[d].pc \in {"idle", "context"}
  BY <1>6 DEF OwnsFence, InCallPcs
<1>7. CASE /\ c = d /\ job'[d].effect \in Effects
           /\ job'[d].fence = leases'[job'[d].effect].fence
           /\ leases'[job'[d].effect].worker = WorkerOf[d]
  BY <1>1, <1>2, <1>7 DEF OwnsFence, LeaseOf
<1> QED
  BY <1>4, <1>5, <1>6, <1>7, NextJob

\* Nobody else touches an effect whose live lease a thread holds.
LEMMA OthersRest ==
  ASSUME DispatchTyped, Exclusive, NEW d \in Dispatchers, NEW c \in Dispatchers, c # d,
         Moves(d), OwnsFence(c), OwnsFence(d), job[c].pc \in InCallPcs,
         LeaseOf(c).fence = job[c].fence, LeaseOf(c).expires > clock
  PROVE  /\ Rests(job[c].effect) /\ job'[c] = job[c] /\ clock' = clock
         /\ job[d].pc \in InCallPcs /\ job[d].effect = job[c].effect
              => LeaseOf(d).fence # job[d].fence
<1>1. /\ job[c].effect \in Effects /\ LeaseOf(c).expires \in Nat /\ clock \in Nat
      /\ job[d].pc \in Pcs
  BY Numbers DEF LeaseOf
<1>2. job[d].pc \in InCallPcs /\ job[d].effect = job[c].effect
        => LeaseOf(d).fence # job[d].fence
  BY DEF OwnsFence, LeaseOf, Exclusive
<1>3. ~Takes(job[c].effect, WorkerOf[d])
  BY <1>1 DEF Takes, LeaseOf
<1>4. ~(Works(job[c].effect, job[d].fence) /\ Calls(d, job[c].effect))
  BY <1>1, <1>2 DEF Works, Calls, LeaseOf, InCallPcs
<1> QED
  BY <1>1, <1>2, <1>3, <1>4 DEF Moves

\* A process stays covered through a step of any thread.
LEMMA ProcessCoverKept ==
  ASSUME DispatchTyped, Exclusive, NEW d \in Dispatchers, Step(d), UNCHANGED deployment,
         NEW c \in Dispatchers, OwnsFence(c), OwnsFence(d), CoversProcess(c), CoversProcess(d)
  PROVE  CoversProcess(c)'
<1>1. Moves(d) /\ Kind # "command"
  BY StepMoves DEF Exclusive
<1>2. /\ clock \in Nat /\ job[c].elapsed \in Nat
      /\ job[c].pc \in InCallPcs
           => job[c].effect \in Effects /\ LeaseOf(c).expires \in Nat
  BY Numbers DEF LeaseOf
<1>3. CASE c # d
  <2>1. SUFFICES ASSUME job'[c].pc \in {"started", "running", "effective"}
                 PROVE  /\ LeaseOf(c)'.fence = job'[c].fence
                        /\ LeaseOf(c)'.expires + job'[c].elapsed >= clock' + ExecutionBudget
                        /\ job'[c].elapsed <= Timeout + Grace
                        /\ effects'[job'[c].effect].state = "started"
    BY DEF CoversProcess, ExecutionBudget
  <2>2. job'[c] = job[c] /\ job[c].pc \in InCallPcs
    BY <1>1, <1>3, <2>1 DEF Moves, InCallPcs, Pcs
  <2>3. /\ LeaseOf(c).fence = job[c].fence
        /\ LeaseOf(c).expires + job[c].elapsed >= clock + ExecutionBudget
        /\ job[c].elapsed <= Timeout + Grace
        /\ effects[job[c].effect].state = "started"
    BY <2>1, <2>2 DEF CoversProcess
  <2>4. LeaseOf(c).expires > clock
    BY <1>2, <2>2, <2>3, BudgetOrder
  <2>5. Rests(job[c].effect) /\ clock' = clock
    BY <1>1, <1>3, <2>2, <2>3, <2>4, OthersRest
  <2> QED
    BY <2>2, <2>3, <2>5 DEF Rests, LeaseOf
<1>4. CASE c = d /\ job'[d].pc \notin {"started", "running", "effective"}
  BY <1>4 DEF CoversProcess
<1>5. CASE c = d /\ Start(d) /\ job'[d].pc = "started" /\ job'[d].elapsed = 0
           /\ job'[d].effect = job[d].effect /\ job'[d].fence = job[d].fence
  <2>1. /\ job[d].effect \in Effects
        /\ Works(job[d].effect, job[d].fence)
        /\ effects'[job[d].effect].state = "started"
        /\ leases'[job[d].effect].expires = clock + ExecutionBudget /\ clock' = clock
    BY <1>1, <1>5, StartMoves DEF Concerns
  <2> QED
    BY <1>2, <1>5, <2>1, BudgetOrder DEF CoversProcess, LeaseOf, Works, ExecutionBudget
<1>6. CASE /\ c = d /\ job[d].pc \in {"started", "running"}
           /\ job'[d].effect = job[d].effect /\ job'[d].fence = job[d].fence
           /\ job'[d].elapsed = job[d].elapsed /\ UNCHANGED vars
  BY <1>6 DEF CoversProcess, LeaseOf, vars, ExecutionBudget
<1> QED
  BY <1>1, <1>3, <1>4, <1>5, <1>6, NextJob

\* A mutation stays covered through a step of any thread.
LEMMA MutationCoverKept ==
  ASSUME DispatchTyped, Exclusive, NEW d \in Dispatchers, Step(d), UNCHANGED deployment,
         NEW c \in Dispatchers, OwnsFence(c), OwnsFence(d), CoversMutation(c)
  PROVE  CoversMutation(c)'
<1>1. Moves(d) /\ Kind # "command"
  BY StepMoves DEF Exclusive
<1>2. /\ clock \in Nat /\ job[c].elapsed \in Nat
      /\ job[c].pc \in InCallPcs
           => job[c].effect \in Effects /\ LeaseOf(c).expires \in Nat
  BY Numbers DEF LeaseOf
<1>3. CASE c # d
  <2>1. SUFFICES ASSUME job'[c].pc = "applying"
                 PROVE  /\ LeaseOf(c)'.fence = job'[c].fence
                        /\ LeaseOf(c)'.expires + job'[c].elapsed > clock' + MutationBudget
                        /\ job'[c].elapsed <= MutationBudget
                        /\ effects'[job'[c].effect].state = "prepared"
    BY DEF CoversMutation
  <2>2. job'[c] = job[c] /\ job[c].pc \in InCallPcs
    BY <1>1, <1>3, <2>1 DEF Moves, InCallPcs, Pcs
  <2>3. /\ LeaseOf(c).fence = job[c].fence
        /\ LeaseOf(c).expires + job[c].elapsed > clock + MutationBudget
        /\ job[c].elapsed <= MutationBudget
        /\ effects[job[c].effect].state = "prepared"
    BY <2>1, <2>2 DEF CoversMutation
  <2>4. LeaseOf(c).expires > clock
    BY <1>2, <2>2, <2>3, BudgetOrder
  <2>5. Rests(job[c].effect) /\ clock' = clock
    BY <1>1, <1>3, <2>2, <2>3, <2>4, OthersRest
  <2> QED
    BY <2>2, <2>3, <2>5 DEF Rests, LeaseOf
<1>4. CASE c = d /\ job'[d].pc # "applying"
  BY <1>4 DEF CoversMutation
<1>5. CASE /\ c = d /\ Clear(d) /\ job[d].pc = "rebound" /\ job'[d].pc = "applying"
           /\ job'[d].elapsed = 0
           /\ job'[d].effect = job[d].effect /\ job'[d].fence = job[d].fence
  <2>1. /\ job[d].effect \in Effects /\ clock' = clock
        /\ effects'[job[d].effect].state = "prepared"
        /\ leases'[job[d].effect] = leases[job[d].effect]
        /\ leases[job[d].effect].fence = job[d].fence
        /\ leases[job[d].effect].expires > clock + MutationBudget
    BY <1>5, ClearMoves DEF Concerns
  <2> QED
    BY <1>2, <1>5, <2>1, BudgetOrder, Numbers DEF CoversMutation, LeaseOf
<1> QED
  BY <1>1, <1>3, <1>4, <1>5, NextJob

\* What was seen absent stays absent through a step of any thread.
LEMMA AbsenceKept ==
  ASSUME DispatchTyped, Exclusive, NEW d \in Dispatchers, Step(d), UNCHANGED deployment,
         NEW c \in Dispatchers, OwnsFence(c), OwnsFence(d), CoversProcess(d),
         CoversMutation(d), StillAbsent(c)
  PROVE  StillAbsent(c)'
<1>1. Moves(d) /\ Kind # "command"
  BY StepMoves DEF Exclusive
<1>2. CASE c # d
  <2>1. SUFFICES ASSUME job'[c].pc = "observed_absent", LeaseOf(c)'.fence = job'[c].fence
                 PROVE  applied'[job'[c].effect] = 0
    BY DEF StillAbsent
  <2>2. job'[c] = job[c] /\ job[c].pc \in InCallPcs /\ job[c].effect \in Effects
    BY <1>1, <1>2, <2>1, Numbers DEF Moves, InCallPcs, Pcs, Outcomes
  <2>3. LeaseOf(c).fence = job[c].fence
    <3>1. /\ leases'[job[c].effect].fence >= leases[job[c].effect].fence
          /\ leases'[job[c].effect].fence = job[c].fence
      BY <2>1, <2>2, FencesGrow DEF LeaseOf
    <3>2. job[c].fence <= leases[job[c].effect].fence
      BY <2>2 DEF OwnsFence, LeaseOf
    <3>3. leases[job[c].effect].fence \in Nat /\ job[c].fence \in Nat
      BY <2>2, Numbers
    <3> QED
      BY <3>1, <3>2, <3>3 DEF LeaseOf
  <2>4. applied[job[c].effect] = 0
    BY <2>1, <2>2, <2>3 DEF StillAbsent
  <2>5. ~(job[d].pc \in {"running", "applying"} /\ job[d].effect = job[c].effect)
    BY <1>2, <2>2, <2>3
    DEF CoversProcess, CoversMutation, OwnsFence, LeaseOf, Exclusive, InCallPcs, Pcs
  <2>6. applied'[job[c].effect] = applied[job[c].effect]
    BY <1>1, <2>2, <2>5, NextApplied
  <2> QED
    BY <2>2, <2>4, <2>6
<1>3. CASE c = d /\ job'[d].pc # "observed_absent"
  BY <1>3 DEF StillAbsent
<1>4. CASE /\ c = d /\ applied[job[d].effect] = 0 /\ UNCHANGED applied
           /\ job'[d].effect = job[d].effect
  BY <1>4 DEF StillAbsent
<1> QED
  BY <1>1, <1>2, <1>3, <1>4, NextJob

\* What may be dispatched has still not happened.
LEMMA UndoneKept ==
  ASSUME DispatchTyped, Exclusive, NEW d \in Dispatchers, Step(d), UNCHANGED deployment,
         CoversProcess(d), CoversMutation(d), StillAbsent(d), Undone
  PROVE  Undone'
<1>1. SUFFICES ASSUME NEW x \in Effects, effects'[x].state \in {"absent", "intent"}
               PROVE  applied'[x] = 0
  BY DEF Undone
<1>2. applied[x] = 0
  <2>1. CASE effects'[x] = effects[x]
    BY <1>1, <2>1 DEF Undone
  <2>2. CASE /\ x = job[d].effect /\ job[d].pc = "observed_absent"
             /\ leases[x].fence = job[d].fence
    BY <2>2 DEF StillAbsent, LeaseOf
  <2> QED
    BY <1>1, <2>1, <2>2, NextPlanned
<1>3. ~(job[d].pc \in {"running", "applying"} /\ x = job[d].effect /\ UNCHANGED vars)
  BY <1>1 DEF CoversProcess, CoversMutation, vars
<1> QED
  BY <1>2, <1>3, NextApplied

\* Time brings the end of the lease no nearer than the end of the work, and a
\* wall clock that is set back only puts it off.
LEMMA TimeKeeps ==
  ASSUME ExclusionInv, Exclusive, PassTime \/ SetBack, UNCHANGED deployment,
         NEW d \in Dispatchers
  PROVE  ThreadOK(d)'
<1>1. UNCHANGED <<effects, leases, applied>> /\ WorkerOf' = WorkerOf /\ ThreadOK(d)
  BY TimeTyped DEF ExclusionInv, WorkerOf
<1>2. /\ clock \in Nat /\ job[d].elapsed \in Nat /\ ExecutionBudget' = ExecutionBudget
      /\ job[d].pc \in InCallPcs => job[d].effect \in Effects
      /\ job[d].pc \in InCallPcs => LeaseOf(d).expires \in Nat
  BY Numbers DEF ExclusionInv, LeaseOf, ExecutionBudget
<1>3. /\ job'[d].pc = job[d].pc /\ job'[d].effect = job[d].effect /\ job'[d].fence = job[d].fence
  BY DEF PassTime, SetBack, Moved
<1>4. OwnsFence(d)' /\ StillAbsent(d)'
  BY <1>1, <1>3 DEF ThreadOK, OwnsFence, StillAbsent, LeaseOf
<1>5. CASE SetBack
  <2>1. clock' \in Nat /\ clock' <= clock /\ job'[d].elapsed = job[d].elapsed
    BY <1>2, <1>5 DEF SetBack, StepBack
  <2>2. CoversProcess(d)'
    BY <1>1, <1>2, <1>3, <2>1, BudgetOrder DEF ThreadOK, CoversProcess, LeaseOf, InCallPcs, Pcs
  <2>3. CoversMutation(d)'
    BY <1>1, <1>2, <1>3, <2>1, BudgetOrder DEF ThreadOK, CoversMutation, LeaseOf, InCallPcs, Pcs
  <2> QED
    BY <1>4, <2>2, <2>3 DEF ThreadOK
<1>6. CASE PassTime
  <2>1. clock' = clock + 1 /\ ~Overdue(job[d])
    BY <1>6 DEF PassTime, Tick
  <2>2. job[d].pc \in {"running", "effective", "applying"} => job'[d].elapsed = job[d].elapsed + 1
    BY <1>6 DEF PassTime, Moved
  <2>3. CoversProcess(d)'
    <3>1. SUFFICES ASSUME job[d].pc \in {"started", "running", "effective"}
                   PROVE  /\ leases[job[d].effect].fence = job[d].fence
                          /\ leases[job[d].effect].expires + job'[d].elapsed
                               >= clock' + ExecutionBudget
                          /\ job'[d].elapsed <= Timeout + Grace
                          /\ effects[job[d].effect].state = "started"
      BY <1>1, <1>2, <1>3 DEF CoversProcess, LeaseOf
    <3>2. job[d].pc \in {"running", "effective"} /\ job[d].elapsed # Timeout + Grace
      BY <2>1, <3>1 DEF Overdue
    <3>3. leases[job[d].effect].expires \in Nat
      BY <1>2, <3>1 DEF InCallPcs, Pcs, LeaseOf
    <3>4. /\ leases[job[d].effect].fence = job[d].fence
          /\ leases[job[d].effect].expires + job[d].elapsed >= clock + ExecutionBudget
          /\ job[d].elapsed <= Timeout + Grace
          /\ effects[job[d].effect].state = "started"
      BY <1>1, <3>1 DEF ThreadOK, CoversProcess, LeaseOf
    <3>5. clock' = clock + 1 /\ job'[d].elapsed = job[d].elapsed + 1
      BY <2>1, <2>2, <3>2
    <3> QED
      BY <1>2, <3>2, <3>3, <3>4, <3>5, BudgetOrder
  <2>4. CoversMutation(d)'
    <3>1. SUFFICES ASSUME job[d].pc = "applying"
                   PROVE  /\ leases[job[d].effect].fence = job[d].fence
                          /\ leases[job[d].effect].expires + job'[d].elapsed
                               > clock' + MutationBudget
                          /\ job'[d].elapsed <= MutationBudget
                          /\ effects[job[d].effect].state = "prepared"
      BY <1>1, <1>3 DEF CoversMutation, LeaseOf
    <3>2. job[d].elapsed # MutationBudget
      BY <2>1, <3>1 DEF Overdue
    <3>3. leases[job[d].effect].expires \in Nat
      BY <1>2, <3>1 DEF InCallPcs, Pcs, LeaseOf
    <3>4. /\ leases[job[d].effect].fence = job[d].fence
          /\ leases[job[d].effect].expires + job[d].elapsed > clock + MutationBudget
          /\ job[d].elapsed <= MutationBudget
          /\ effects[job[d].effect].state = "prepared"
      BY <1>1, <3>1 DEF ThreadOK, CoversMutation, LeaseOf
    <3>5. clock' = clock + 1 /\ job'[d].elapsed = job[d].elapsed + 1
      BY <2>1, <2>2, <3>1
    <3> QED
      BY <1>2, <3>2, <3>3, <3>4, <3>5, BudgetOrder
  <2> QED
    BY <1>4, <2>3, <2>4 DEF ThreadOK
<1> QED
  BY <1>5, <1>6

-----------------------------------------------------------------------------
\* Nothing is in progress at first.
LEMMA ExclusionInitial == DispatchInit => ExclusionInv
<1> SUFFICES ASSUME DispatchInit PROVE ExclusionInv
  OBVIOUS
<1>1. \A d \in Dispatchers : ThreadOK(d)
  BY DEF DispatchInit, Idle, ThreadOK, OwnsFence, CoversProcess, CoversMutation, StillAbsent,
         InCallPcs
<1>2. Undone
  BY DEF DispatchInit, Undone
<1> QED
  BY <1>1, <1>2, InitTyped DEF ExclusionInv

\* No step of a thread, of the clock or of a run breaks the exclusion.
LEMMA ExclusionKept ==
  ASSUME ExclusionInv, [DispatchNext]_dispatchVars PROVE ExclusionInv'
<1>1. DispatchTyped
  BY DEF ExclusionInv
<1>2. CASE UNCHANGED dispatchVars
  BY <1>2
  DEF dispatchVars, vars, ExclusionInv, DispatchTyped, RowsTyped, JobsTyped, JobOK,
      HistoryTyped, Exclusive, Kind, WorkerOf, ThreadOK, OwnsFence, CoversProcess,
      CoversMutation, StillAbsent, LeaseOf, Undone, ExecutionBudget
<1>3. CASE (PassTime \/ SetBack) /\ UNCHANGED deployment
  <2>1. DispatchTyped' /\ UNCHANGED <<effects, applied>>
    BY <1>1, <1>3, TimeTyped
  <2>2. Exclusive' = Exclusive
    BY <1>3 DEF Exclusive, Kind, WorkerOf
  <2>3. ASSUME Exclusive PROVE Undone' /\ \A d \in Dispatchers : ThreadOK(d)'
    BY <1>3, <2>1, <2>3, TimeKeeps DEF ExclusionInv, Undone
  <2> QED
    BY <2>1, <2>2, <2>3 DEF ExclusionInv
<1>4. CASE MoveRun /\ UNCHANGED deployment
  <2>1. /\ DispatchTyped' /\ UNCHANGED <<clock, leases, job, applied>>
        /\ \A e \in Effects : \/ effects'[e] = effects[e]
                              \/ effects[e].state = "absent" /\ effects'[e].state = "intent"
    BY <1>1, <1>4, RunTyped
  <2>2. Exclusive' = Exclusive /\ WorkerOf' = WorkerOf /\ ExecutionBudget' = ExecutionBudget
    BY <1>4 DEF Exclusive, Kind, WorkerOf, ExecutionBudget
  <2>3. ASSUME Exclusive PROVE Undone'
    BY <2>1, <2>3 DEF ExclusionInv, Undone
  <2>4. ASSUME Exclusive, NEW d \in Dispatchers PROVE ThreadOK(d)'
    <3>1. ThreadOK(d) /\ (job[d].pc \in InCallPcs => job[d].effect \in Effects)
      BY <1>1, <2>4, Numbers DEF ExclusionInv
    <3>2. OwnsFence(d)' /\ StillAbsent(d)'
      BY <2>1, <2>2, <3>1 DEF ThreadOK, OwnsFence, StillAbsent, LeaseOf
    <3>3. CoversProcess(d)'
      BY <2>1, <2>2, <3>1 DEF ThreadOK, CoversProcess, LeaseOf, InCallPcs, Pcs
    <3>4. CoversMutation(d)'
      BY <2>1, <2>2, <3>1 DEF ThreadOK, CoversMutation, LeaseOf, InCallPcs, Pcs
    <3> QED
      BY <3>2, <3>3, <3>4 DEF ThreadOK
  <2> QED
    BY <2>1, <2>2, <2>3, <2>4 DEF ExclusionInv
<1>5. ASSUME NEW d \in Dispatchers, Step(d), UNCHANGED deployment PROVE ExclusionInv'
  <2>1. DispatchTyped' /\ Exclusive' = Exclusive
    BY <1>1, <1>5, StepMoves DEF Exclusive, Kind, WorkerOf
  <2>2. ASSUME Exclusive PROVE Undone' /\ \A c \in Dispatchers : ThreadOK(c)'
    <3>1. Undone /\ \A c \in Dispatchers : ThreadOK(c)
      BY <2>2 DEF ExclusionInv
    <3>2. OwnsFence(d) /\ CoversProcess(d) /\ CoversMutation(d) /\ StillAbsent(d)
      BY <3>1 DEF ThreadOK
    <3>3. Undone'
      BY <1>1, <1>5, <2>2, <3>1, <3>2, UndoneKept
    <3>4. ASSUME NEW c \in Dispatchers PROVE ThreadOK(c)'
      <4>1. OwnsFence(c) /\ CoversProcess(c) /\ CoversMutation(c) /\ StillAbsent(c)
        BY <3>1 DEF ThreadOK
      <4>2. OwnsFence(c)'
        BY <1>1, <1>5, <3>1, <4>1, OwnsKept
      <4>3. CoversProcess(c)'
        BY <1>1, <1>5, <2>2, <3>2, <4>1, ProcessCoverKept
      <4>4. CoversMutation(c)'
        BY <1>1, <1>5, <2>2, <3>2, <4>1, MutationCoverKept
      <4>5. StillAbsent(c)'
        BY <1>1, <1>5, <2>2, <3>2, <4>1, AbsenceKept
      <4> QED
        BY <4>2, <4>3, <4>4, <4>5 DEF ThreadOK
    <3> QED
      BY <3>3, <3>4
  <2> QED
    BY <2>1, <2>2 DEF ExclusionInv
<1> QED
  BY <1>2, <1>3, <1>4, <1>5 DEF DispatchNext

\* What the promises below rest on.
THEOREM ExclusionHolds == DispatchSpec => []ExclusionInv
<1>1. ASSUME ExclusionInv, [DispatchNext]_dispatchVars PROVE ExclusionInv'
  BY <1>1, ExclusionKept
<1> QED
  BY <1>1, ExclusionInitial, PTL DEF DispatchSpec

\* A thread at work holds the live lease of its effect.
LEMMA WorkIsCovered ==
  ASSUME ExclusionInv, Exclusive, NEW d \in Dispatchers
  PROVE  /\ Alive(d) \/ job[d].pc = "applying"
              => HoldsLease(job[d]) /\ job[d].effect \in Effects /\ OwnsFence(d)
         /\ Alive(d) => effects[job[d].effect].state = "started"
         /\ job[d].pc = "applying" => effects[job[d].effect].state = "prepared"
<1>1. ThreadOK(d) /\ DispatchTyped
  BY DEF ExclusionInv
<1>2. SUFFICES ASSUME Alive(d) \/ job[d].pc = "applying"
               PROVE  /\ HoldsLease(job[d]) /\ job[d].effect \in Effects /\ OwnsFence(d)
                      /\ Alive(d) => effects[job[d].effect].state = "started"
                      /\ job[d].pc = "applying" => effects[job[d].effect].state = "prepared"
  BY DEF Alive
<1>3. /\ job[d].pc \in {"running", "effective", "applying"} /\ job[d].effect \in Effects
      /\ leases[job[d].effect].expires \in Nat /\ clock \in Nat /\ job[d].elapsed \in Nat
  <2>1. job[d].pc \in {"running", "effective", "applying"}
    BY <1>2 DEF Alive
  <2> QED
    BY <1>1, <2>1, Numbers DEF InCallPcs, Pcs
<1>4. CASE job[d].pc \in {"running", "effective"}
  BY <1>1, <1>3, <1>4, BudgetOrder DEF ThreadOK, CoversProcess, HoldsLease, LeaseOf, Alive
<1>5. CASE job[d].pc = "applying"
  BY <1>1, <1>3, <1>5, BudgetOrder DEF ThreadOK, CoversMutation, HoldsLease, LeaseOf, Alive
<1> QED
  BY <1>3, <1>4, <1>5

\* A process never outlives the lease it was started under.
THEOREM ProcessesUnderLease == DispatchSpec => []ProcessUnderLease
<1>1. ExclusionInv => ProcessUnderLease
  BY WorkIsCovered DEF ProcessUnderLease
<1> QED
  BY <1>1, ExclusionHolds, PTL

\* git apply, its verification and its rollback run under a live lease.
THEOREM MutationsUnderLease == DispatchSpec => []HostChangedUnderLease
<1>1. ExclusionInv => HostChangedUnderLease
  BY WorkIsCovered DEF HostChangedUnderLease
<1> QED
  BY <1>1, ExclusionHolds, PTL

\* Two processes never work on one effect at the same time.
THEOREM ProcessesExclude == DispatchSpec => []OneProcessPerEffect
<1>1. ASSUME ExclusionInv PROVE OneProcessPerEffect
  <2>1. SUFFICES ASSUME Exclusive, NEW c \in Dispatchers, NEW d \in Dispatchers,
                        Alive(c), Alive(d), job[c].effect = job[d].effect
                 PROVE  c = d
    BY DEF OneProcessPerEffect
  <2>2. /\ HoldsLease(job[c]) /\ HoldsLease(job[d]) /\ OwnsFence(c) /\ OwnsFence(d)
    BY <1>1, <2>1, WorkIsCovered
  <2>3. job[c].pc \in InCallPcs /\ job[d].pc \in InCallPcs
    BY <2>1 DEF Alive, InCallPcs, Pcs
  <2>4. WorkerOf[c] = WorkerOf[d]
    BY <2>1, <2>2, <2>3 DEF HoldsLease, OwnsFence, LeaseOf
  <2> QED
    BY <2>1, <2>4 DEF Exclusive
<1> QED
  BY <1>1, ExclusionHolds, PTL

\* An effect that may be dispatched has not happened, and nothing is still
\* working on it.
THEOREM PlannedIsUndone == DispatchSpec => []PlannedMeansUndone
<1>1. ASSUME ExclusionInv PROVE PlannedMeansUndone
  <2>1. SUFFICES ASSUME Exclusive, NEW e \in Effects, effects[e].state = "intent"
                 PROVE  /\ applied[e] = 0
                        /\ \A d \in Dispatchers :
                             job[d].effect = e => ~Alive(d) /\ job[d].pc # "applying"
    BY DEF PlannedMeansUndone
  <2>2. applied[e] = 0
    BY <1>1, <2>1 DEF ExclusionInv, Undone
  <2>3. \A d \in Dispatchers : job[d].effect = e => ~Alive(d) /\ job[d].pc # "applying"
    BY <1>1, <2>1, WorkIsCovered
  <2> QED
    BY <2>2, <2>3
<1> QED
  BY <1>1, ExclusionHolds, PTL
-----------------------------------------------------------------------------

-----------------------------------------------------------------------------
(* One process per fence, of whatever capability, of threads under ids of   *)
(* their own.  record_effect accepts a STARTED that is already there, so    *)
(* for a command it is the lease that has to tell two grants apart.         *)

OwnIds == \A c, d \in Dispatchers : WorkerOf[c] = WorkerOf[d] => c = d

\* A grant that has not been dispatched.
Pending(d) == \/ job[d].pc = "granted" /\ job[d].role = "dispatch"
              \/ job[d].pc \in {"checked", "admitted"}

\* No two threads hold the same fence of an effect.
FencesApart ==
  \A c, d \in Dispatchers :
    /\ job[c].pc \in InCallPcs /\ job[d].pc \in InCallPcs
    /\ job[c].effect = job[d].effect /\ job[c].fence = job[d].fence
    => c = d

\* As long as its lease is live, an undispatched grant is for an INTENT effect.
GrantsIntent(d) ==
  Pending(d) /\ LeaseOf(d).fence = job[d].fence /\ LeaseOf(d).expires > observed
    => effects[job[d].effect].state = "intent"

\* What is about to be launched has not been launched, and was started under
\* the thread's fence.
Unlaunched(d) ==
  /\ Pending(d) \/ AboutToLaunch(d)
       => \A p \in launched[job[d].effect] : p[2] # job[d].fence
  /\ AboutToLaunch(d) => job[d].fence \in started[job[d].effect]

LaunchedWereStarted == \A e \in Effects : \A p \in launched[e] : p[2] \in started[e]

ClaimsHold ==
  /\ \A d \in Dispatchers : OwnsFence(d) /\ GrantsIntent(d) /\ Unlaunched(d)
  /\ FencesApart
  /\ LaunchedWereStarted
  /\ LaunchOncePerFence

ClaimInv == DispatchTyped /\ (OwnIds => ClaimsHold)

\* A grant becomes pending by a reservation, of an INTENT effect, and stays so
\* by steps that change nothing.
LEMMA NextPending ==
  ASSUME DispatchTyped, NEW d \in Dispatchers, Step(d), Pending(d)'
  PROVE
    LET e == job[d].effect IN
    /\ e \in Effects /\ job'[d].effect = e /\ UNCHANGED <<effects, started, launched>>
    /\ \/ Pending(d) /\ UNCHANGED vars /\ job'[d].fence = job[d].fence
       \/ /\ effects[e].state = "intent" /\ job'[d].fence = leases'[e].fence
          /\ observed' = clock /\ clock >= observed
          /\ \/ Rests(e) /\ leases[e].expires > clock
             \/ leases'[e].fence = leases[e].fence + 1
<1> USE DEF Pending
<1>1. JobsTyped /\ RowsTyped /\ WorkerOf[d] \in Workers
      /\ (job[d].pc # "idle" => job[d].effect \in Effects)
  BY InCall
<1>2. \A j : Become(d, j) => job'[d] = j
  BY <1>1, Became
<1>3. \A pc : Goto(d, pc) => /\ job'[d].pc = pc /\ job'[d].effect = job[d].effect
                             /\ job'[d].fence = job[d].fence
                             /\ job'[d].role = job[d].role
  BY <1>2 DEF Goto, Moved
<1>4. \A pc, ref : Carry(d, pc, ref) => job'[d].pc = pc
  BY <1>2 DEF Carry, Moved
<1>5. Return(d) => job'[d].pc = "idle"
  BY <1>2 DEF Return, Idle
<1>6. CASE Check(d) \/ Recheck(d)
  BY <1>1, <1>3, <1>6 DEF Check, Recheck, vars, Unmoved
<1>7. CASE Reserve(d)
  <2> DEFINE e == job[d].effect
             w == WorkerOf[d]
             ttl == LeaseTTL
  <2>1. /\ e \in Effects /\ w \in Workers /\ ttl \in Nat /\ AcquireAttempt(e, w, ttl)
        /\ UNCHANGED <<effects, started, launched>>
    BY <1>1, <1>7, Budgets DEF Reserve, AcquireAttempt, Unmoved
  <2>2. /\ effects[e].state = "intent" /\ job'[d].fence = leases'[e].fence
        /\ job'[d].effect = e
    BY <1>2, <1>5, <1>7 DEF Reserve
  <2> HIDE DEF e, w, ttl
  <2>3. /\ Concerns(e)
        /\ \/ Rests(e) /\ leases[e].expires > clock
           \/ Takes(e, w)
    BY <1>1, <2>1, AcquireMoves
  <2> QED
    BY <2>1, <2>2, <2>3 DEF Concerns, Takes, e
<1>8. ~Anchor(d) /\ ~Start(d) /\ \A e \in Effects : ~Recover(d, e)
  BY <1>2 DEF Anchor, Start, Recover, Moved
<1>9. \A e \in Effects, role \in {"dispatch", "adopt"} : ~Authorize(d, e, role)
  BY <1>2 DEF Authorize
<1>10. ~Launch(d) /\ ~TakeEffect(d) /\ ~Prepare(d) /\ ~Lock(d) /\ ~Exit(d)
  BY <1>3, <1>4 DEF Launch, TakeEffect, Prepare, Lock, Exit
<1>11. ~Rebind(d) /\ ~Clear(d) /\ ~Apply(d) /\ ~Finish(d) /\ ~Adopt(d) /\ ~Report(d) /\ ~Abandon(d)
  BY <1>3, <1>4, <1>5 DEF Rebind, Clear, Apply, Finish, Adopt, Report, Abandon
<1>12. ~Probe(d)
  BY <1>3 DEF Probe, Seen
<1> QED
  BY <1>6, <1>7, <1>8, <1>9, <1>10, <1>11, <1>12 DEF Step

\* A thread begins a call under the fence the lease has then, or goes on with
\* the one it has.
LEMMA NextCall ==
  ASSUME DispatchTyped, NEW d \in Dispatchers, Step(d), job'[d].pc \in InCallPcs
  PROVE  \/ /\ job'[d].effect \in Effects
            /\ job'[d].fence = leases'[job'[d].effect].fence
            /\ leases'[job'[d].effect].worker = WorkerOf[d]
         \/ /\ job[d].pc \in InCallPcs
            /\ job'[d].effect = job[d].effect /\ job'[d].fence = job[d].fence
BY NextJob DEF InCallPcs

\* Fences stay apart: a lease is shared by nobody, and a new one is nobody's.
LEMMA ApartKept ==
  ASSUME DispatchTyped, OwnIds, NEW d \in Dispatchers, Step(d), UNCHANGED deployment,
         \A c \in Dispatchers : OwnsFence(c), FencesApart
  PROVE  FencesApart'
<1>1. Moves(d) /\ \A c \in Dispatchers : OwnsFence(c)'
  BY StepMoves, OwnsKept
<1>2. \A c \in Dispatchers : c # d => job'[c] = job[c]
  BY <1>1 DEF Moves
<1>3. WorkerOf' = WorkerOf
  BY DEF WorkerOf
<1>4. ASSUME NEW c \in Dispatchers, c # d, job'[c].pc \in InCallPcs, job'[d].pc \in InCallPcs,
             job'[c].effect = job'[d].effect, job'[c].fence = job'[d].fence
      PROVE  FALSE
  <2>1. job'[c] = job[c] /\ job[c].pc \in InCallPcs
    BY <1>2, <1>4
  <2>2. CASE /\ job'[d].fence = leases'[job'[d].effect].fence
             /\ leases'[job'[d].effect].worker = WorkerOf[d]
    BY <1>1, <1>3, <1>4, <2>2 DEF OwnsFence, LeaseOf, OwnIds
  <2>3. CASE /\ job[d].pc \in InCallPcs
             /\ job'[d].effect = job[d].effect /\ job'[d].fence = job[d].fence
    BY <1>4, <2>1, <2>3 DEF FencesApart
  <2> QED
    BY <1>4, <2>2, <2>3, NextCall
<1> QED
  BY <1>2, <1>4 DEF FencesApart

\* A grant stays for an INTENT effect: only its own fence could change the row.
LEMMA IntentKept ==
  ASSUME DispatchTyped, NEW d \in Dispatchers, Step(d), UNCHANGED deployment,
         NEW c \in Dispatchers, OwnsFence(c), FencesApart, GrantsIntent(c)
  PROVE  GrantsIntent(c)'
<1> SUFFICES ASSUME Pending(c)', LeaseOf(c)'.fence = job'[c].fence,
                    LeaseOf(c)'.expires > observed'
             PROVE  effects'[job'[c].effect].state = "intent"
  BY DEF GrantsIntent
<1>1. Moves(d) /\ DispatchTyped'
  BY StepMoves
<1>2. CASE c = d
  BY <1>2, NextPending DEF GrantsIntent, LeaseOf, vars
<1>3. CASE c # d
  <2> DEFINE e == job[c].effect
  <2>1. job'[c] = job[c] /\ Pending(c) /\ job[c].pc \in InCallPcs
    BY <1>1, <1>3 DEF Moves, Pending, InCallPcs, Pcs
  <2>2. /\ e \in Effects /\ leases[e].fence \in Nat /\ job[c].fence \in Nat
        /\ observed \in Nat /\ observed' \in Nat /\ observed' >= observed
        /\ leases[e].expires \in Nat /\ leases'[e].expires \in Nat
    BY <1>1, <2>1, Numbers, JournalConstants
    DEF Moves, DispatchTyped, RowsTyped, LeaseRows
  <2>3. job[c].fence <= leases[e].fence /\ leases'[e].fence = job[c].fence
    BY <2>1 DEF OwnsFence, LeaseOf
  <2>4. ~Takes(e, WorkerOf[d])
    BY <2>2, <2>3 DEF Takes
  <2>5. ~(Works(e, job[d].fence) /\ Calls(d, e))
    <3>1. SUFFICES ASSUME Works(e, job[d].fence), Calls(d, e) PROVE FALSE
      OBVIOUS
    <3>2. job[d].fence = job[c].fence /\ job[d].effect = e /\ job[d].pc \in InCallPcs
      BY <2>3, <3>1, Numbers DEF Works, Calls, InCallPcs
    <3> QED
      BY <1>3, <2>1, <3>2 DEF FencesApart
  <2>6. Rests(e)
    BY <1>1, <2>2, <2>4, <2>5 DEF Moves
  <2> QED
    BY <2>1, <2>2, <2>3, <2>6 DEF Rests, GrantsIntent, LeaseOf
<1> QED
  BY <1>2, <1>3

\* A new grant's fence has launched nothing: it has started nothing.
LEMMA NewGrantUnlaunched ==
  ASSUME DispatchTyped, FencesSpent, LaunchedWereStarted, NEW d \in Dispatchers, Step(d),
         Pending(d)', ~Pending(d) \/ job'[d].fence # job[d].fence
  PROVE  \A p \in launched'[job'[d].effect] : p[2] # job'[d].fence
<1> DEFINE e == job[d].effect
<1>1. /\ e \in Effects /\ job'[d].effect = e /\ launched' = launched
      /\ effects[e].state = "intent" /\ job'[d].fence = leases'[e].fence
      /\ clock >= observed
      /\ \/ Rests(e) /\ leases[e].expires > clock
         \/ leases'[e].fence = leases[e].fence + 1
  BY NextPending
<1>2. /\ leases[e].fence \in Nat /\ leases[e].expires \in Nat /\ clock \in Nat
      /\ observed \in Nat /\ started[e] \subseteq Nat
  BY <1>1, Numbers DEF DispatchTyped, RowsTyped, Fences
<1>3. leases'[e].fence \notin started[e]
  BY <1>1, <1>2 DEF FencesSpent, Rests
<1> QED
  BY <1>1, <1>3 DEF LaunchedWereStarted
-----------------------------------------------------------------------------

\* Start under a live lease is a new STARTED: the row was INTENT.
LEMMA StartIsNoted ==
  ASSUME DispatchTyped, NEW d \in Dispatchers, Start(d), GrantsIntent(d)
  PROVE  started'[job[d].effect] = started[job[d].effect] \cup {job[d].fence}
<1> DEFINE e == job[d].effect
<1>1. /\ e \in Effects /\ Concerns(e)
      /\ leases[e].fence = job[d].fence /\ leases[e].expires > clock
      /\ effects'[e].state = "started"
      /\ Rests(e) \/ started'[e] = started[e] \cup {job[d].fence}
  BY StartMoves
<1>2. leases[e].expires > observed
  BY <1>1, Numbers DEF Concerns
<1>3. effects[e].state = "intent"
  BY <1>1, <1>2 DEF Start, Pending, GrantsIntent, LeaseOf
<1> QED
  BY <1>1, <1>3 DEF Rests

\* What is about to be launched is still not launched.
LEMMA UnlaunchedKept ==
  ASSUME DispatchTyped, FencesSpent, ClaimsHold, NEW d \in Dispatchers, Step(d),
         UNCHANGED deployment, NEW c \in Dispatchers
  PROVE  Unlaunched(c)'
<1> USE DEF AboutToLaunch
<1>1. Moves(d) /\ Unlaunched(c) /\ GrantsIntent(d) /\ FencesApart
  BY StepMoves DEF ClaimsHold
<1>2. \A x \in Effects : started[x] \subseteq started'[x]
  BY NotedByStart, StartMoves DEF Rests
<1>3. CASE c # d /\ (Pending(c) \/ job[c].pc = "started")
  <2> DEFINE e == job[c].effect
             f == job[c].fence
  <2>1. job'[c] = job[c] /\ job[c].pc \in InCallPcs /\ e \in Effects
    BY <1>1, <1>3, Numbers DEF Moves, Pending, InCallPcs, Pcs
  <2>2. \A p \in launched'[e] : p[2] # f
    <3>1. CASE launched' = launched
      BY <1>1, <1>3, <3>1 DEF Unlaunched
    <3>2. CASE Launch(d)
      <4>1. /\ job[d].pc \in InCallPcs
            /\ launched' = [launched EXCEPT ![job[d].effect] = @ \cup {<<d, job[d].fence>>}]
        BY <3>2 DEF Launch, InCallPcs, Pcs
      <4>2. ~(job[d].effect = e /\ job[d].fence = f)
        BY <1>1, <1>3, <2>1, <4>1 DEF FencesApart
      <4>3. \A p \in launched[e] : p[2] # f
        BY <1>1, <1>3 DEF Unlaunched
      <4>4. launched \in [Effects -> SUBSET (Dispatchers \X Fences)]
        BY DEF DispatchTyped, HistoryTyped
      <4> HIDE DEF e, f
      <4> QED
        BY <2>1, <4>1, <4>2, <4>3, <4>4
    <3> QED
      BY <3>1, <3>2, LaunchedByLaunch
  <2>3. job[c].pc = "started" => f \in started'[e]
    BY <1>1, <1>2, <2>1 DEF Unlaunched
  <2> QED
    BY <2>1, <2>2, <2>3 DEF Unlaunched
<1>4. CASE c # d /\ ~(Pending(c) \/ job[c].pc = "started")
  BY <1>1, <1>4 DEF Moves, Unlaunched, Pending
<1>5. CASE c = d /\ Pending(d)'
  <2>1. job'[d].pc # "started"
    BY <1>5 DEF Pending
  <2>2. \A p \in launched'[job'[d].effect] : p[2] # job'[d].fence
    <3>1. CASE Pending(d) /\ job'[d].fence = job[d].fence
      BY <1>1, <1>5, <3>1, NextPending DEF Unlaunched
    <3>2. CASE ~Pending(d) \/ job'[d].fence # job[d].fence
      BY <1>5, <3>2, NewGrantUnlaunched DEF ClaimsHold
    <3> QED
      BY <3>1, <3>2
  <2> QED
    BY <1>5, <2>1, <2>2 DEF Unlaunched
<1>6. CASE c = d /\ job'[d].pc = "started"
  <2>1. Start(d)
    BY <1>6, LaunchFollowsStart
  <2>2. /\ Pending(d) /\ launched' = launched
        /\ job'[d].effect = job[d].effect /\ job'[d].fence = job[d].fence
    BY <2>1, StartMoves DEF Start, Pending, Unmoved, Moved
  <2>3. job[d].fence \in started'[job[d].effect]
    BY <1>1, <2>1, StartIsNoted
  <2> QED
    BY <1>1, <1>6, <2>2, <2>3 DEF Unlaunched
<1>7. CASE c = d /\ ~Pending(d)' /\ job'[d].pc # "started"
  BY <1>7 DEF Unlaunched
<1> QED
  BY <1>3, <1>4, <1>5, <1>6, <1>7

\* The launches stay those of started fences, one for each.
LEMMA LaunchesKept ==
  ASSUME DispatchTyped, ClaimsHold, NEW d \in Dispatchers, Step(d)
  PROVE  LaunchedWereStarted' /\ LaunchOncePerFence'
<1>1. \A x \in Effects : started[x] \subseteq started'[x]
  BY NotedByStart, StartMoves DEF Rests
<1>2. Unlaunched(d) /\ LaunchedWereStarted /\ LaunchOncePerFence
  BY DEF ClaimsHold
<1>3. CASE launched' = launched
  BY <1>1, <1>2, <1>3 DEF LaunchedWereStarted, LaunchOncePerFence
<1>4. CASE Launch(d)
  <2> DEFINE e == job[d].effect
             f == job[d].fence
  <2>1. /\ job[d].pc = "started" /\ e \in Effects
        /\ launched' = [launched EXCEPT ![e] = @ \cup {<<d, f>>}]
    BY <1>4, InCall DEF Launch
  <2>2. f \in started[e] /\ \A p \in launched[e] : p[2] # f
    BY <1>2, <2>1 DEF Unlaunched, AboutToLaunch
  <2> HIDE DEF e, f
  <2>3. /\ launched'[e] = launched[e] \cup {<<d, f>>}
        /\ \A x \in Effects : x # e => launched'[x] = launched[x]
    BY <2>1 DEF DispatchTyped, HistoryTyped
  <2>4. LaunchedWereStarted'
    BY <1>1, <1>2, <2>2, <2>3 DEF LaunchedWereStarted
  <2>5. LaunchOncePerFence'
    BY <1>2, <2>2, <2>3 DEF LaunchOncePerFence
  <2> QED
    BY <2>4, <2>5
<1> QED
  BY <1>3, <1>4, LaunchedByLaunch

\* No step breaks the claims.
LEMMA ClaimsKept ==
  ASSUME ClaimInv, FencesSpent, [DispatchNext]_dispatchVars PROVE ClaimInv'
<1>1. DispatchTyped
  BY DEF ClaimInv
<1>2. CASE UNCHANGED dispatchVars
  BY <1>2
  DEF dispatchVars, vars, ClaimInv, DispatchTyped, RowsTyped, JobsTyped, JobOK, HistoryTyped,
      OwnIds, WorkerOf, ClaimsHold, OwnsFence, GrantsIntent, Unlaunched, Pending,
      AboutToLaunch, LeaseOf, FencesApart, LaunchedWereStarted, LaunchOncePerFence
<1>3. CASE (PassTime \/ SetBack) /\ UNCHANGED deployment
  <2>1. /\ DispatchTyped' /\ OwnIds' = OwnIds /\ WorkerOf' = WorkerOf
        /\ UNCHANGED <<observed, effects, leases, started, launched>>
    BY <1>1, <1>3, TimeTyped DEF OwnIds, WorkerOf
  <2>2. \A d \in Dispatchers :
          /\ job'[d].pc = job[d].pc /\ job'[d].effect = job[d].effect
          /\ job'[d].fence = job[d].fence /\ job'[d].role = job[d].role
    BY <1>3 DEF PassTime, SetBack, Moved
  <2>3. ASSUME ClaimsHold, NEW d \in Dispatchers
        PROVE  OwnsFence(d)' /\ GrantsIntent(d)' /\ Unlaunched(d)'
    <3>1. OwnsFence(d) /\ GrantsIntent(d) /\ Unlaunched(d)
      BY <2>3 DEF ClaimsHold
    <3> QED
      BY <2>1, <2>2, <3>1 DEF OwnsFence, GrantsIntent, Unlaunched, Pending, AboutToLaunch, LeaseOf
  <2>4. ClaimsHold => FencesApart' /\ LaunchedWereStarted' /\ LaunchOncePerFence'
    BY <2>1, <2>2 DEF ClaimsHold, FencesApart, LaunchedWereStarted, LaunchOncePerFence
  <2>5. ClaimsHold => ClaimsHold'
    BY <2>3, <2>4 DEF ClaimsHold
  <2> QED
    BY <2>1, <2>5 DEF ClaimInv
<1>4. CASE MoveRun /\ UNCHANGED deployment
  <2>1. /\ DispatchTyped' /\ OwnIds' = OwnIds /\ WorkerOf' = WorkerOf
        /\ UNCHANGED <<observed, leases, started, job, launched>>
        /\ \A e \in Effects : \/ effects'[e] = effects[e]
                              \/ effects[e].state = "absent" /\ effects'[e].state = "intent"
    BY <1>1, <1>4, RunTyped DEF OwnIds, WorkerOf
  <2>2. ASSUME ClaimsHold, NEW d \in Dispatchers
        PROVE  OwnsFence(d)' /\ GrantsIntent(d)' /\ Unlaunched(d)'
    <3>1. OwnsFence(d) /\ GrantsIntent(d) /\ Unlaunched(d)
      BY <2>2 DEF ClaimsHold
    <3>2. Pending(d) => job[d].effect \in Effects
      BY <1>1, Numbers DEF Pending, InCallPcs, Pcs
    <3> QED
      BY <2>1, <3>1, <3>2
      DEF OwnsFence, GrantsIntent, Unlaunched, Pending, AboutToLaunch, LeaseOf
  <2>3. ClaimsHold => FencesApart' /\ LaunchedWereStarted' /\ LaunchOncePerFence'
    BY <2>1 DEF ClaimsHold, FencesApart, LaunchedWereStarted, LaunchOncePerFence
  <2>4. ClaimsHold => ClaimsHold'
    BY <2>2, <2>3 DEF ClaimsHold
  <2> QED
    BY <2>1, <2>4 DEF ClaimInv
<1>5. ASSUME NEW d \in Dispatchers, Step(d), UNCHANGED deployment PROVE ClaimInv'
  <2>1. DispatchTyped' /\ OwnIds' = OwnIds
    BY <1>1, <1>5, StepMoves DEF OwnIds, WorkerOf
  <2>2. ASSUME OwnIds, ClaimsHold PROVE ClaimsHold'
    <3>1. FencesApart /\ \A c \in Dispatchers : OwnsFence(c) /\ GrantsIntent(c)
      BY <2>2 DEF ClaimsHold
    <3>2. FencesApart'
      BY <1>1, <1>5, <2>2, <3>1, ApartKept
    <3>3. ASSUME NEW c \in Dispatchers PROVE OwnsFence(c)' /\ GrantsIntent(c)' /\ Unlaunched(c)'
      BY <1>1, <1>5, <2>2, <3>1, OwnsKept, IntentKept, UnlaunchedKept
    <3>4. LaunchedWereStarted' /\ LaunchOncePerFence'
      BY <1>1, <1>5, <2>2, LaunchesKept
    <3> QED
      BY <3>2, <3>3, <3>4 DEF ClaimsHold
  <2> QED
    BY <2>1, <2>2 DEF ClaimInv
<1> QED
  BY <1>2, <1>3, <1>4, <1>5 DEF DispatchNext

\* A fence pays for one process of any capability, as long as no two threads
\* present the same worker id; for a worker, sandboxed or not, even if they do.
THEOREM FencesPayOnce ==
  DispatchSpec => []((Kind # "command" \/ OwnIds) => LaunchOncePerFence)
<1>1. DispatchInit => ClaimInv
  <2> SUFFICES ASSUME DispatchInit PROVE ClaimInv
    OBVIOUS
  <2>1. ClaimsHold
    BY DEF DispatchInit, Init, Idle, ClaimsHold, OwnsFence, GrantsIntent, Unlaunched, Pending,
           AboutToLaunch, FencesApart, LaunchedWereStarted, LaunchOncePerFence, InCallPcs
  <2> QED
    BY <2>1, InitTyped DEF ClaimInv
<1>2. ASSUME ClaimInv, FencesSpent, [DispatchNext]_dispatchVars PROVE ClaimInv'
  BY <1>2, ClaimsKept
<1>3. ClaimInv => (OwnIds => LaunchOncePerFence)
  BY DEF ClaimInv, ClaimsHold
<1> QED
  BY <1>1, <1>2, <1>3, AttemptsSpendFences, WorkersLaunchOnce, PTL DEF DispatchSpec
-----------------------------------------------------------------------------

-----------------------------------------------------------------------------
(* The host is changed once.  The root lock serialises the commits, and the *)
(* one that holds it looks whether the host has the result before it goes   *)
(* on; so a stage is applied once, however often its effect is retried,     *)
(* adopted or recovered, under shared worker ids too.                       *)

OneCommitter ==
  \A c, d \in Dispatchers : job[c].pc \in CommitPcs /\ job[d].pc \in CommitPcs => c = d

\* A commit that goes on found the host without the result.
CommitsAnew(d) ==
  job[d].pc \in {"cleared", "rebound", "applying"} => applied[job[d].effect] = 0

AppliedOnce == Kind = "worker" => \A e \in Effects : applied[e] <= 1

CommitInv ==
  /\ DispatchTyped
  /\ OneCommitter
  /\ Kind = "worker" => (AppliedOnce /\ \A d \in Dispatchers : CommitsAnew(d))

\* A commit begins by taking the lock nobody holds, and goes on step by step.
LEMMA NextCommit ==
  ASSUME DispatchTyped, NEW d \in Dispatchers, Step(d), job'[d].pc \in CommitPcs
  PROVE  /\ \/ job[d].pc \in CommitPcs
            \/ /\ job'[d].pc = "bound"
               /\ \A c \in Dispatchers : job[c].pc \notin CommitPcs
         /\ job'[d].pc # "bound"
              => /\ applied' = applied /\ job'[d].effect = job[d].effect
                 /\ job[d].pc \in {"cleared", "rebound"} \/ applied[job[d].effect] = 0
<1> USE DEF CommitPcs
<1>1. JobsTyped
  BY InCall
<1>2. \A j : Become(d, j) => job'[d] = j
  BY <1>1, Became
<1>3. \A pc : Goto(d, pc) => job'[d].pc = pc /\ job'[d].effect = job[d].effect
  BY <1>2 DEF Goto, Moved
<1>4. \A pc, ref : Carry(d, pc, ref) => job'[d].pc = pc /\ job'[d].effect = job[d].effect
  BY <1>2 DEF Carry, Moved
<1>5. Return(d) => job'[d].pc = "idle"
  BY <1>2 DEF Return, Idle
<1>6. CASE Lock(d) \/ Rebind(d)
  BY <1>3, <1>6 DEF Lock, Rebind, Unmoved
<1>7. CASE Clear(d)
  BY <1>3, <1>4, <1>7 DEF Clear, Unmoved
<1>8. ~Reserve(d) /\ ~Start(d) /\ ~Anchor(d) /\ \A e \in Effects : ~Recover(d, e)
  BY <1>2, <1>5 DEF Reserve, Start, Anchor, Recover, Moved
<1>9. \A e \in Effects, role \in {"dispatch", "adopt"} : ~Authorize(d, e, role)
  BY <1>2 DEF Authorize
<1>10. ~Check(d) /\ ~Recheck(d) /\ ~Launch(d) /\ ~TakeEffect(d) /\ ~Exit(d) /\ ~Prepare(d)
  BY <1>3, <1>4 DEF Check, Recheck, Launch, TakeEffect, Exit, Prepare
<1>11. ~Apply(d) /\ ~Finish(d) /\ ~Adopt(d) /\ ~Report(d) /\ ~Abandon(d)
  BY <1>4, <1>5 DEF Apply, Finish, Adopt, Report, Abandon
<1>12. ~Probe(d)
  BY <1>3 DEF Probe, Seen
<1> QED
  BY <1>6, <1>7, <1>8, <1>9, <1>10, <1>11, <1>12 DEF Step

\* The commits stay one at a time and the host is changed once.
LEMMA CommitKept ==
  ASSUME CommitInv, NEW d \in Dispatchers, Step(d), UNCHANGED deployment
  PROVE  CommitInv'
<1> USE DEF CommitInv
<1>1. /\ Moves(d) /\ DispatchTyped' /\ Kind' = Kind
      /\ \A c \in Dispatchers : c # d => job'[c] = job[c]
  BY StepMoves DEF Moves, Kind
<1>2. OneCommitter'
  BY <1>1, NextCommit DEF OneCommitter
<1>3. ASSUME Kind = "worker" PROVE AppliedOnce' /\ \A c \in Dispatchers : CommitsAnew(c)'
  <2>1. \A x \in Effects : applied[x] <= 1 /\ applied[x] \in Nat
    BY <1>3 DEF AppliedOnce, DispatchTyped, HistoryTyped
  <2>2. CASE Apply(d)
    <3> DEFINE e == job[d].effect
    <3>1. /\ job[d].pc = "applying" /\ applied' = [applied EXCEPT ![e] = @ + 1]
          /\ Carry(d, "finishing", job[d].ref) /\ e \in Effects
      BY <2>2, InCall DEF Apply
    <3>2. applied[e] = 0 /\ applied \in [Effects -> Nat]
      BY <1>3, <3>1 DEF CommitsAnew, DispatchTyped, HistoryTyped
    <3>3. job'[d].pc = "finishing"
      BY <3>1, Became DEF Carry, Moved, DispatchTyped
    <3>4. \A c \in Dispatchers : c # d => job[c].pc \notin CommitPcs
      BY <3>1 DEF OneCommitter, CommitPcs
    <3>5. \A c \in Dispatchers : job'[c].pc \notin CommitPcs
      BY <1>1, <3>3, <3>4 DEF CommitPcs
    <3>6. \A c \in Dispatchers : CommitsAnew(c)'
      BY <3>5 DEF CommitsAnew, CommitPcs
    <3> HIDE DEF e
    <3>7. \A x \in Effects : applied'[x] <= 1
      BY <2>1, <3>1, <3>2
    <3> QED
      BY <1>1, <3>6, <3>7 DEF AppliedOnce
  <2>3. CASE applied' = applied
    <3>1. AppliedOnce'
      BY <1>1, <2>3 DEF AppliedOnce
    <3>2. ASSUME NEW c \in Dispatchers, c # d PROVE CommitsAnew(c)'
      BY <1>1, <1>3, <2>3, <3>2 DEF CommitsAnew
    <3>3. CommitsAnew(d)'
      BY <1>3, <2>3, NextCommit DEF CommitsAnew, CommitPcs
    <3> QED
      BY <3>1, <3>2, <3>3
  <2>4. applied' = applied \/ Apply(d)
    BY <1>3
    DEF Step, Authorize, Recover, Reserve, Check, Recheck, Start, Launch, TakeEffect, Exit,
        Prepare, Lock, Rebind, Clear, Finish, Adopt, Anchor, Probe, Report, Abandon, Unmoved
  <2> QED
    BY <2>2, <2>3, <2>4
<1> QED
  BY <1>1, <1>2, <1>3

\* A sandboxed worker's result reaches the host once at most, whatever crashed
\* or was retried, adopted or recovered in between (commit_export under the
\* root lock).
THEOREM HostIsChangedOnce == DispatchSpec => []AppliedOnce
<1>1. DispatchInit => CommitInv
  <2> SUFFICES ASSUME DispatchInit PROVE CommitInv
    OBVIOUS
  <2>1. OneCommitter /\ AppliedOnce /\ \A d \in Dispatchers : CommitsAnew(d)
    BY DEF DispatchInit, Idle, OneCommitter, AppliedOnce, CommitsAnew, CommitPcs
  <2> QED
    BY <2>1, InitTyped DEF CommitInv
<1>2. ASSUME CommitInv, [DispatchNext]_dispatchVars PROVE CommitInv'
  <2>1. CASE UNCHANGED dispatchVars
    BY <1>2, <2>1
    DEF dispatchVars, vars, CommitInv, DispatchTyped, RowsTyped, JobsTyped, JobOK,
        HistoryTyped, OneCommitter, AppliedOnce, CommitsAnew, Kind
  <2>2. CASE (PassTime \/ SetBack \/ MoveRun) /\ UNCHANGED deployment
    <3>1. DispatchTyped' /\ UNCHANGED applied /\ Kind' = Kind
      BY <1>2, <2>2, TimeTyped, RunTyped DEF CommitInv, Kind
    <3>2. \A d \in Dispatchers : job'[d].pc = job[d].pc /\ job'[d].effect = job[d].effect
      BY <2>2 DEF PassTime, SetBack, MoveRun, Moved
    <3> QED
      BY <1>2, <3>1, <3>2 DEF CommitInv, OneCommitter, AppliedOnce, CommitsAnew
  <2> QED
    BY <1>2, <2>1, <2>2, CommitKept DEF DispatchNext
<1>3. CommitInv => AppliedOnce
  BY DEF CommitInv, AppliedOnce
<1> QED
  BY <1>1, <1>2, <1>3, PTL DEF DispatchSpec
-----------------------------------------------------------------------------

-----------------------------------------------------------------------------
(* No adopted stage is ever committed.  The lease anchored for its commit   *)
(* lasts for the commit's budget and no longer, and the first authority     *)
(* check under the root lock asks for more.                                 *)

\* No more than the commit's budget is left of the lease, and nothing at all
\* once the effect may be dispatched again.
ShortLease(e) ==
  /\ leases[e].expires <= observed + CommitBudget
  /\ effects[e].state \in {"absent", "intent"} => leases[e].expires <= observed

AdoptionStops(d) ==
  job[d].role = "adopt" =>
    /\ job[d].pc \in {"context", "granted", "adopted", "staged", "bound"}
    /\ job[d].pc \in {"staged", "bound"} /\ LeaseOf(d).fence = job[d].fence
         => ShortLease(job[d].effect)

AdoptionInv == DispatchTyped /\ \A d \in Dispatchers : OwnsFence(d) /\ AdoptionStops(d)

\* What the journal's calls do to the end of a lease.
LEMMA NextExpiry ==
  ASSUME DispatchTyped, NEW d \in Dispatchers, Step(d), UNCHANGED deployment,
         NEW x \in Effects
  PROVE  \/ leases'[x].fence # leases[x].fence
         \/ leases'[x] = leases[x]
         \/ leases'[x].expires \in {clock, clock + CommitBudget} /\ observed' = clock
         \/ /\ effects[x].state = "intent" /\ leases[x].expires > clock /\ observed' = clock
<1>1. Moves(d)
  BY StepMoves
<1>2. CASE leases' = leases
  BY <1>2
<1>3. CASE Start(d)
  BY <1>3, StartMoves, WorkerIds DEF Concerns, Rests, DispatchTyped
<1>4. CASE Prepare(d) \/ Clear(d) \/ Finish(d)
  BY <1>4, RecordingMoves, ClearMoves DEF Concerns, Rests
<1>5. CASE Adopt(d)
  BY <1>5, AdoptingMoves DEF Concerns, Rests
<1>6. CASE Anchor(d)
  BY <1>6, AnchoringMoves DEF Concerns, Rests
<1>7. CASE Report(d)
  BY <1>7, ReportMoves DEF Concerns, Rests, Outcomes
<1>8. CASE job[d].pc \in {"idle", "context"}
  BY <1>1, <1>8, Numbers DEF Moves, Rests, Takes, Calls
<1> QED
  BY <1>2, <1>3, <1>4, <1>5, <1>6, <1>7, <1>8
  DEF Step, Authorize, Recover, Reserve, Check, Recheck, Launch, TakeEffect, Exit, Lock,
      Rebind, Apply, Probe, Abandon, Refused, vars

\* A short lease stays short for its fence.
LEMMA ShortKept ==
  ASSUME DispatchTyped, NEW d \in Dispatchers, Step(d), UNCHANGED deployment,
         NEW x \in Effects, leases'[x].fence = leases[x].fence, ShortLease(x)
  PROVE  ShortLease(x)'
<1>1. Moves(d) /\ DispatchTyped' /\ CommitBudget \in Nat
  BY StepMoves, Budgets
<1>2. /\ clock \in Nat /\ observed \in Nat /\ observed' \in Nat /\ observed' >= observed
      /\ leases[x].expires \in Nat /\ leases'[x].expires \in Nat
      /\ observed' \in {observed, clock}
  BY <1>1, Numbers DEF Moves, DispatchTyped, RowsTyped, LeaseRows
<1>3. leases'[x].expires <= observed' + CommitBudget
  BY <1>1, <1>2, NextExpiry DEF ShortLease
<1>4. ASSUME effects'[x].state \in {"absent", "intent"} PROVE leases'[x].expires <= observed'
  <2>1. CASE Rests(x)
    BY <1>2, <1>4, <2>1 DEF Rests, ShortLease
  <2>2. CASE Works(x, job[d].fence) /\ observed' = clock
    BY <1>2, <1>4, <2>2 DEF Works
  <2>3. ~Takes(x, WorkerOf[d])
    BY Numbers DEF Takes
  <2> QED
    BY <1>1, <2>1, <2>2, <2>3 DEF Moves
<1> QED
  BY <1>3, <1>4 DEF ShortLease

\* How an adoption goes on.
LEMMA NextAdoption ==
  ASSUME DispatchTyped, NEW d \in Dispatchers, Step(d), AdoptionStops(d),
         job'[d].role = "adopt"
  PROVE  \/ job'[d].pc \in {"context", "granted", "adopted"}
         \/ Anchor(d) /\ job'[d].pc = "staged"
         \/ /\ job[d].role = "adopt" /\ job[d].pc = "staged" /\ job'[d].pc = "bound"
            /\ job'[d].effect = job[d].effect /\ job'[d].fence = job[d].fence
<1>1. JobsTyped
  BY InCall
<1>2. \A j : Become(d, j) => job'[d] = j
  BY <1>1, Became
<1>3. \A pc : Goto(d, pc) => /\ job'[d].pc = pc /\ job'[d].role = job[d].role
                             /\ job'[d].effect = job[d].effect
                             /\ job'[d].fence = job[d].fence
  BY <1>2 DEF Goto, Moved
<1>4. \A pc, ref : Carry(d, pc, ref) => job'[d].pc = pc /\ job'[d].role = job[d].role
  BY <1>2 DEF Carry, Moved
<1>5. ~Return(d) /\ \A e \in Effects : ~Recover(d, e)
  BY <1>2 DEF Return, Recover, Idle
<1>6. ASSUME NEW e \in Effects, NEW role, Authorize(d, e, role) PROVE job'[d].pc = "context"
  BY <1>2, <1>6 DEF Authorize
<1>7. CASE Reserve(d)
  BY <1>2, <1>5, <1>7 DEF Reserve
<1>8. CASE Adopt(d)
  BY <1>4, <1>8 DEF Adopt
<1>9. CASE Anchor(d)
  BY <1>2, <1>9 DEF Anchor, Moved
<1>10. CASE Lock(d)
  BY <1>3, <1>10 DEF Lock
<1>11. ~Clear(d)
  <2>1. SUFFICES ASSUME Clear(d) PROVE FALSE
    OBVIOUS
  <2>2. /\ job[d].role = "adopt" /\ job[d].pc = "bound" /\ job[d].effect \in Effects
        /\ LeaseOf(d).fence = job[d].fence
        /\ LeaseOf(d).expires > clock + CommitBudget /\ clock >= observed
    BY <1>3, <1>4, <2>1, ClearMoves DEF AdoptionStops, Concerns, LeaseOf
  <2>3. LeaseOf(d).expires <= observed + CommitBudget
    BY <2>2 DEF AdoptionStops, ShortLease, LeaseOf
  <2> QED
    BY <2>2, <2>3, Numbers, Budgets DEF LeaseOf
<1>12. ~Check(d) /\ ~Recheck(d) /\ ~Launch(d) /\ ~TakeEffect(d) /\ ~Prepare(d) /\ ~Rebind(d)
       /\ ~Probe(d)
  BY <1>3 DEF Check, Recheck, Launch, TakeEffect, Prepare, Rebind, Probe, Seen, AdoptionStops
<1>13. ~Start(d) /\ ~Exit(d) /\ ~Apply(d) /\ ~Finish(d) /\ ~Report(d) /\ ~Abandon(d)
  BY <1>2, <1>4, <1>5
  DEF Start, Exit, Apply, Finish, Report, Abandon, Moved, AdoptionStops
<1> QED
  BY <1>5, <1>6, <1>7, <1>8, <1>9, <1>10, <1>11, <1>12, <1>13 DEF Step

\* An adoption stops before its commit through a step of any thread.
LEMMA AdoptionKept ==
  ASSUME AdoptionInv, NEW d \in Dispatchers, Step(d), UNCHANGED deployment,
         NEW c \in Dispatchers
  PROVE  OwnsFence(c)' /\ AdoptionStops(c)'
<1>1. DispatchTyped /\ OwnsFence(c) /\ AdoptionStops(c) /\ Moves(d) /\ DispatchTyped'
  BY StepMoves DEF AdoptionInv
<1>2. OwnsFence(c)'
  BY <1>1, OwnsKept
<1>3. ASSUME job[c].role = "adopt", job[c].pc \in {"staged", "bound"},
             job'[c].effect = job[c].effect, job'[c].fence = job[c].fence,
             LeaseOf(c)'.fence = job'[c].fence
      PROVE  ShortLease(job[c].effect)'
  <2>1. job[c].effect \in Effects /\ job[c].fence <= LeaseOf(c).fence
    BY <1>1, <1>3, Numbers DEF InCallPcs, Pcs, OwnsFence
  <2>2. leases'[job[c].effect].fence = leases[job[c].effect].fence
    BY <1>1, <1>3, <2>1, FencesGrow, Numbers DEF LeaseOf
  <2>3. PICK x \in Effects : x = job[c].effect
    BY <2>1
  <2>4. ShortLease(x)
    BY <1>1, <1>3, <2>2, <2>3 DEF AdoptionStops, LeaseOf, ShortLease
  <2>5. ShortLease(x)'
    BY <1>1, <2>2, <2>3, <2>4, ShortKept
  <2> QED
    BY <1>3, <2>3, <2>5 DEF ShortLease
<1>4. CASE c # d
  <2>1. job'[c] = job[c]
    BY <1>1, <1>4 DEF Moves
  <2>2. ASSUME job'[c].role = "adopt", job'[c].pc \in {"staged", "bound"},
               LeaseOf(c)'.fence = job'[c].fence
        PROVE  ShortLease(job[c].effect)'
    BY <1>3, <2>1, <2>2
  <2> QED
    BY <1>1, <1>2, <2>1, <2>2 DEF AdoptionStops
<1>5. CASE c = d
  <2>1. SUFFICES ASSUME job'[d].role = "adopt"
                 PROVE  AdoptionStops(d)'
    BY <1>2, <1>5 DEF AdoptionStops
  <2>2. CASE job'[d].pc \in {"context", "granted", "adopted"}
    BY <2>2 DEF AdoptionStops
  <2>3. CASE Anchor(d) /\ job'[d].pc = "staged"
    <3>1. /\ job[d].effect \in Effects /\ observed' = clock /\ CommitBudget \in Nat
          /\ leases'[job[d].effect].expires = clock + CommitBudget
          /\ effects'[job[d].effect].state = "prepared"
          /\ job'[d] = Moved(job[d], "staged", 0, 0, job[d].ref)
      BY <1>1, <2>3, AnchoringMoves, Became, Budgets DEF Concerns, DispatchTyped
    <3>2. ShortLease(job[d].effect)'
      <4>1. job'[d].effect = job[d].effect
        BY <3>1 DEF Moved
      <4>2. clock + CommitBudget <= observed' + CommitBudget
        BY <1>1, <3>1, Numbers
      <4> QED
        BY <3>1, <4>1, <4>2 DEF ShortLease
    <3> QED
      BY <2>3, <3>1, <3>2 DEF AdoptionStops
  <2>4. CASE /\ job[d].role = "adopt" /\ job[d].pc = "staged" /\ job'[d].pc = "bound"
             /\ job'[d].effect = job[d].effect /\ job'[d].fence = job[d].fence
    BY <1>3, <1>5, <2>4 DEF AdoptionStops, ShortLease, LeaseOf
  <2> QED
    BY <1>1, <1>5, <2>1, <2>2, <2>3, <2>4, NextAdoption
<1> QED
  BY <1>2, <1>4, <1>5

\* No call of commit_prepared_adoption gets past the first authority check of
\* its commit: it never reaches the host and never completes the effect,
\* whatever the budgets, the clock and the other brokers do.
THEOREM AdoptionNeverCommits == DispatchSpec =>
  [](\A d \in Dispatchers :
       job[d].role = "adopt"
         => job[d].pc \notin {"cleared", "rebound", "applying", "finishing"})
<1>1. DispatchInit => AdoptionInv
  <2> SUFFICES ASSUME DispatchInit PROVE AdoptionInv
    OBVIOUS
  <2>1. \A d \in Dispatchers : OwnsFence(d) /\ AdoptionStops(d)
    BY DEF DispatchInit, Idle, OwnsFence, AdoptionStops, InCallPcs
  <2> QED
    BY <2>1, InitTyped DEF AdoptionInv
<1>2. ASSUME AdoptionInv, [DispatchNext]_dispatchVars PROVE AdoptionInv'
  <2>1. CASE UNCHANGED dispatchVars
    BY <1>2, <2>1
    DEF dispatchVars, vars, AdoptionInv, DispatchTyped, RowsTyped, JobsTyped, JobOK,
        HistoryTyped, WorkerOf, OwnsFence, AdoptionStops, ShortLease, LeaseOf
  <2>2. CASE (PassTime \/ SetBack \/ MoveRun) /\ UNCHANGED deployment
    <3>1. DispatchTyped' /\ UNCHANGED <<observed, leases>> /\ WorkerOf' = WorkerOf
      BY <1>2, <2>2, TimeTyped, RunTyped DEF AdoptionInv, WorkerOf
    <3>2. \A d \in Dispatchers :
            /\ job'[d].pc = job[d].pc /\ job'[d].effect = job[d].effect
            /\ job'[d].fence = job[d].fence /\ job'[d].role = job[d].role
      BY <2>2 DEF PassTime, SetBack, MoveRun, Moved
    <3>3. \A e \in Effects : effects'[e].state \in {"absent", "intent"}
                               => effects[e].state \in {"absent", "intent"}
      BY <1>2, <2>2, TimeTyped, RunTyped DEF AdoptionInv
    <3>4. ASSUME NEW d \in Dispatchers PROVE OwnsFence(d)' /\ AdoptionStops(d)'
      <4>1. OwnsFence(d) /\ AdoptionStops(d) /\ DispatchTyped
        BY <1>2 DEF AdoptionInv
      <4>2. job[d].pc \in {"staged", "bound"} => job[d].effect \in Effects
        BY <4>1, Numbers DEF InCallPcs, Pcs
      <4> QED
        BY <3>1, <3>2, <3>3, <4>1, <4>2 DEF OwnsFence, AdoptionStops, ShortLease, LeaseOf
    <3> QED
      BY <3>1, <3>4 DEF AdoptionInv
  <2>3. ASSUME NEW d \in Dispatchers, Step(d), UNCHANGED deployment PROVE AdoptionInv'
    BY <1>2, <2>3, AdoptionKept, StepMoves DEF AdoptionInv
  <2> QED
    BY <1>2, <2>1, <2>2, <2>3 DEF DispatchNext
<1>3. AdoptionInv => \A d \in Dispatchers :
                       job[d].role = "adopt"
                         => job[d].pc \notin {"cleared", "rebound", "applying", "finishing"}
  BY DEF AdoptionInv, AdoptionStops
<1> QED
  BY <1>1, <1>2, <1>3, PTL DEF DispatchSpec
=============================================================================
