----------------------------- MODULE GuestProofs -----------------------------
(***************************************************************************)
(* Safety of the guest's tasks, for any number of them: what a runner and  *)
(* a canceller that never talk to each other, and may each stop at any     *)
(* point, still guarantee together.                                        *)
(*                                                                         *)
(* The argument is the one of the two flags: the canceller writes its      *)
(* marker before it reads the state file, the runner publishes its process *)
(* group in the state file before it reads the marker.  A runner that      *)
(* waits for a living process has therefore published it to a canceller    *)
(* that has yet to look (FoundInTime).  The rest of the invariant says who *)
(* may remove the files on which this rests: the control directory stays   *)
(* as long as there is something in it.                                    *)
(***************************************************************************)
EXTENDS GuestTask, TLAPS

\* Files live in the control directory.
InControl(t) == marker[t] \/ state[t] # "none" => control

\* A canceller that has got beyond its first write has left the marker, which
\* nobody removes; one that has not has seen nothing.
MarkedFirst(t) ==
  /\ cancel[t] \in {"reading", "acting", "waiting", "erasing", "ok"} => marker[t]
  /\ cancel[t] \in {"idle", "marking"} => seen[t] = "none"

\* Between the announcement of the task and the publication of its process
\* there is a file in the control directory: its own or the marker.
Announced(t) ==
  runner[t] \in {"unpacking", "committing", "spawning", "publishing"} =>
    marker[t] \/ state[t] # "none"

\* A published process stays published until somebody cancels.
StaysPublished(t) ==
  runner[t] \in {"checking", "waiting"} /\ ~marker[t] => state[t] = "published"

\* The leader is alive only while its runner is between Spawn and the cleanup.
ChildHasRunner(t) ==
  child[t] = "alive" => runner[t] \in {"publishing", "checking", "waiting", "cleaning"}

\* The canceller of a task will still read the state file, or has read it.
WillStop(t) ==
  \/ cancel[t] \in {"idle", "marking", "failed"}
  \/ cancel[t] = "reading" /\ seen[t] = "none"
  \/ cancel[t] = "acting" /\ seen[t] = "published"

\* A runner that waits for a living group looked at the marker before it was
\* written: the group is published and the canceller has yet to act on it.
FoundInTime(t) ==
  runner[t] = "waiting" /\ Living(t) => state[t] = "published" /\ WillStop(t)

\* The runner unlinks its own state file before it leaves.
Unlinked(t) == runner[t] \in {"leaving", "done"} => state[t] = "none"

TaskInv(t) ==
  /\ InControl(t) /\ MarkedFirst(t) /\ Announced(t) /\ StaysPublished(t)
  /\ ChildHasRunner(t) /\ FoundInTime(t) /\ Unlinked(t)

GuestInv == TypeOK /\ \A t \in Tasks : TaskInv(t)

-----------------------------------------------------------------------------
(* The invariant is inductive. *)

\* What a step of one task does to another: it changes none of the other's
\* entries, and removes the control directory only when it is empty.
Untouched(u) ==
  /\ state'[u] = state[u] /\ marker'[u] = marker[u] /\ child'[u] = child[u]
  /\ runner'[u] = runner[u] /\ cancel'[u] = cancel[u] /\ seen'[u] = seen[u]
  /\ control' \/ control' = control \/ (~marker[u] /\ state[u] = "none")

\* A task whose entries a step leaves alone keeps its invariant.
LEMMA UntouchedTask ==
  ASSUME NEW u \in Tasks, TaskInv(u), Untouched(u)
  PROVE  TaskInv(u)'
BY DEF TaskInv, InControl, MarkedFirst, Announced, StaysPublished, ChildHasRunner,
       FoundInTime, WillStop, Living, Unlinked, Untouched

\* Initially there are no files, no processes and no cancellations.
LEMMA GuestInit == Init => GuestInv
<1> SUFFICES ASSUME Init
             PROVE  GuestInv
  OBVIOUS
<1>1. TypeOK
  BY DEF Init, TypeOK, RunnerPcs, CancelPcs, StateFiles
<1>2. ASSUME NEW t \in Tasks
      PROVE  TaskInv(t)
  BY DEF Init, TaskInv, InControl, MarkedFirst, Announced, StaysPublished,
         ChildHasRunner, FoundInTime, WillStop, Living, Unlinked
<1>3. QED
  BY <1>1, <1>2 DEF GuestInv

\* Every step keeps the types.
LEMMA GuestTyping ==
  ASSUME TypeOK, [Next]_vars
  PROVE  TypeOK'
<1> USE DEF TypeOK, RunnerPcs, CancelPcs, StateFiles
<1>1. CASE UNCHANGED vars
  BY <1>1 DEF vars
<1>2. ASSUME NEW t \in Tasks, Runner(t)
      PROVE  TypeOK'
  <2> USE DEF RunnerGoto, CancellerIdle, At, Terminate, StopLeader, WriteState, Living
  <2>1. CASE RunnerStart(t) \/ Admit(t) \/ MakeWorkspace(t) \/ Announce(t) \/ Unpack(t)
    BY <2>1 DEF RunnerStart, Admit, MakeWorkspace, Announce, Unpack
  <2>2. CASE CommitBaseline(t) \/ Spawn(t) \/ Publish(t) \/ CheckCancelled(t) \/ Collect(t)
    BY <2>2 DEF CommitBaseline, Spawn, Publish, CheckCancelled, Collect
  <2>3. CASE Clean(t) \/ Unlink(t) \/ Leave(t)
    BY <2>3 DEF Clean, Unlink, Leave
  <2>4. QED
    BY <1>2, <2>1, <2>2, <2>3 DEF Runner
<1>3. ASSUME NEW t \in Tasks, ChildExits(t) \/ Crash(t)
      PROVE  TypeOK'
  <2>1. CASE ChildExits(t)
    <3>1. PICK left \in {"holding", "detached", "dead"} : child' = [child EXCEPT ![t] = left]
      BY <2>1 DEF ChildExits
    <3>2. QED
      BY <2>1, <3>1 DEF ChildExits, CancellerIdle
  <2>2. CASE Crash(t)
    BY <2>2 DEF Crash, CancellerIdle
  <2>3. QED
    BY <1>3, <2>1, <2>2
<1>4. ASSUME NEW t \in Tasks, CancelStart(t) \/ Canceller(t)
      PROVE  TypeOK'
  <2> USE DEF CancelGoto, RunnerIdle, Terminate, Living
  <2>1. CASE CancelStart(t) \/ Mark(t) \/ Read(t) \/ StopReading(t)
    BY <2>1 DEF CancelStart, Mark, Read, StopReading
  <2>2. CASE Stop(t) \/ CleanedUp(t) \/ RemoveWorkspace(t) \/ Erase(t)
    BY <2>2 DEF Stop, CleanedUp, RemoveWorkspace, Erase
  <2>3. QED
    BY <1>4, <2>1, <2>2 DEF Canceller
<1>5. QED
  BY <1>1, <1>2, <1>3, <1>4 DEF Next

\* Every step of a runner keeps the invariant.
LEMMA RunnerStep ==
  ASSUME GuestInv, NEW t \in Tasks, Runner(t), NEW u \in Tasks
  PROVE  TaskInv(u)'
<1> USE DEF RunnerGoto, CancellerIdle, At, Terminate, StopLeader, WriteState, Living, TypeOK
<1>1. TypeOK /\ TaskInv(u)
  BY DEF GuestInv
<1>2. CASE u # t
  <2>1. CASE RunnerStart(t) \/ Admit(t) \/ MakeWorkspace(t) \/ Announce(t) \/ Unpack(t)
    BY <1>1, <1>2, <2>1, UntouchedTask
       DEF RunnerStart, Admit, MakeWorkspace, Announce, Unpack, Untouched
  <2>2. CASE CommitBaseline(t) \/ Spawn(t) \/ Publish(t) \/ CheckCancelled(t) \/ Collect(t)
    BY <1>1, <1>2, <2>2, UntouchedTask
       DEF CommitBaseline, Spawn, Publish, CheckCancelled, Collect, Untouched
  <2>3. CASE Clean(t) \/ Unlink(t) \/ Leave(t)
    BY <1>1, <1>2, <2>3, UntouchedTask DEF Clean, Unlink, Leave, Untouched
  <2>4. QED
    BY <2>1, <2>2, <2>3 DEF Runner
<1>3. CASE u = t
  <2> USE DEF TaskInv, InControl, MarkedFirst, Announced, StaysPublished,
              ChildHasRunner, FoundInTime, WillStop, Unlinked
  <2>1. CASE RunnerStart(t) \/ Admit(t) \/ MakeWorkspace(t)
    BY <1>1, <1>3, <2>1 DEF RunnerStart, Admit, MakeWorkspace
  <2>2. CASE Announce(t)
    BY <1>1, <1>3, <2>2 DEF Announce
  <2>3. CASE Unpack(t) \/ CommitBaseline(t)
    BY <1>1, <1>3, <2>3 DEF Unpack, CommitBaseline
  <2>4. CASE Spawn(t)
    BY <1>1, <1>3, <2>4 DEF Spawn
  <2>5. CASE Publish(t)
    BY <1>1, <1>3, <2>5 DEF Publish
  <2>6. CASE CheckCancelled(t)
    BY <1>1, <1>3, <2>6 DEF CheckCancelled, CancelPcs
  <2>7. CASE Collect(t) \/ Clean(t)
    BY <1>1, <1>3, <2>7 DEF Collect, Clean
  <2>8. CASE Unlink(t) \/ Leave(t)
    BY <1>1, <1>3, <2>8 DEF Unlink, Leave
  <2>9. QED
    BY <2>1, <2>2, <2>3, <2>4, <2>5, <2>6, <2>7, <2>8 DEF Runner
<1>4. QED
  BY <1>2, <1>3

\* So does every step of a canceller.
LEMMA CancellerStep ==
  ASSUME GuestInv, NEW t \in Tasks, CancelStart(t) \/ Canceller(t), NEW u \in Tasks
  PROVE  TaskInv(u)'
<1> USE DEF CancelGoto, RunnerIdle, Terminate, Living, TypeOK
<1>1. TypeOK /\ TaskInv(u)
  BY DEF GuestInv
<1>2. CASE u # t
  <2>1. CASE CancelStart(t) \/ Mark(t) \/ Read(t) \/ StopReading(t)
    BY <1>1, <1>2, <2>1, UntouchedTask DEF CancelStart, Mark, Read, StopReading, Untouched
  <2>2. CASE Stop(t) \/ CleanedUp(t) \/ RemoveWorkspace(t) \/ Erase(t)
    BY <1>1, <1>2, <2>2, UntouchedTask DEF Stop, CleanedUp, RemoveWorkspace, Erase, Untouched
  <2>3. QED
    BY <2>1, <2>2 DEF Canceller
<1>3. CASE u = t
  <2> USE DEF TaskInv, InControl, MarkedFirst, Announced, StaysPublished,
              ChildHasRunner, FoundInTime, WillStop, Unlinked
  <2>1. CASE CancelStart(t) \/ Mark(t)
    BY <1>1, <1>3, <2>1 DEF CancelStart, Mark
  <2>2. CASE Read(t) \/ StopReading(t)
    BY <1>1, <1>3, <2>2 DEF Read, StopReading
  <2>3. CASE Stop(t)
    BY <1>1, <1>3, <2>3 DEF Stop
  <2>4. CASE CleanedUp(t) \/ RemoveWorkspace(t) \/ Erase(t)
    BY <1>1, <1>3, <2>4 DEF CleanedUp, RemoveWorkspace, Erase
  <2>5. QED
    BY <2>1, <2>2, <2>3, <2>4 DEF Canceller
<1>4. QED
  BY <1>2, <1>3

\* A process that ends and a runner that is killed take nothing with them.
LEMMA WorldStep ==
  ASSUME GuestInv, NEW t \in Tasks, ChildExits(t) \/ Crash(t), NEW u \in Tasks
  PROVE  TaskInv(u)'
BY DEF GuestInv, TypeOK, ChildExits, Crash, Living, CancellerIdle, TaskInv, InControl,
       MarkedFirst, Announced, StaysPublished, ChildHasRunner, FoundInTime, WillStop, Unlinked

\* GuestInv holds throughout, whatever the scheduling.
LEMMA GuestInvariant == Spec => []GuestInv
<1>1. GuestInv /\ [Next]_vars => GuestInv'
  <2> SUFFICES ASSUME GuestInv, [Next]_vars
               PROVE  GuestInv'
    OBVIOUS
  <2>1. TypeOK'
    BY GuestTyping DEF GuestInv
  <2>2. ASSUME NEW u \in Tasks
        PROVE  TaskInv(u)'
    <3>1. CASE UNCHANGED vars
      BY <3>1, UntouchedTask DEF vars, GuestInv, Untouched
    <3>2. CASE Next
      BY <3>2, RunnerStep, CancellerStep, WorldStep DEF Next
    <3>3. QED
      BY <3>1, <3>2
  <2>3. QED
    BY <2>1, <2>2 DEF GuestInv
<1>2. QED
  BY <1>1, GuestInit, PTL DEF Spec

-----------------------------------------------------------------------------
(* What the host and the guest rely on. *)

\* A cancellation that reported success leaves no model alive except one whose
\* runner will look at the marker before it waits or stops it as it cleans up,
\* and no member of a group for which a runner waits (cancel_guest_task of any
\* number of tasks, with runners that crash and directories that vanish).
THEOREM CancelledTasksAreSeen == Spec => []CancelledIsSeen
<1>1. GuestInv => CancelledIsSeen
  BY DEF GuestInv, CancelledIsSeen, TaskInv, ChildHasRunner, FoundInTime, WillStop, Living
<1>2. QED
  BY <1>1, GuestInvariant, PTL

\* execute_guest returns with the process it started ended and its state file
\* removed, whatever a canceller, another task or the group did meanwhile.
THEOREM RunnersLeaveNothing == Spec => []NothingLeftBehind
<1>1. GuestInv => NothingLeftBehind
  BY DEF GuestInv, NothingLeftBehind, TaskInv, ChildHasRunner, Unlinked
<1>2. QED
  BY <1>1, GuestInvariant, PTL
=============================================================================
