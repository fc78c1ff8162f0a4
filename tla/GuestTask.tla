------------------------------ MODULE GuestTask ------------------------------
(***************************************************************************)
(* One guest VM running worker tasks (vm_guest.py): execute_guest runs the *)
(* model in a fresh workspace and returns its patch; cancel_guest_task, a  *)
(* process of its own that the host starts when a dispatch did not end     *)
(* well, stops it.  The two never talk: they meet in a control directory   *)
(* that all tasks of the guest share, where each task (an effect under a   *)
(* fence) has a state file, naming its workspace and process group, and a  *)
(* cancellation marker.  Every file operation is a step of its own.        *)
(*                                                                         *)
(* The model's process leads a group, whose other members may outlive it.  *)
(* SIGTERM followed by SIGKILL ends the whole group, so terminating it is  *)
(* one step.  The deadlines of the waits are nondeterministic, except that *)
(* the canceller reads a state file it found at least once.                *)
(***************************************************************************)
CONSTANTS
  Tasks,
  Unruly      \* bound: the tasks whose runner may be killed, and whose model may
              \* leave members of its group behind

ASSUME GuestConstants == Unruly \subseteq Tasks

VARIABLES
  control,    \* the control directory exists
  state,      \* state file: "none", "unpublished" (no process group yet), "published"
  marker,     \* the cancellation marker exists
  workspace,  \* the task's workspace exists
  child,      \* the process group of the model: "none"; "alive" while its leader
              \* runs; "holding" when members are left that hold the leader's
              \* pipes; "detached" when they do not; "dead"
  runner,     \* where execute_guest is
  crashed,    \* the runner was killed: its finally block never runs
  cancel,     \* where cancel_guest_task is
  seen        \* the state the canceller last read: its record

vars == <<control, state, marker, workspace, child, runner, crashed, cancel, seen>>

Init ==
  /\ control = FALSE
  /\ state = [t \in Tasks |-> "none"]
  /\ marker = [t \in Tasks |-> FALSE]
  /\ workspace = [t \in Tasks |-> FALSE]
  /\ child = [t \in Tasks |-> "none"]
  /\ runner = [t \in Tasks |-> "absent"]
  /\ crashed = [t \in Tasks |-> FALSE]
  /\ cancel = [t \in Tasks |-> "idle"]
  /\ seen = [t \in Tasks |-> "none"]

At(t, pc) == runner[t] = pc /\ ~crashed[t]
RunnerGoto(t, pc) == runner' = [runner EXCEPT ![t] = pc] /\ UNCHANGED crashed
CancelGoto(t, pc) == cancel' = [cancel EXCEPT ![t] = pc]
CancellerIdle == UNCHANGED <<marker, cancel, seen>>

\* Somebody in the group is alive, its leader or another member.
Living(t) == child[t] \in {"alive", "holding", "detached"}

\* _terminate_process_group: killpg reaches every member, leader or not.
Terminate(t) == child' = [child EXCEPT ![t] = IF Living(t) THEN "dead" ELSE @]

-----------------------------------------------------------------------------
(* execute_guest *)

\* _ensure_control_dir
RunnerStart(t) ==
  /\ At(t, "absent")
  /\ control' = TRUE
  /\ RunnerGoto(t, "admitting")
  /\ UNCHANGED <<state, workspace, child>> /\ CancellerIdle

\* The marker refuses a task that was cancelled before it began.
Admit(t) ==
  /\ At(t, "admitting")
  /\ RunnerGoto(t, IF marker[t] THEN "refused" ELSE "admitted")
  /\ UNCHANGED <<control, state, workspace, child>> /\ CancellerIdle

MakeWorkspace(t) ==
  /\ At(t, "admitted")
  /\ workspace' = [workspace EXCEPT ![t] = TRUE]
  /\ RunnerGoto(t, "announcing")
  /\ UNCHANGED <<control, state, child>> /\ CancellerIdle

\* _write_control_state replaces the state file in one step, or fails: always
\* when another task has removed the empty control directory meanwhile.
WriteState(t, file, next) ==
  \/ control /\ state' = [state EXCEPT ![t] = file] /\ RunnerGoto(t, next)
  \/ UNCHANGED state /\ RunnerGoto(t, "cleaning")

\* The task is announced without a process group.
Announce(t) ==
  /\ At(t, "announcing")
  /\ WriteState(t, "unpublished", "unpacking")
  /\ UNCHANGED <<control, workspace, child>> /\ CancellerIdle

\* _extract_source_snapshot makes the directories it needs, the workspace too.
Unpack(t) ==
  /\ At(t, "unpacking")
  /\ \/ workspace' = [workspace EXCEPT ![t] = TRUE] /\ RunnerGoto(t, "committing")
     \/ UNCHANGED workspace /\ RunnerGoto(t, "cleaning")
  /\ UNCHANGED <<control, state, child>> /\ CancellerIdle

\* The baseline commit, in the workspace if it is still there.
CommitBaseline(t) ==
  /\ At(t, "committing")
  /\ \/ workspace[t] /\ RunnerGoto(t, "spawning")
     \/ RunnerGoto(t, "cleaning")
  /\ UNCHANGED <<control, state, workspace, child>> /\ CancellerIdle

Spawn(t) ==
  /\ At(t, "spawning")
  /\ IF workspace[t] THEN child' = [child EXCEPT ![t] = "alive"] /\ RunnerGoto(t, "publishing")
                     ELSE UNCHANGED child /\ RunnerGoto(t, "cleaning")
  /\ UNCHANGED <<control, state, workspace>> /\ CancellerIdle

\* Slip: the process group is published after the marker was looked at.
PublishLast(t) ==
  /\ At(t, "publishing")
  /\ state' = [state EXCEPT ![t] = "published"]
  /\ RunnerGoto(t, "waiting")
  /\ UNCHANGED <<control, workspace, child>> /\ CancellerIdle

\* The state file now names the process group.
Publish(t) ==
  /\ At(t, "publishing")
  /\ WriteState(t, "published", "checking")
  /\ UNCHANGED <<control, workspace, child>> /\ CancellerIdle

\* The marker again, now that a canceller can find the process group.
CheckCancelled(t) ==
  /\ At(t, "checking")
  /\ IF marker[t] THEN Terminate(t) ELSE UNCHANGED child
  /\ RunnerGoto(t, "waiting")
  /\ UNCHANGED <<control, state, workspace>> /\ CancellerIdle

\* communicate() returns when the leader has ended and nobody holds its pipes;
\* the patch is collected or that fails, and the finally block runs either way.
Collect(t) ==
  /\ At(t, "waiting")
  /\ child[t] \in {"detached", "dead"}
  /\ RunnerGoto(t, "cleaning")
  /\ UNCHANGED <<control, state, workspace, child>> /\ CancellerIdle

\* The finally block ends the group of a leader that runs (process.poll() is
\* None), and leaves one whose leader has ended alone.
StopLeader(t) == IF child[t] = "alive" THEN Terminate(t) ELSE UNCHANGED child

\* Slip: a workspace that cannot be removed ends the cleanup.
CleanOrGiveUp(t) ==
  /\ At(t, "cleaning")
  /\ StopLeader(t)
  /\ \/ workspace' = [workspace EXCEPT ![t] = FALSE] /\ RunnerGoto(t, "unlinking")
     \/ UNCHANGED workspace /\ RunnerGoto(t, "done")
  /\ UNCHANGED <<control, state>> /\ CancellerIdle

\* The finally block: process, workspace, state file, control directory.  A
\* workspace that cannot be removed (a canceller may be at it too) is left.
Clean(t) ==
  /\ At(t, "cleaning")
  /\ StopLeader(t)
  /\ \/ workspace' = [workspace EXCEPT ![t] = FALSE]
     \/ UNCHANGED workspace
  /\ RunnerGoto(t, "unlinking")
  /\ UNCHANGED <<control, state>> /\ CancellerIdle

Unlink(t) ==
  /\ At(t, "unlinking")
  /\ state' = [state EXCEPT ![t] = "none"]
  /\ RunnerGoto(t, "leaving")
  /\ UNCHANGED <<control, workspace, child>> /\ CancellerIdle

\* rmdir removes an empty directory only.
Leave(t) ==
  /\ At(t, "leaving")
  /\ control' = (control /\ \E u \in Tasks : marker[u] \/ state[u] # "none")
  /\ RunnerGoto(t, "done")
  /\ UNCHANGED <<state, workspace, child>> /\ CancellerIdle

Runner(t) ==
  \/ RunnerStart(t) \/ Admit(t) \/ MakeWorkspace(t) \/ Announce(t) \/ Unpack(t)
  \/ CommitBaseline(t) \/ Spawn(t) \/ Publish(t) \/ CheckCancelled(t) \/ Collect(t)
  \/ Clean(t) \/ Unlink(t) \/ Leave(t)

\* The leader ends by itself, whenever it likes or never, and with it, later or
\* never, the rest of its group.
ChildExits(t) ==
  /\ Living(t)
  /\ \E left \in {"holding", "detached", "dead"} \ {child[t]} :
       /\ left # "dead" => t \in Unruly
       /\ left = "holding" => child[t] = "alive"
       /\ child' = [child EXCEPT ![t] = left]
  /\ UNCHANGED <<control, state, workspace, runner, crashed>> /\ CancellerIdle

\* The runner is killed; its child is a session of its own and lives on.
Crash(t) ==
  /\ t \in Unruly
  /\ runner[t] \notin {"absent", "refused", "done"}
  /\ ~crashed[t]
  /\ crashed' = [crashed EXCEPT ![t] = TRUE]
  /\ UNCHANGED <<control, state, workspace, child, runner>> /\ CancellerIdle

-----------------------------------------------------------------------------
(* cancel_guest_task *)

RunnerIdle == UNCHANGED <<runner, crashed>>

CancelStart(t) ==
  /\ cancel[t] = "idle"
  /\ control' = TRUE
  /\ CancelGoto(t, "marking")
  /\ UNCHANGED <<state, marker, workspace, child, seen>> /\ RunnerIdle

\* The marker is durable before the state file is looked at.  A directory
\* removed meanwhile fails the cancellation.
Mark(t) ==
  /\ cancel[t] = "marking"
  /\ IF control THEN marker' = [marker EXCEPT ![t] = TRUE] /\ CancelGoto(t, "reading")
                ELSE UNCHANGED marker /\ CancelGoto(t, "failed")
  /\ UNCHANGED <<control, state, workspace, child, seen>> /\ RunnerIdle

\* A task without a state file has nothing to stop, or has ended meanwhile;
\* a state file without a process group is read again.
Read(t) ==
  /\ cancel[t] = "reading"
  /\ IF state[t] = "none"
     THEN UNCHANGED seen /\ CancelGoto(t, IF seen[t] = "none" THEN "ok" ELSE "acting")
     ELSE /\ seen' = [seen EXCEPT ![t] = state[t]]
          /\ CancelGoto(t, IF state[t] = "published" THEN "acting" ELSE "reading")
  /\ UNCHANGED <<control, state, marker, workspace, child>> /\ RunnerIdle

\* _TERM_GRACE_SECONDS are over and no process group was published.
StopReading(t) ==
  /\ cancel[t] = "reading"
  /\ seen[t] # "none"
  /\ CancelGoto(t, "acting")
  /\ UNCHANGED <<control, state, marker, workspace, child, seen>> /\ RunnerIdle

Stop(t) ==
  /\ cancel[t] = "acting"
  /\ IF seen[t] = "published" THEN Terminate(t) ELSE UNCHANGED child
  /\ CancelGoto(t, "waiting")
  /\ UNCHANGED <<control, state, marker, workspace, seen>> /\ RunnerIdle

\* The runner cleaned up in time ...
CleanedUp(t) ==
  /\ cancel[t] = "waiting"
  /\ state[t] = "none"
  /\ CancelGoto(t, "ok")
  /\ UNCHANGED <<control, state, marker, workspace, child, seen>> /\ RunnerIdle

\* ... or its workspace and state file are removed for it; a workspace that is
\* gone already, or cannot be removed, fails the cancellation.
RemoveWorkspace(t) ==
  /\ cancel[t] = "waiting"
  /\ state[t] # "none"
  /\ \/ /\ workspace[t]
        /\ workspace' = [workspace EXCEPT ![t] = FALSE]
        /\ CancelGoto(t, "erasing")
     \/ UNCHANGED workspace /\ CancelGoto(t, "failed")
  /\ UNCHANGED <<control, state, marker, child, seen>> /\ RunnerIdle

Erase(t) ==
  /\ cancel[t] = "erasing"
  /\ state' = [state EXCEPT ![t] = "none"]
  /\ CancelGoto(t, "ok")
  /\ UNCHANGED <<control, marker, workspace, child, seen>> /\ RunnerIdle

\* The canceller's steps once the host has started it.
Canceller(t) ==
  \/ Mark(t) \/ Read(t) \/ StopReading(t) \/ Stop(t) \/ CleanedUp(t)
  \/ RemoveWorkspace(t) \/ Erase(t)

Next ==
  \E t \in Tasks :
    Runner(t) \/ ChildExits(t) \/ Crash(t) \/ CancelStart(t) \/ Canceller(t)

\* Guest processes are scheduled; nothing makes a model end, a runner crash or
\* a host cancel.
Fairness == \A t \in Tasks : WF_vars(Runner(t)) /\ WF_vars(Canceller(t))

Spec == Init /\ [][Next]_vars /\ Fairness

-----------------------------------------------------------------------------
RunnerPcs == {"absent", "admitting", "refused", "admitted", "announcing", "unpacking",
              "committing", "spawning", "publishing", "checking", "waiting",
              "cleaning", "unlinking", "leaving", "done"}
CancelPcs == {"idle", "marking", "reading", "acting", "waiting", "erasing", "ok", "failed"}
StateFiles == {"none", "unpublished", "published"}

\* Every file and process is in one of its states.
TypeOK ==
  /\ control \in BOOLEAN
  /\ state \in [Tasks -> StateFiles]
  /\ marker \in [Tasks -> BOOLEAN]
  /\ workspace \in [Tasks -> BOOLEAN]
  /\ child \in [Tasks -> {"none", "alive", "holding", "detached", "dead"}]
  /\ runner \in [Tasks -> RunnerPcs]
  /\ crashed \in [Tasks -> BOOLEAN]
  /\ cancel \in [Tasks -> CancelPcs]
  /\ seen \in [Tasks -> StateFiles]

\* A successful cancellation leaves no model at work that only the canceller
\* could have stopped: one still alive belongs to a runner that has yet to look
\* at the marker, or is about to stop it (the marker is written before the state
\* file is read, the state file before the marker is checked, so one side always
\* sees the other).  Nor does anybody of its group live for whom a runner waits.
CancelledIsSeen ==
  \A t \in Tasks : cancel[t] = "ok" =>
    /\ child[t] = "alive" => runner[t] \in {"publishing", "checking", "cleaning"}
    /\ Living(t) => runner[t] # "waiting"

\* A runner that returns leaves neither the process it started nor its state
\* file behind, whatever the canceller or another task removed under it and
\* whether or not its workspace could be removed.  (Members of the group that
\* survived a leader that ended by itself are not looked for: vm_guest.py:315.)
NothingLeftBehind ==
  \A t \in Tasks :
    runner[t] = "done" => state[t] = "none" /\ child[t] # "alive"

\* The model of a task that was successfully cancelled ends and never works
\* again, though its process may be created after the cancellation returned, unless its
\* runner is killed before it could look at the marker.
CancelledStops ==
  \A t \in Tasks :
    (cancel[t] = "ok") ~> [](child[t] # "alive" \/ crashed[t])
=============================================================================
