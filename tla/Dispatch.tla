------------------------------ MODULE Dispatch ------------------------------
(***************************************************************************)
(* Capability brokers driving the journal (capabilities.py): each broker   *)
(* thread authorises a request, dispatches one process under the grant,    *)
(* stages and commits its result, or adopts a stage an earlier attempt     *)
(* left; recovery workers probe the outside world and record what they     *)
(* saw.  Every journal transaction, every read that a later step relies    *)
(* on, the process and the host mutation are steps of their own, so all    *)
(* the broker's check-then-act windows are open to the other actors.       *)
(*                                                                         *)
(* One clock unit stands for some seconds; only the order of the budgets   *)
(* matters.  A process's own timeout runs on the monotonic clock, which is *)
(* what elapsed counts; leases and grants are compared with the wall       *)
(* clock, which may also step back.                                        *)
(***************************************************************************)
EXTENDS Journal

CONSTANTS
  Dispatchers,     \* broker threads and recovery workers
  Deployments,     \* the cases considered: the kind of the capability,
                   \*   "worker": sandboxed worker, its result committed to
                   \*             the host by the broker;
                   \*   "local": worker of a launcher without a backend, its
                   \*            process changes the host itself;
                   \*   "command": any other capability, the process itself
                   \*              has the side effect;
                   \* the worker_id each thread presents, and how far the
                   \* wall clock may be set back at once
  Timeout,         \* timeout_seconds of the policy rule
  Grace,           \* TERM and KILL grace of the process runner
  Termination,     \* termination_budget of begin_dispatch
  CommitBudget,    \* WORKER_COMMIT_AUTHORITY_SECONDS
  MutationBudget   \* _COMMIT_MUTATION_AUTHORITY_SECONDS

\* Evidence references by what they attest and the fence that produced them.
Ref(what, fence) == <<what, fence>>

References ==
  {Ref(what, fence) : what \in {"ok", "failed", "stage", "probe"}, fence \in Fences}

ASSUME DispatchConstants ==
  /\ Deployments \subseteq [kind : {"worker", "local", "command"},
                            worker : [Dispatchers -> Workers], stepBack : Nat]
  /\ {Timeout, Grace, Termination, CommitBudget, MutationBudget} \subseteq Nat
  /\ 0 < Timeout /\ Grace <= Termination /\ 0 < MutationBudget
  /\ MutationBudget < CommitBudget
  /\ References \subseteq Evidence

\* The journal is open to the arguments the brokers call it with: the ttl of a
\* worker's and of a command's reservation, the budgets of the two anchors, and
\* the margins of record_effect.
ASSUME BrokerArguments ==
  /\ {Timeout, Timeout + Timeout + Grace} \subseteq LeaseTTLs
  /\ Timeout + Termination + CommitBudget \in ExecutionBudgets
  /\ CommitBudget \in CommitBudgets
  /\ {0, MutationBudget, CommitBudget} \subseteq MinimumTTLs

VARIABLES
  deployment, \* the case at hand; never changes
  job,        \* what each thread is doing; lost when it returns or crashes
  launched,   \* history: the <<thread, fence>> pairs a process was created for
  applied     \* how often the effect has happened to the outside world

dispatchVars == <<vars, deployment, job, launched, applied>>

Kind == deployment.kind
WorkerOf == deployment.worker

NoSnapshot == [state |-> "new", revision |-> 0]

Idle == [pc |-> "idle", role |-> "none", effect |-> NoEffect, fence |-> 0,
         snapshot |-> NoSnapshot, expires |-> 0, elapsed |-> 0, ref |-> NoEvidence]

DispatchInit ==
  /\ Init
  /\ deployment \in Deployments
  /\ job = [d \in Dispatchers |-> Idle]
  /\ launched = [e \in Effects |-> {}]
  /\ applied = [e \in Effects |-> 0]

\* The same call, somewhere else.
Moved(j, pc, expires, elapsed, ref) ==
  [pc |-> pc, role |-> j.role, effect |-> j.effect, fence |-> j.fence,
   snapshot |-> j.snapshot, expires |-> expires, elapsed |-> elapsed, ref |-> ref]

Become(d, j) == job' = [job EXCEPT ![d] = j]
Goto(d, pc) == Become(d, Moved(job[d], pc, job[d].expires, job[d].elapsed, job[d].ref))
Carry(d, pc, ref) == Become(d, Moved(job[d], pc, job[d].expires, 0, ref))
Return(d) == Become(d, Idle)
Unmoved == UNCHANGED <<launched, applied>>

-----------------------------------------------------------------------------
(* _authorize: context, lease, grant. *)

\* The lease a reservation asks for covers the grant's last legal dispatch
\* for a command; for a worker begin_dispatch re-anchors it.
LeaseTTL == IF Kind = "command" THEN Timeout + Timeout + Grace ELSE Timeout
\* Slip: the budget of the process alone.
RuntimeBudget == Timeout

ExecutionBudget == Timeout + Termination + CommitBudget

\* get_run: the snapshot the request is authorised for, and issued_at.  A
\* request to adopt names the stage the effect holds at that moment.
Authorize(d, e, role) ==
  /\ job[d].pc = "idle"
  /\ effects[e].state # "absent"
  /\ role = "adopt" => effects[e].state = "prepared"
  /\ Become(d, [pc |-> "context", role |-> role, effect |-> e, fence |-> 0,
                snapshot |-> runs[effects[e].run], expires |-> clock + Timeout,
                elapsed |-> 0,
                ref |-> IF role = "adopt" THEN effects[e].evidence ELSE NoEvidence])
  /\ UNCHANGED vars /\ Unmoved

\* acquire_attempt, then dispatch_allowed or the stage the grant is for.  (The
\* stage is read in a second transaction; AdoptPrepared compares it again.)
Reserve(d) ==
  LET j == job[d] e == job[d].effect IN
  /\ j.pc = "context"
  /\ AcquireAttempt(e, WorkerOf[d], LeaseTTL)
  /\ IF \/ j.role = "dispatch" /\ effects[e].state = "intent"
        \/ /\ j.role = "adopt"
           /\ effects[e].state = "prepared" /\ effects[e].evidence = j.ref
     THEN Become(d, [pc |-> "granted", role |-> j.role, effect |-> e,
                     fence |-> leases'[e].fence, snapshot |-> j.snapshot,
                     expires |-> j.expires, elapsed |-> 0, ref |-> j.ref])
     ELSE Return(d)
  /\ Unmoved

-----------------------------------------------------------------------------
(* _dispatch *)

Bound(j) == runs[effects[j.effect].run] = j.snapshot
Unexpired(j) == clock < j.expires

\* _validate_grant_for_dispatch and the INTENT check of get_effect.
Check(d) ==
  /\ job[d].pc = "granted" /\ job[d].role = "dispatch"
  /\ Bound(job[d]) /\ Unexpired(job[d])
  /\ effects[job[d].effect].state = "intent"
  /\ Goto(d, "checked")
  /\ UNCHANGED vars /\ Unmoved

\* The second _validate_grant_for_dispatch, after the environment is built.
Recheck(d) ==
  /\ job[d].pc = "checked"
  /\ Bound(job[d]) /\ Unexpired(job[d])
  /\ Goto(d, "admitted")
  /\ UNCHANGED vars /\ Unmoved

\* Slip: STARTED is recorded, not claimed, so a repeat is accepted.
StartRecording(d) ==
  /\ job[d].pc = "admitted"
  /\ RecordEffect(job[d].effect, job[d].fence, "started", NoEvidence, 0)
  /\ Become(d, Moved(job[d], "started", 0, 0, NoEvidence))
  /\ Unmoved

\* STARTED: begin_dispatch for a worker, record_effect for a command.
Start(d) ==
  LET j == job[d] IN
  /\ j.pc = "admitted"
  /\ \/ /\ Kind # "command"
        /\ BeginDispatch(j.effect, WorkerOf[d], j.fence, j.snapshot, j.expires,
                         ExecutionBudget)
     \/ /\ Kind = "command"
        /\ RecordEffect(j.effect, j.fence, "started", NoEvidence, 0)
  /\ Become(d, Moved(job[d], "started", 0, 0, NoEvidence))
  /\ Unmoved

\* _process_runner creates the process.
Launch(d) ==
  /\ job[d].pc = "started"
  /\ Goto(d, "running")
  /\ launched' = [launched EXCEPT ![job[d].effect] = @ \cup {<<d, job[d].fence>>}]
  /\ UNCHANGED vars /\ UNCHANGED applied

\* The side effect of a command or of a local worker happens while it runs.
TakeEffect(d) ==
  /\ Kind # "worker"
  /\ job[d].pc = "running"
  /\ Goto(d, "effective")
  /\ applied' = [applied EXCEPT ![job[d].effect] = @ + 1]
  /\ UNCHANGED vars /\ UNCHANGED launched

\* The process returns.  A sandboxed worker's exported patch is checked and
\* written to the stage directory under the fence; its failure, and the result
\* of any other process, go straight to completion evidence.
Exit(d) ==
  LET j == job[d]
      Results == IF Kind = "worker" THEN {"stage", "failed"}
                   ELSE IF j.pc = "effective" THEN {"ok", "failed"} ELSE {"failed"}
  IN
  /\ j.pc \in {"running", "effective"}
  /\ \E what \in Results :
       Carry(d, IF what = "stage" THEN "exported" ELSE "finishing", Ref(what, j.fence))
  /\ UNCHANGED vars /\ Unmoved

\* PREPARED is durable before the host is touched.
Prepare(d) ==
  LET j == job[d] IN
  /\ j.pc = "exported"
  /\ RecordEffect(j.effect, j.fence, "prepared", j.ref, 0)
  /\ Goto(d, "staged")
  /\ Unmoved

-----------------------------------------------------------------------------
(* The bounded host commit: commit_export with its authority callback.  The *)
(* callback reads the run first and then renews the fence check, in two     *)
(* transactions.                                                            *)

CommitPcs == {"bound", "cleared", "rebound", "applying"}

\* The root lock, which the kernel drops when its holder returns or crashes,
\* and _validate_grant_bindings of the first authority callback under it.
Lock(d) ==
  /\ job[d].pc = "staged"
  /\ \A other \in Dispatchers : job[other].pc \notin CommitPcs
  /\ Bound(job[d])
  /\ Goto(d, "bound")
  /\ UNCHANGED vars /\ Unmoved

\* The bindings again, in the callback right before the mutation.
Rebind(d) ==
  /\ job[d].pc = "cleared"
  /\ Bound(job[d])
  /\ Goto(d, "rebound")
  /\ UNCHANGED vars /\ Unmoved

\* Slip: right before the mutation the lease is only required to be live.
ClearUnbudgeted(d) ==
  LET j == job[d] IN
  /\ \/ /\ j.pc = "bound"
        /\ RecordEffect(j.effect, j.fence, "prepared", j.ref, 0)
        /\ Goto(d, IF applied[j.effect] = 0 THEN "cleared" ELSE "finishing")
     \/ /\ j.pc = "rebound"
        /\ RecordEffect(j.effect, j.fence, "prepared", j.ref, 0)
        /\ Carry(d, "applying", j.ref)
  /\ Unmoved

\* record_effect(PREPARED, minimum_lease_ttl): the whole budget at first, the
\* mutation's budget right before git apply.  A host that already holds the
\* result needs no mutation.
Clear(d) ==
  LET j == job[d] IN
  /\ \/ /\ j.pc = "bound"
        /\ RecordEffect(j.effect, j.fence, "prepared", j.ref, CommitBudget)
        /\ Goto(d, IF applied[j.effect] = 0 THEN "cleared" ELSE "finishing")
     \/ /\ j.pc = "rebound"
        /\ RecordEffect(j.effect, j.fence, "prepared", j.ref, MutationBudget)
        /\ Carry(d, "applying", j.ref)
  /\ Unmoved

\* git apply succeeds and the result is verified.
Apply(d) ==
  /\ job[d].pc = "applying"
  /\ applied' = [applied EXCEPT ![job[d].effect] = @ + 1]
  /\ Carry(d, "finishing", job[d].ref)
  /\ UNCHANGED vars /\ UNCHANGED launched

Finish(d) ==
  LET j == job[d] IN
  /\ j.pc = "finishing"
  /\ RecordEffect(j.effect, j.fence, "completed", j.ref, 0)
  /\ Return(d)
  /\ Unmoved

-----------------------------------------------------------------------------
(* commit_prepared_adoption: rebind the stage, anchor the commit's lease,   *)
(* then the same host commit.                                               *)

Adopt(d) ==
  LET j == job[d] IN
  /\ j.pc = "granted" /\ j.role = "adopt"
  /\ Bound(j) /\ Unexpired(j)
  /\ AdoptPrepared(j.effect, j.fence, j.ref, Ref("stage", j.fence))
  /\ Carry(d, "adopted", Ref("stage", j.fence))
  /\ Unmoved

Anchor(d) ==
  LET j == job[d] IN
  /\ j.pc = "adopted"
  /\ BeginPreparedCommit(j.effect, WorkerOf[d], j.fence, j.snapshot, j.expires,
                         j.ref, CommitBudget)
  /\ Become(d, Moved(j, "staged", 0, 0, j.ref))
  /\ Unmoved

-----------------------------------------------------------------------------
(* Recovery: acquire the attempt, probe the outside world, record what was  *)
(* seen.  The probe is truthful when it looks.                              *)

Recover(d, e) ==
  /\ job[d].pc = "idle"
  /\ effects[e].state \in {"started", "prepared", "reconciled"}
  /\ AcquireAttempt(e, WorkerOf[d], LeaseTTL)
  /\ Become(d, [pc |-> "probing", role |-> "recover", effect |-> e,
                fence |-> leases'[e].fence, snapshot |-> NoSnapshot, expires |-> 0,
                elapsed |-> 0, ref |-> NoEvidence])
  /\ Unmoved

Seen(e) == IF applied[e] > 0 THEN "observed_completed" ELSE "observed_absent"

Probe(d) ==
  /\ job[d].pc = "probing"
  /\ \E outcome \in {Seen(job[d].effect), "unknown"} : Goto(d, outcome)
  /\ UNCHANGED vars /\ Unmoved

Report(d) ==
  LET j == job[d] IN
  /\ j.pc \in Outcomes
  /\ RecordReconciliation(j.effect, j.fence, j.pc, Ref("probe", j.fence))
  /\ Return(d)
  /\ Unmoved

-----------------------------------------------------------------------------
(* A call is denied or fails, a process is killed at its timeout, a commit  *)
(* is abandoned, or the broker crashes: what the thread held in memory is   *)
(* gone, the journal keeps at most the watermark.                           *)
Abandon(d) ==
  /\ job[d].pc # "idle"
  /\ Return(d)
  /\ UNCHANGED vars \/ Refused
  /\ Unmoved

\* The run moves on, whoever decides it.
MoveRun == Lifecycle /\ UNCHANGED job /\ Unmoved

(***************************************************************************)
(* Time passes for everybody.  The runner creates the process at once and  *)
(* kills it within Timeout + Grace, and git apply with its verification    *)
(* and rollback ends within MutationBudget, so time waits for them.        *)
(***************************************************************************)
Overdue(j) == \/ j.pc = "started"
              \/ j.pc \in {"running", "effective"} /\ j.elapsed = Timeout + Grace
              \/ j.pc = "applying" /\ j.elapsed = MutationBudget

PassTime ==
  /\ \A d \in Dispatchers : ~Overdue(job[d])
  /\ Tick
  /\ job' = [d \in Dispatchers |->
               IF job[d].pc \in {"running", "effective", "applying"}
               THEN Moved(job[d], job[d].pc, job[d].expires, job[d].elapsed + 1, job[d].ref)
               ELSE job[d]]
  /\ Unmoved

\* The wall clock is set back, by stepBack at most; it never jumps forward.
SetBack == StepBack /\ clock - clock' <= deployment.stepBack /\ UNCHANGED job /\ Unmoved

Step(d) ==
  \/ \E e \in Effects : \/ \E role \in {"dispatch", "adopt"} : Authorize(d, e, role)
                        \/ Recover(d, e)
  \/ Reserve(d) \/ Check(d) \/ Recheck(d) \/ Start(d) \/ Launch(d) \/ TakeEffect(d)
  \/ Exit(d) \/ Prepare(d) \/ Lock(d) \/ Rebind(d) \/ Clear(d) \/ Apply(d) \/ Finish(d)
  \/ Adopt(d) \/ Anchor(d) \/ Probe(d) \/ Report(d) \/ Abandon(d)

DispatchNext ==
  /\ PassTime \/ SetBack \/ MoveRun \/ \E d \in Dispatchers : Step(d)
  /\ UNCHANGED deployment

DispatchSpec == DispatchInit /\ [][DispatchNext]_dispatchVars

-----------------------------------------------------------------------------
(* What the brokers promise. *)

Alive(d) == job[d].pc \in {"running", "effective"}

\* Workers dispatched and recovered under ids of their own.  (A
\* recovery under the id of the process it recovers shares that process's
\* lease; a command's lease need not cover it, see LeaseCoversGrant.)
Exclusive ==
  Kind # "command" /\ \A c, d \in Dispatchers : WorkerOf[c] = WorkerOf[d] => c = d

\* Two processes never work on one effect at the same time, whatever crashed,
\* timed out or was recovered before the second one was created.
OneProcessPerEffect ==
  Exclusive => \A c, d \in Dispatchers :
                 Alive(c) /\ Alive(d) /\ job[c].effect = job[d].effect => c = d

HoldsLease(j) == leases[j.effect].fence = j.fence /\ clock < leases[j.effect].expires

\* A process never outlives the lease it was started under: its timeout and
\* the kill that follows end before anybody may take the effect over.
ProcessUnderLease ==
  Exclusive => \A d \in Dispatchers : Alive(d) => HoldsLease(job[d])

\* git apply, its verification and its rollback run under a live lease: the
\* check right before them asks for the time they may take.
HostChangedUnderLease ==
  Exclusive => \A d \in Dispatchers : job[d].pc = "applying" => HoldsLease(job[d])

\* An effect that may be dispatched has not happened and nothing is still
\* working on it.
PlannedMeansUndone ==
  Exclusive =>
    \A e \in Effects :
      effects[e].state = "intent" =>
        /\ applied[e] = 0
        /\ \A d \in Dispatchers : job[d].effect = e => ~Alive(d) /\ job[d].pc # "applying"

\* A fence pays for one process: a grant is dispatched once, whoever retries.
LaunchOncePerFence ==
  \A e \in Effects : \A p, q \in launched[e] : p[2] = q[2] => p = q

\* Completion is never recorded for work that did not happen, except as the
\* failure it was.
CompletedMeansDone ==
  \A e \in Effects :
    effects[e].state = "completed" /\ effects[e].evidence[1] # "failed" => applied[e] > 0

-----------------------------------------------------------------------------
(* What the documents say and the code does not do. *)

\* An adopted stage whose commit begins the moment its lease was anchored is
\* admitted: the anchored lease is the commit authority.
AnchoredAdoptionMayCommit ==
  \A d \in Dispatchers :
    LET j == job[d] e == job[d].effect IN
    /\ j.pc = "staged" /\ j.role = "adopt" /\ clock >= observed
    /\ leases[e].fence = j.fence /\ leases[e].expires = clock + CommitBudget
    => HoldsFence(e, j.fence, CommitBudget)

\* The lease behind a command's grant covers a process that the grant still
\* allows to start at its last moment, however the grant was obtained.
LeaseCoversGrant ==
  \A d \in Dispatchers :
    LET j == job[d] IN
    j.pc \in {"granted", "checked", "admitted"} /\ leases[j.effect].fence = j.fence
    => leases[j.effect].expires >= j.expires + Timeout + Grace
=============================================================================
