# A TLA+ verification of codespec

codespec is a governed delivery workflow. Its program is
`codex-contract-delivery`, a Python package that walks a *run* through a
lifecycle of gates, plans the run's *side effects* in a durable journal, and lets
a *capability broker* execute them exactly once although workers crash, time
out, are retried and are taken over. Beside it stands `spec-workflow`, a script
whose gates decide when a change may be implemented and merged. This directory
models the parts of both where those things can go wrong, checks them with TLC
and proves the most important statements about them with TLAPS.

Paths below are relative to
`src/codex-contract-delivery/src/codex_contract_delivery/` unless they begin
with `src/`.

## 1. Inventory

| Component | State it keeps | Operations | What is hard about it | What makes it correct |
|---|---|---|---|---|
| Lifecycle state machine, `state_machine.py` | none | `next_state` | long paths through incidents and checkpoints | production only through every gate; recovery never leads back to a stage |
| Run journal, `journal.py` | SQLite tables `runs`, `events`, `effects`, `leases`, `reconciliations`, and the clock watermark | `transition`, `acquire_attempt`, `begin_dispatch`, `begin_prepared_commit`, `record_effect`, `adopt_prepared`, `record_reconciliation` | any number of processes, expiring leases, a wall clock that steps back, callers that present what they remember | no duplicate effect without an observed absence, no change under a dead lease, completion final, log explains run |
| Opening and migration, `journal.py` | the schema, `user_version`, `journal_metadata` | `open` | two processes at once, a crash between the schema transactions, a process that acts on a version it read before others upgraded | the newest schema or a refusal with a cause, never a mixture; no fact lost; the rows satisfy what the operations rely on |
| Capability policy, `capabilities.py` 60-490 | none | rule selection, scope and argv checks | overlapping rules, path tricks | at most one rule, never wider than its pattern |
| Capability broker, `capabilities.py` 493-1736 | grants in memory; everything else in the journal | `authorize`, `authorize_prepared_adoption`, `dispatch`, `commit_prepared_adoption` | check-then-act over several transactions, a process that runs for minutes, retries under the same id | one process per effect, under its lease; completion only for what happened |
| Worker launcher, `worker.py` | none | `run`, `adopt_prepared` | host tree changed meanwhile | the exported delta is the host's delta |
| Lima backend, `vm_worker.py` | stage directory, root lock, host worktree | `prepare_export`, `commit_export`, `adopt_export`, `cancel` | lock and lease of different lifetimes, partial `git apply` | host changed only under a live lease; mixed states reported |
| Guest, `vm_guest.py` | control directory, workspaces, process groups | `execute_guest`, `cancel_guest_task` | two processes that meet only in files | a successful cancellation stops the task |
| Contract graph, `contract_graph.py` | the traces of the last resolution | `resolve`, `trace` | documents edited between the reads; two values for one id | the contract is what its documents said, all of it, and one contract per delivery |
| Approvals, `approvals.py` | none | `verify`, `classify_change` | dependencies added or dropped after the approval | a valid approval covers exactly what is resolved now |
| OSDD gates, `src/spec-workflow/scripts/osdd.py` | the files of a change | `new`, `review`, `autopilot`, planning, before-apply, after-apply and CI gates | files edited between two gates of one autopilot; evidence that is missing where a gate does not look | no UI implementation without a human's approval; "ready" passes CI; the loop ends |
| Canonical digests, schema validation, source snapshot | none | pure functions | | conversions |
| CLI, skills, templates | none | | | not a program with state |

Interaction. The launcher asks the broker to dispatch; the broker reads and
writes the journal in separate transactions, runs the process (for a sandboxed
worker, `limactl shell` into the guest), hands the guest's patch to the Lima
backend, which stages it and later changes the host while calling back into the
broker for authority. When a dispatch ends in doubt the launcher cancels the
guest task. Recovery workers acquire the attempt, probe the outside world and
record a reconciliation. Brokers and recovery workers share nothing but the
journal, the stage directory, the root lock and the guest's control directory.
Whoever opens the journal may find a file that another process is upgrading. The
contract graph and the approvals meet in the digest of an effective contract;
the OSDD gates meet assistant, human and CI in the files of one change directory.

## 2. Modules

| Module | Stands for | Notes |
|---|---|---|
| `StateMachine` | `state_machine.py` | edges as a set of records; `NextStates` is `next_state`, empty for a refusal |
| `Journal` | `journal.py`, every write transaction | one action per method; arguments are free |
| `EffectLifecycle` | what the journal promises about one effect | abstract specification: no leases, clocks or workers |
| `JournalEffects` | refinement mapping from `Journal` to it | `ImplementsEffectLifecycle` |
| `Migration` | `open` of `journal.py` | EXTENDS `Journal`: whoever got in works |
| `Dispatch` | `capabilities.py`, with the callbacks of `worker.py` and `commit_export` of `vm_worker.py` | EXTENDS `Journal` and calls its actions |
| `HostCommit` | `prepare_export`, `adopt_export`, `commit_export` of `vm_worker.py`, with the tree, the stage directory and the git processes | the journal's authority is a callback that may refuse |
| `GuestTask` | `vm_guest.py`, with `cancel` of `vm_worker.py` | file-operation granularity |
| `ContractGraph` | `contract_graph.py`, `approvals.py` | one step per file read and per item |
| `SpecWorkflow` | `osdd.py` | the four gates and the autopilot, with assistant, human and archive |
| `MC...` | instances for TLC | one per checked module |
| `JournalProofs` | theorems about `Journal`, and its refinement of `EffectLifecycle` | |
| `MigrationProofs` | theorems about `Migration` | uses `JournalProofs` |
| `DispatchProofs` | theorems about `Dispatch`, and its refinement of `Journal` | uses `JournalProofs` |
| `ExclusionProofs` | what keeps the threads of `Dispatch` apart | uses `DispatchProofs` |
| `GraphProofs`, `GuestProofs`, `HostProofs`, `WorkflowProofs` | theorems about `ContractGraph`, `GuestTask`, `HostCommit`, `SpecWorkflow` | |

### Journal

Each write method is one SQLite transaction (`BEGIN IMMEDIATE` to `COMMIT`), so
it is one atomic action. `_authority_transaction` is `Observe` (the clock must
not be behind the watermark, which moves up to it) conjoined with the method; a
method that raises a `JournalError` after the watermark was read keeps only the
watermark, which is `Refused`. Refusals of `transition`, and of a clock behind
the watermark, change nothing and are stuttering. A missing row of `leases` is
fence 0, a missing run is revision 0 in state `new`, a missing effect is state
`"absent"`. `started` is a history variable: the fences under which
the effect became STARTED, and 0 for an attempt of an older release that left no
lease row.

Contexts of events are reduced to the structured records they carry, evidence
to model values, effect kinds and timestamps of rows are dropped. An effect
belongs to one run (`effect_id` is unique), so the run id that some methods take
besides the effect id is the row's.

`ApplyOutcome` keeps the distinction that matters for recovery: OBSERVED_ABSENT
takes STARTED and RECONCILED back to INTENT, leaves a PREPARED row as it is, and
ends the reporter's own lease at the current instant in both cases.

### Migration

`open` is `Connect` (read `user_version` and remember it) → `Look` (read the
table names) → `Create`, or `Recognise`, or neither → `Migrate`, one transaction
per version → `Validate`. Only the schema transactions are atomic: between any
two steps another process may upgrade the same file, the process may crash
(`Crash`) or find the database busy (`Busy`), and whoever has already got in
performs the actions of `Journal` (`Work`). `version` and `metadata` are the two
numbers a file carries, `format` is the release whose objects it holds, `opener`
is where each process is and the version it remembers.

A file starts new, as somebody else's, as a future release's, or as any of the
earlier releases' with any rows they could hold (`LegacyInit`). What is assumed of
those rows: the first release had no audit, the second wrote every report under
the fence of the lease, the third one report for each fence at most; releases
before the third had no durable stage. An effect may have a lease row or none,
whatever its state, as the repository's own data of the first release has
(`tests/test_journal.py` 182-207); the history `started` of a file is the fence of
that row, 0 without one. Each upgrade is modelled by what its SQL does to the rows and
by when its statements fail: 0→1 inserts the metadata row, so it fails where there
is one; 2→3 recognises nothing, so it also runs in a file that is at 3 already.

### Dispatch

Each broker thread or recovery worker has a record `job`: where it is, and what
it holds in memory (grant, snapshot of the run, fence, evidence). The steps of
one dispatch are

`Authorize` (read run, clock) → `Reserve` (acquire lease) → `Check` → `Recheck`
→ `Start` (STARTED) → `Launch` → [`TakeEffect`] → `Exit` → `Prepare` → `Lock` →
`Clear` → `Rebind` → `Clear` → `Apply` → `Finish`

and `Adopt` → `Anchor` → `Lock` ... for an adopted stage. `Recover` → `Probe` →
`Report` is a recovery worker, as the integration tests use one. `Abandon` is a
denial, a failure, a kill at the timeout, a commit error, or a crash of the
broker, at any step: in-memory state is lost, the journal stays.

`deployment` is the case at hand, chosen once from `Deployments`: the kind of the
capability, the `worker_id` each thread presents, and how far the wall clock may be
set back at once. Workers go through `begin_dispatch`: those of a launcher with a
backend (`"worker"`) are staged and committed by the broker, those of a launcher
without one (`"local"`, `worker.py` 134-151 and 505-512) change the host in their
own process and are completed without a stage. Every other capability
(`"command"`) goes through `record_effect` and its process has the effect. Four
properties are promised only where workers have ids of their own (`Exclusive`):
under a shared id a recovery shares the lease of the process it recovers.

Time. One wall clock for the leases, advanced by `PassTime` and set back by
`SetBack`; each process counts its own `elapsed` on the monotonic clock.
`PassTime` waits where the code bounds a duration: a process is killed within
`Timeout + Grace`, `git apply` with verification and rollback ends within
`MutationBudget`, and the process is created at once after STARTED. The last is
an assumption: the code does nothing between the two but a thread can be
suspended there. The wall clock never jumps forward: if it could, no lease would
cover anything.

### HostCommit

`Dispatch` takes the host commit as one step and asks whether it is authorised;
`HostCommit` takes authority as a callback that passes or refuses and asks what
happens to the files. One call is `Run` (launcher's snapshot, guest at work) →
`Intermediate` (tree unchanged) → `Lock` → `Validate` → `Publish` → `Seal` →
`Load` → `Lock` → `Compare` → `CheckPatch` → `ApplyPatch` → `Verify`, or
`RollBack` → `AfterRollBack`; `Adopt` enters at `Publish` with a recorded stage
under another fence or the same one. `Fail` is any exception, with the lock
released by the context manager; `Crash` is a killed broker, with the lock
released by the kernel. Both may happen at every step.

A git process reads all files first and changes nothing when one does not fit,
then replaces them one by one. It may fail or be killed after any of them
(`GitEnds`), be killed and not end in time (`GitLingers`, the code's "did not
terminate within commit budget"), or lose its broker. A file is compared as a
whole, so its content is who wrote it last. A stage is the record of its
metadata, which its digest covers.

`Lock` asks for the root lock and nothing else, as `flock` does. A git process
that nobody waits for any more (its broker died, or gave up on it) therefore works
on beside the next committer, and there may be several of them. An editor saves a
file at any moment, whoever holds the lock and whatever git is at; which files he
has open is a bound (`Open`). Two histories make it possible to say what holds all
the same. `stale` names the files of a git process that somebody else wrote after
the process had looked at them. `standing` names the effects whose commit was
reported and over whose files nobody has written since except a rollback that its
call waits for: an editor, a later commit and a stray git process take an effect
out of it. A thread stands for a call, and its name is used again only when its git
process has ended (`Free`).

### GuestTask

Runner and canceller are sequential processes over files: every `exists`,
`open`, `replace`, `unlink`, `rmdir` and `rmtree` that the other side can observe
is a step. SIGTERM, grace, SIGKILL is one step and reaches the whole process
group. The group is more than its leader: when the leader ends by itself, members
may go on, with or without its pipes (`"holding"`, `"detached"`; `communicate()`
waits for the first and not for the second). The runner's `finally` block ends the
group only while the leader runs (`StopLeader`, `vm_guest.py` 315). Which tasks have
a model that leaves members behind, or a runner that is killed, is a bound
(`Unruly`). Deadlines are nondeterministic,
except that a canceller that finds a state file reads it at least once before
its deadline, which the loop's first iteration does unless a process is stopped
for longer than the grace between two statements. The unlinking of a state file
and the writing of a marker in a directory that is there are taken to succeed; the
rest may fail. `Crash` kills a runner, whose
child is a session of its own and lives on.

### ContractGraph

`resolve` is `Resolve` (the baseline) → `ReadDelivery` → `AddOwner` for each
owner reference → `AddItem` for each item → `Finish` (the traces, then the
contract); every step may end the call with an error, and between any two
`Edit` changes any of the files. `Decide` records an approval of what is resolved,
with everything else that applies (`Rebind` changes that), `Verify` is
`ApprovalVerifier.verify`.

A digest is the digested value itself, so equal digests mean equal values. The
order of items of different sections is free, because nodes of different sections
never meet. An owner reference of another kind than `product` counts as unsafe
(the code refuses it). The contract's digest covers ids and values of its nodes;
`delivery_id`, types and origins are not in it, in the code as in the model. Of
the owners it is assumed that a new baseline gets a new revision, which is all
that binds a delivery to it; product records are bound by their digest and no
such thing is assumed of them.

### SpecWorkflow

One change and everybody around it. The autopilot is `Launch` (scaffold) →
`DetectLevel` → `RunPlanning` → `RunBefore` → `RunAfter` → `Report`; each gate
reads the files anew, while assistant and human write them. The assistant does
what the *last report* asks for, which may be older than the files. `New`,
`Review` and the autopilot's scaffold copy a template where a file is missing;
`Rethink` and `Reject` are changes of mind; `Archive` moves the directory and may
be interrupted; `CiPasses` is the CI gate on a machine of its own, with or without
the language servers the assistant has. `UiLevel` is computed twice: the gates
leave out the changed files and the level that was asked for (`GateLevel`), the
report uses both (`ReportedLevel`, `osdd.py` 888). The change is one the branch
makes, so its files are among the branch's changed files, by which CI finds it
(`Associated`); a change the branch does not touch is not judged, in the code as in
the model.

A document is one bit: its content passes the checks of its gate, or not. The
command log that a gate reads is written with the documents of its stage; lines
of text that declare a UI level count as the frontmatter that declares it. The
check that a file is missing and the copy of its template are one step.

## 3. Runs

| Run | Instance | Shows |
|---|---|---|
| `journal_lease` | 1 effect, 2 runs, 2 workers, 2 references, 3 fences, clock 0..3 | takeover, adoption, reconciliation and clock steps in every order keep an effect's attempts, lease and audit in order, and refine `EffectLifecycle` |
| `journal_lifecycle` | 1 run, all events, 17 revisions | the log explains the run; `prod` and beyond only through every gate |
| `migration` | 2 processes, 1 effect, 2 fences, every release's files, 2 faults | opening races, crashes and refusals leave one release's schema and all facts; whoever gets in finds sound rows; persistence gets in |
| `dispatch` | 2 threads; sandboxed workers with own ids and with one id, local workers, and commands with clock steps back of 1; 3 fences | process, host change and replanning stay under the lease; one launch per fence; no false completion |
| `host_commit` | 2 threads, 2 patches that share a file, 2 + 1 attempts, 1 edit of the shared file, stray git processes | nothing overwritten unseen, no retry or rollback takes a reported commit back, a recorded stage loads |
| `guest_cancel` | 2 tasks in one guest, one of them unruly | cancellation and cleanup, with one liveness property |
| `contract_graph` | 1 delivery out of 12, 2 baselines, 2 product records, 3 bindings, 2 edits | contracts are explained by their documents, one per delivery; approvals cover exactly what is resolved |
| `spec_workflow` | 1 change, 2 kinds of files, no language servers, 1 change of mind | approval before work on a UI that was asked for or shows itself, decisions kept, "ready" passes CI, the loop ends |
| `adoption_never_commits`, `command_double_launch`, `command_reauthorized`, `ui_without_approval` | small instances, each expects a violation | the disagreements of section 6 |

Why the bounds are enough. Three fences are a first attempt, a takeover that
observes it absent or leaves it in doubt, and a restart; the properties relate two
attempts and the audit between them. The longest forward path has fifteen events,
seventeen allow a complete run and every path through an incident to a checkpoint.
In `dispatch` the budgets are the smallest that keep the code's order (`Grace <=
Termination`, `MutationBudget < CommitBudget`, grant expiry at `Timeout`). `Horizon`
gives each case the time it needs: for workers with own ids the clock goes to 4, so
that the longest lease (4 units) expires and the effect is taken over and observed
absent; a shared id needs no takeover and has 3 units and two fences, a command 3
units. (TLC evaluates a state beyond the horizon and does not continue from it; that
is 2.0 million distinct states. What happens later is not left to the bound: the
theorems of section 4 cover it for workers.) In `host_commit` one patch has two
files, so that it can be half applied, the other shares one of them, and the second
attempt of the first is its adoption or its repetition; two threads suffice for a
stray process beside a committer, and the edit falls on the file where most can be
at work. Two guest tasks are what it takes for one to remove the control directory
under the other; that one of them is unruly shows the effect on itself and on its
orderly neighbour. In `migration` two processes suffice for a stale version, two
faults for a crash in each or two in one, two fences for an audit older than the
lease; one effect, because every statement of an upgrade treats effects one by one.
The twelve deliveries of `contract_graph` meet each check of `resolve`, and give two
orders and two texts of one delivery; two edits change a file while it is resolved
and change it back. Where two threads are interchangeable the run uses symmetry, and
only runs of invariants do.

`CHECK_DEADLOCK FALSE` in every run but `contract_graph`, where a resolution can
always begin: a completed effect, a bounded clock, ended processes and an archived
change are legitimate ends.

Fairness. `GuestTask` assumes weak fairness of each runner's and each started
canceller's steps (they are processes of a scheduler, and their waits have
deadlines). It assumes nothing of the model process, of crashes, or of the host
starting a cancellation. `Migration` assumes that a process that opens is
scheduled and that, refused or busy, it tries again (`Persistence`); the code
itself raises once, so this is about a caller that persists. `SpecWorkflow`
assumes what the skill document tells Codex to do (`Diligence`): rerun the
autopilot, do what its report lists, and that the human answers when asked. It
assumes nothing of changes of mind, which are bounded by `MaxEdits`: the loop is
shown to end after the last one. No liveness is claimed of the journal or the
broker: whether an effect is ever completed depends on somebody calling again,
which the code leaves to its user.

Every property has a mutant in `PROJECT.json`: an operator that stands beside
the definition it changes, under a comment beginning `Slip`, and is used by
nothing else.

## 4. Proofs

Each theorem holds for every value of the constants that satisfies the module's
named assumptions (`JournalConstants`, `MigrationConstants`, `DispatchConstants`,
`GraphConstants`, `HostCommitConstants`, `GuestConstants`, `WorkflowConstants`); the
bounds `MaxTime`, `MaxRevision`, `MaxFence`, `MaxFaults`, `MaxEdits`, `Open` and
`Unruly` are constants too, the last two of which may be everything.
`BrokerArguments` is the one assumption that joins two modules: the durations and
margins `Journal` offers include those the brokers use.

| Theorem | Module | States |
|---|---|---|
| `TypeCorrect` | `JournalProofs` | `Spec => []TypeOK` |
| `AttemptsConsistent` | `JournalProofs` | `Spec => []AttemptInv` |
| `NoSilentDuplicate` | `JournalProofs` | `Spec => []RestartOnlyAfterAbsence` |
| `DeadLeasesStayDead` | `JournalProofs` | `Spec => ExpiredLeaseStaysDead` |
| `NoTakeoverOfLiveLease` | `JournalProofs` | `Spec => TakeoverOnlyAfterExpiry` |
| `StaleCallersChangeNothing` | `JournalProofs` | `Spec => ChangedOnlyUnderLiveLease` |
| `CompletionIsFinal` | `JournalProofs` | `Spec => CompletedIsFinal` |
| `EvidenceBelongs` | `JournalProofs` | `Spec => []EvidenceFollowsState` |
| `LogExplains` | `JournalProofs` | `Spec => []LogExplainsRun` |
| `GatesBeforeProduction` | `JournalProofs` | `Spec => []ProductionNeedsEveryGate` |
| `JournalImplementsLifecycle` | `JournalProofs` | `Spec => ImplementsEffectLifecycle` |
| `SchemaNeverMixed` | `MigrationProofs` | `MigrationSpec => []NoMixedSchema` |
| `OpenJournalsAreSound` | `MigrationProofs` | `MigrationSpec => []OpenedIsSound` |
| `RefusalsHaveCause` | `MigrationProofs` | `MigrationSpec => []RefusedForCause` |
| `FilesOnlyMoveForward` | `MigrationProofs` | `MigrationSpec => NeverDowngraded` |
| `FactsSurviveOpening` | `MigrationProofs` | `MigrationSpec => OpeningKeepsFacts` |
| `DispatchTypeCorrect` | `DispatchProofs` | `DispatchSpec => []DispatchTyped` |
| `BrokersUseJournal` | `DispatchProofs` | `DispatchSpec => Spec`, the journal's specification |
| `BrokersNeverRepeat` | `DispatchProofs` | `DispatchSpec => []RestartOnlyAfterAbsence` |
| `BrokersImplementLifecycle` | `DispatchProofs` | `DispatchSpec => ImplementsEffectLifecycle` |
| `CompletionIsHonest` | `DispatchProofs` | `DispatchSpec => []CompletedMeansDone` |
| `ExclusionHolds` | `ExclusionProofs` | `DispatchSpec => []ExclusionInv` |
| `ProcessesUnderLease` | `ExclusionProofs` | `DispatchSpec => []ProcessUnderLease` |
| `MutationsUnderLease` | `ExclusionProofs` | `DispatchSpec => []HostChangedUnderLease` |
| `ProcessesExclude` | `ExclusionProofs` | `DispatchSpec => []OneProcessPerEffect` |
| `PlannedIsUndone` | `ExclusionProofs` | `DispatchSpec => []PlannedMeansUndone` |
| `FencesPayOnce` | `ExclusionProofs` | `DispatchSpec => []((Kind # "command" \/ OwnIds) => LaunchOncePerFence)` |
| `HostIsChangedOnce` | `ExclusionProofs` | `DispatchSpec => []AppliedOnce`: a worker's result is applied once at most |
| `AdoptionNeverCommits` | `ExclusionProofs` | `DispatchSpec => [](...)`: no adoption gets past its first authority check |
| `GraphTypeCorrect` | `GraphProofs` | `GraphSpec => []GraphTypeOK` |
| `NothingIsLost` | `GraphProofs` | `GraphSpec => []ContractIsExplained` |
| `TracesFollowContract` | `GraphProofs` | `GraphSpec => []TracesOfLastContract` |
| `OneContractPerDelivery` | `GraphProofs` | `GraphSpec => []SameDeliverySameContract` |
| `ApprovalsAreBound` | `GraphProofs` | `GraphSpec => []ApprovalCoversContents` |
| `CancelledTasksAreSeen` | `GuestProofs` | `Spec => []CancelledIsSeen` |
| `RunnersLeaveNothing` | `GuestProofs` | `Spec => []NothingLeftBehind` |
| `CommitsStay` | `HostProofs` | `Spec => []CommittedStays` |
| `RecordedStagesLoad` | `HostProofs` | `Spec => []RecordedStageLoads` |
| `NoWorkIsLost` | `HostProofs` | `Spec => NoLostWork` |
| `WorkflowTypeCorrect` | `WorkflowProofs` | `WorkflowSpec => []WorkflowTypeOK` |
| `HumansDecide` | `WorkflowProofs` | `WorkflowSpec => []ImplementationNeedsHuman` |
| `ReadyChangesPass` | `WorkflowProofs` | `WorkflowSpec => []ReadyPassesCi` |
| `ReviewersAreHeard` | `WorkflowProofs` | `WorkflowSpec => DecisionsAreKept` |

Table entries that say `Spec` mean the specification of the module they are about.

**The journal's attempts.** `RestartOnlyAfterAbsence` is not inductive. A restart
is allowed from INTENT, so one must know that every attempt before was observed
absent (`PlannedIsCleared`), under a fence that is replaced or whose lease is dead
(else the same fence could start it again and no audit row would lie between), that
fences only grow (`FencesInOrder`) and that what is in flight was started
(`StartedIffResolving`). `AttemptInv` is their conjunction; TLC checks it in
`journal_lease`. The proof first reduces each of the eight operations to one of five
shapes (`StepsHaveShape`) and then argues from the shapes alone
(`ShapesKeepAttempts`). The observation that makes it work is that a dead lease
stays dead although the clock steps back, because every lease comparison is made
at a clock that is at or beyond the watermark. The same plan serves the three
action properties about leases: four kinds of move, then the properties.

**The journal's rows.** `RowInv` (the evidence belongs to the state, and the audit
has one outcome for each fence) is inductive with the types. `LogExplainsRun` is
inductive by itself: no row of the log is rewritten (`LogMoves`) and an appended one
follows an edge. `ProductionNeedsEveryGate` is not: `ForwardPath` says of every
stage which events lead there, and it is kept because the edges into a stage come
from the stage before (`OneWayIn`) and the stages are pairwise different
(`StagesApart`).

**The refinement.** `JournalImplementsLifecycle` shows that each step of the
journal changes what the abstraction sees of one effect at most (`Elsewhere`), in
one of six ways (`Changes`), by cases over the operations (`StepChanges`), and
that each such way is an action of `EffectLifecycle` or a stutter (`ChangeIsStep`).
The guard that is hard to get is the one of a new attempt, that each earlier one
was observed absent before: it follows from `AttemptInv` (`EarlierAttemptsAbsent`).

**Opening.** `OpeningInv` joins `NoMixedSchema`, what holds of the rows in each
format (`RowsFit`) and what each process may remember at each place (`Remembers`).
A stale process is harmless because the statements of an upgrade fail in any file
it no longer fits, except 2→3, which copies a file of release 3 onto itself.
Soundness of an open journal needs both directions: upgrades establish `AttemptInv`
from `LegacyAttempts`, and the operations keep it (`AttemptsConsistent`'s lemmas).
An effect without a lease row was started under fence 0, which is older than every
fence an operation gives out; that is how the rows of the repository's own old
journal satisfy the invariant.

**The brokers are callers of the journal.** `Dispatch` conjoins actions of `Journal`
with its own state, so that it implements `Journal` is not its shape alone:
`Journal` lets its callers choose arguments from sets, and a broker computes them,
from its grant, its budgets and the rows it read long before. `BrokersUseJournal`
gives for each of the threads' calls the arguments with which it is a step of
`Journal`'s `Next`: an admission deadline that is a time the clock can show, the
run the effect's row names, for a commit the evidence of the PREPARED row. With it
every theorem of `JournalProofs` is one about the journal the brokers share;
`BrokersNeverRepeat` and `BrokersImplementLifecycle` are two of them.

**The brokers' promises.** `DispatchProofs` reduces every journal call a thread makes
to one of three moves of one effect: nothing (`Rests`), a takeover of an expired
lease (`Takes`), a change under a live one (`Works`). `CompletionIsHonest` needs what
a thread knows to have happened (`Earned`). That a launch of a worker uses up its
fence rests on the journal: an effect at INTENT was started only under fences that
are replaced or whose lease is dead. This is `AttemptInv` seen through the
refinement (`AttemptsSpendFences`), and `begin_dispatch` accepts INTENT only.

**Exclusion.** `ExclusionInv`: a live fence belongs to one thread, because ids are
injective; the lease covers what is left of the execution, or of `git apply`,
whatever the wall clock does, since the clock's steps back only help; and what a
probe saw absent is still absent while its fence is current. From
`Grace <= Termination` and `MutationBudget` being what the last check asks for, four
properties follow, for sandboxed and for local workers: the effect of a local worker
happens under the same cover as its process. TLC checks them for two threads, one
effect and three fences; the theorems hold for any number.

**One process per fence.** A command goes through `record_effect`, which accepts a
repeat of STARTED, so for it the fence is not used up by the start. What is true
under ids of one's own is that no two calls hold the same fence of an effect
(`FencesApart`), that a grant not dispatched yet is for an effect at INTENT as long
as its lease lives (`GrantsIntent`), and that its fence has launched nothing
(`Unlaunched`). `ClaimInv` is their conjunction; TLC agreed to it before it was
proved. Section 6 item 2 shows that the hypothesis is needed.

**The host is changed once.** `HostIsChangedOnce` needs no hypothesis on ids: it rests
on the root lock. At most one thread is in a commit (`OneCommitter`), and while it is
there the effect has not been applied before unless the stage is found in place
(`CommitsAnew`). Lease, fence and clock play no part. It says this of a `git apply`
that ends with its broker, as in `Dispatch`; what a git process that outlives its
broker may do is the subject of `HostCommit`.

**Adoption never commits.** `AdoptionInv`: an adoption that has anchored its lease
keeps it no longer than `observed + CommitBudget` (`ShortLease`), and nobody else can
make it longer under the same fence. The first authority check asks for strictly
more, so it refuses. The finding of section 6 item 1 therefore does not depend on
the instance TLC found it in.

**The contract graph.** `GraphInv` says that a resolution in progress holds
exactly what the documents read so far said (`ExplainedSoFar`), bound to the
revision and the digests it was checked against (`Bound`). Two resolutions of one
delivery then read the same texts, and a contract and its digest determine each
other, which is what an approval rests on.

**The guest.** Canceller and runner follow the pattern of two flags: the canceller
leaves its marker before it reads the state file, the runner publishes its process
group before it reads the marker. So a runner that waits for a living process has
published it to a canceller that has yet to look (`FoundInTime`), and otherwise it
will see the marker and stop (`WillStop`). The rest of `GuestInv` says who may remove
the files: the control directory stays as long as there is something in it
(`InControl`), which is what a second task's cleanup could break.

**The host.** Nothing keeps git processes apart, and nothing has to: `HostInv` says
that what a git process found when it began stays true of the files it has yet to
write, except of those that are `stale` (`Undisturbed`); `NoLostWork` is the
consequence for one write. A reported commit stays because a rollback whose call waits
for it has no file of a standing effect to write (`OwnFilesOnly`): it began where its
own effect's patch was in all its files, that effect does not stand (`NotStanding`),
no content is two effects' patch (`PatchesDiffer`), and while the call holds the root
lock (`Locked`) no other call can report. The lock is what this rests on, not the
absence of other git processes.

**The workflow.** What the autopilot has read is true only as long as nobody
disturbed its run (`StillTrue`), while what a human decided is counted when he
decides it: a gate that saw an approval shows that there was one, whatever became of
it since (`Approved`). The level a report states and the level its gates judged by
may differ, so `HumansDecide` needs to know when they agree: a level that was asked
for has left its artifacts before the gates look (the scaffold makes them), one that
a document or an artifact gives away is there for the gates too, and neither goes
away while nobody takes anything back (`Levelled`, `GivenAway`, `GatesSeeLevel`).
Where a file of the branch alone betrays the UI they do not agree, which is section
6 item 4. `ReadyChangesPass` follows from `StillTrue`.

Only model-checked, because it is out of the prover's reach: liveness under fairness
(`CancelledStops`, `PersistentOpenerGetsIn`, `LoopReachesReady`). Every invariant and
action property of the passing runs is stated by a theorem. Five invariants of
`Dispatch` are promised under a condition on the deployment: `Exclusive` is part of
four of them, and `FencesPayOnce` carries the condition of `LaunchOncePerFence`,
which is false of commands that share an id (section 6 item 2).

## 5. What is not modelled, and what is not promised

- Capability policy matching (rule selection, path scopes, argv), the source
  snapshot, canonical digests and schema validation: stateless functions of one
  request or one tree, without control that the properties here could tell apart.
- `classify_change` of `approvals.py`, a table over node kinds that nothing in the
  source calls.
- `doctor`, `status`, `verify` and the self-test of `osdd.py`, and what makes a
  document of a change well formed.
- SQLite itself: transactions are taken as atomic and durable (`synchronous = FULL`,
  which `open` verifies). A busy database is a refusal.
- A power failure: the stage's files and both directories are synced, the chmod that
  seals a stage is not, and `HostCommit`'s `Crash` ends processes only.
- What a stray git process may do to a commit that was reported is modelled and not
  excluded: a reversal that its call gave up on can undo what a retry has found in
  place and reported. `CommittedStays` says so by its history `standing`; nothing in
  the code waits for the process (`vm_worker.py` 856-862).
- That nobody of a guest task's process group survives it. Members that outlive a
  leader which ended by itself are modelled (`ChildExits`), and nothing in the code
  looks for them (`vm_guest.py` 315).
- A property about archives that were interrupted. The archive may stop half way in
  the model; that CI then judges the change as an open one is the definition of the
  gate, and no statement about steps.
- A local worker, a command or a `limactl` process that outlives its crashed broker.
  In the model it ends with the broker; in the code nobody enforces its timeout
  then.
- Inside the local worker's process: its sandbox, and the comparison of the tree
  before and after it, which may fail the result that was made.
- The process of a sandboxed worker is the host's `limactl shell`. The guest process
  it started may live on in the VM, where it can only write its own workspace;
  stopping it is `GuestTask`.
- A human who creates a file of a change in the instant between the scaffold's check
  and its copy of the template.
- Parsing, path checks, attestation, command lines, messages, the CLI and the skill
  documents.

## 6. Where code and documents disagree

1. **An adopted stage can never be committed** (`adoption_never_commits`).
   `begin_prepared_commit` anchors the lease at now + 29 s, `commit_export` starts
   by asking for a lease that lasts *longer* than now + 29 s. Adoption therefore
   ends in RECONCILIATION_REQUIRED each time and the stage stays PREPARED. The
   unit tests of either half pass a stub for the other. `AdoptionNeverCommits` proves
   it for every budget, clock and number of brokers.
2. **A retried command is launched twice** (`command_double_launch`). Workers go
   through `begin_dispatch`, which accepts INTENT only; every other capability
   goes through `record_effect`, which accepts a repeat of STARTED. Two calls
   under one `worker_id` share fence and lease and both launch. `dispatch` shows
   that sandboxed workers do not have this and that own ids avoid it, and
   `FencesPayOnce` proves both.
3. **A second authorization outgrows its lease** (`command_reauthorized`). The
   grant's expiry is renewed, the lease is returned as it was. The process may
   then be alive when the effect is taken over.
4. **CI does not ask for a design review of UI files** (`ui_without_approval`).
   The gates determine the UI level without the changed files, so a branch that
   changes a page beside a change without UI artifacts passes CI at level "none".
   The autopilot does look at the changed files and calls the same branch "unknown".

Behind the first of these waits another, not reached today: `adopt_prepared` of
`worker.py` compares the tree before and after the commit with the exported paths
(`worker.py` 592-595). When the stage is already applied, the case in which
`commit_export` returns at once, the difference is empty, and the launcher would
raise although the effect is COMPLETED.

## 7. Plan

Done: lifecycle, journal, effect lifecycle and refinement, migration, dispatch,
host commit, guest, contract graph, approvals, OSDD workflow; every invariant and
action property of the passing runs is proved, and so is the refinement from the
brokers over the journal to the lifecycle of an effect.

Left, in order of worth:

1. The refinement from `HostCommit` to the step `Dispatch` makes of it: what a
   commit that reports success has done to the tree is one `Apply`.
2. `Policy`: rule selection against a reference definition.
3. A composition of `Dispatch` with `GuestTask`: a cancellation that the launcher
   sends while the next fence is already dispatched.
