----------------------------- MODULE HostCommit -----------------------------
(***************************************************************************)
(* The approved worktree on the host and the threads that change it        *)
(* (vm_worker.py, with run and adopt_prepared of worker.py): each takes    *)
(* the patch a guest returned, validates it against the tree, persists it  *)
(* as a content-addressed stage, and later applies it with git, verifies   *)
(* the outcome and rolls back what it cannot verify.  The only mutual      *)
(* exclusion is the root lock, a flock that the kernel drops when its      *)
(* holder returns or dies: a git process whose caller has died or given up *)
(* works on beside whoever takes the lock next, and an editor knows        *)
(* nothing of it at all.                                                   *)
(*                                                                         *)
(* The callbacks that ask the journal for authority may refuse at every    *)
(* call and are otherwise unconstrained here (Dispatch says when they      *)
(* do not).  Deadlines are nondeterministic.  A manifest of the tree is    *)
(* read at one instant; what happens between two of them is not.           *)
(***************************************************************************)
EXTENDS Naturals

CONSTANTS
  Threads,    \* broker threads, of one or several processes
  Effects,    \* effects whose approved root is this worktree
  Files,      \* regular files of the worktree
  Declared,   \* the files each effect's patch changes
  Nobody,
  MaxFence,   \* bound: attempts of each effect
  Open,       \* bound: the files an editor has open
  MaxEdits    \* bound: changes by an editor

ASSUME HostCommitConstants ==
  /\ Declared \in [Effects -> SUBSET Files]
  /\ Open \subseteq Files
  /\ Nobody \notin Threads
  /\ MaxFence \in [Effects -> Nat] /\ MaxEdits \in Nat

VARIABLES
  host,       \* what each file holds
  lock,       \* holder of the root lock
  job,        \* what each thread is doing; lost when it returns or crashes
  git,        \* the git process each thread has started, which may outlive it
  published,  \* stages in the stage directory under their digest
  sealed,     \* those of them that are read-only
  recorded,   \* stages handed to the broker, which records them PREPARED
  fence,      \* the newest fence of each effect
  standing,   \* history: effects for which commit_export has returned and whose
              \* files nobody else has changed since: an editor, a later commit,
              \* or a git process that nobody waits for any more
  edits       \* how often the editor has written

stageVars == <<published, sealed, recorded, fence>>
vars == <<host, lock, job, git, stageVars, standing, edits>>

-----------------------------------------------------------------------------
(* A file is compared as a whole, so its content is who wrote it last. *)

Original == <<"original", 0>>
Patched(e) == <<"patched", e>>
Edited(n) == <<"edited", n>>

\* A stage is its metadata: the digest under which it is stored covers all of
\* it, the fence too.  What it expects afterwards follows from its patch.
Stage(e, n, before) == [effect |-> e, fence |-> n, before |-> before]

Changed(s) == Declared[s.effect]

After(s) == [f \in Files |-> IF f \in Changed(s) THEN Patched(s.effect) ELSE s.before[f]]

\* git apply, or git apply --reverse, finds the content it starts from.  Both
\* look at all files before they write the first.
Applies(e, from) == \A f \in Declared[e] : host[f] = from[f]
Reverts(s) == \A f \in Changed(s) : host[f] = Patched(s.effect)

\* A thread is somewhere in a call (pc), about a stage, and knows whether the
\* last git process succeeded (ok).  A git process has files still to write
\* (todo), some of which have changed since it looked at them (stale: history).
Job(pc, s, ok) == [pc |-> pc, stage |-> s, ok |-> ok]
Process(mode, s, todo, stale) == [mode |-> mode, stage |-> s, todo |-> todo, stale |-> stale]

NoStage == Stage(Nobody, 0, [f \in Files |-> Original])
Idle == Job("idle", NoStage, FALSE)
NoGit == Process("none", NoStage, {}, {})

Init ==
  /\ host = [f \in Files |-> Original]
  /\ lock = Nobody
  /\ job = [t \in Threads |-> Idle]
  /\ git = [t \in Threads |-> NoGit]
  /\ published = {} /\ sealed = {} /\ recorded = {}
  /\ fence = [e \in Effects |-> 0]
  /\ standing = {}
  /\ edits = 0

At(t, pc) == job[t].pc = pc
Becomes(t, pc, s, ok) == job' = [job EXCEPT ![t] = Job(pc, s, ok)]
Goto(t, pc) == Becomes(t, pc, job[t].stage, job[t].ok)
Unlock(t) == lock' = IF lock = t THEN Nobody ELSE lock

\* The call ends, by return or by exception; the lock is given up either way.
Leave(t) == job' = [job EXCEPT ![t] = Idle] /\ Unlock(t)

\* A call begins.  Threads are names of calls: one whose git process still lives
\* is not used again meanwhile.
Free(t) == At(t, "idle") /\ git[t].mode = "none"

HostUnchanged == UNCHANGED <<host, git, standing, edits>>
StageUnchanged == UNCHANGED stageVars

-----------------------------------------------------------------------------
(* The launcher: run and adopt_prepared. *)

\* run takes its snapshot of the tree and dispatches a new attempt.  The guest
\* works on what it saw, kept as the stage's before until the stage is made.
Run(t, e) ==
  /\ Free(t)
  /\ fence[e] < MaxFence[e]
  /\ fence' = [fence EXCEPT ![e] = @ + 1]
  /\ Becomes(t, "guest", Stage(e, fence[e] + 1, host), FALSE)
  /\ UNCHANGED <<lock, published, sealed, recorded>> /\ HostUnchanged

\* prepare_result: the tree is still what it was when the run began.
Intermediate(t) ==
  /\ At(t, "guest")
  /\ IF host = job[t].stage.before THEN Goto(t, "exported") ELSE job' = [job EXCEPT ![t] = Idle]
  /\ UNCHANGED lock /\ HostUnchanged /\ StageUnchanged

\* adopt_export re-attests a recorded stage for the fence of the adopter: a new
\* one, or the same one when the adopter is the worker that still holds it.
Adopt(t, s, n) ==
  /\ Free(t)
  /\ s \in recorded \cap sealed
  /\ n \in {fence[s.effect], fence[s.effect] + 1} /\ n <= MaxFence[s.effect]
  /\ fence' = [fence EXCEPT ![s.effect] = n]
  /\ Becomes(t, "persisting", Stage(s.effect, n, s.before), FALSE)
  /\ UNCHANGED <<lock, published, sealed, recorded>> /\ HostUnchanged

-----------------------------------------------------------------------------
(* prepare_export and _persist_stage *)

\* _validate_patch_in_copy, under the root lock: before and after are manifests
\* of a copy of the tree and of the copy with the patch applied, which must
\* differ in the declared files.
Validate(t) ==
  LET s == job[t].stage IN
  /\ At(t, "staging")
  /\ Applies(s.effect, s.before)
  /\ \A f \in Changed(s) : host[f] # Patched(s.effect)
  /\ Becomes(t, "persisting", Stage(s.effect, s.fence, host), FALSE)
  /\ UNCHANGED lock /\ HostUnchanged /\ StageUnchanged

\* The complete temporary directory is renamed to its digest; a stage that is
\* already there stays.
Publish(t) ==
  LET s == job[t].stage IN
  /\ At(t, "persisting")
  /\ published' = published \cup {s}
  /\ Goto(t, IF s \in published THEN "loading" ELSE "published")
  /\ UNCHANGED <<lock, sealed, recorded, fence>> /\ HostUnchanged

\* chmod of the directory, after the rename.
Seal(t) ==
  /\ At(t, "published")
  /\ sealed' = sealed \cup {job[t].stage}
  /\ Goto(t, "loading")
  /\ UNCHANGED <<lock, published, recorded, fence>> /\ HostUnchanged

\* Slip: the stage that was just persisted is handed out without _load_stage.
HandOut(t) ==
  /\ At(t, "loading")
  /\ recorded' = recorded \cup {job[t].stage}
  /\ Goto(t, "prepared") /\ Unlock(t)
  /\ UNCHANGED <<published, sealed, fence>> /\ HostUnchanged

\* _load_stage of what was just persisted: a directory somebody can still write
\* to is refused.  Only then the broker learns of the stage.
Load(t) ==
  /\ At(t, "loading")
  /\ job[t].stage \in sealed
  /\ recorded' = recorded \cup {job[t].stage}
  /\ Goto(t, "prepared") /\ Unlock(t)
  /\ UNCHANGED <<published, sealed, fence>> /\ HostUnchanged

-----------------------------------------------------------------------------
(* The root lock.  prepare_export waits for it as long as it takes,         *)
(* commit_export until its deadline.                                        *)

\* flock asks for the lock alone, not what a former holder's git is doing.
Lock(t) ==
  /\ \/ At(t, "exported") /\ Goto(t, "staging")
     \/ At(t, "prepared") /\ Goto(t, "locked")
  /\ lock = Nobody
  /\ lock' = t
  /\ HostUnchanged /\ StageUnchanged

-----------------------------------------------------------------------------
(* commit_export, under the root lock *)

\* commit_export returns the declared paths.  The launcher then compares the
\* tree with its first snapshot, which decides what it reports, not what the
\* host holds.
Commit(t) == standing' = standing \cup {job[t].stage.effect} /\ Leave(t)

\* With authority and a stage that loads: a tree that already is the result
\* needs nothing, any other but the one the stage was made for is refused.
Compare(t) ==
  LET s == job[t].stage IN
  /\ At(t, "locked")
  /\ s \in sealed
  /\ \/ host = After(s) /\ Commit(t)
     \/ host # After(s) /\ host = s.before /\ Goto(t, "compared") /\ UNCHANGED <<lock, standing>>
  /\ UNCHANGED <<host, git, edits>> /\ StageUnchanged

\* git apply --check
CheckPatch(t) ==
  /\ At(t, "compared")
  /\ Applies(job[t].stage.effect, job[t].stage.before)
  /\ Goto(t, "checked")
  /\ UNCHANGED lock /\ HostUnchanged /\ StageUnchanged

\* A git process that finds every file as it should be goes on to write them;
\* another ends at once.
StartGit(t, mode, fits, waiting, ended) ==
  IF fits
  THEN /\ git' = [git EXCEPT ![t] = Process(mode, job[t].stage, Changed(job[t].stage), {})]
       /\ Becomes(t, waiting, job[t].stage, FALSE)
  ELSE UNCHANGED git /\ Becomes(t, ended, job[t].stage, FALSE)

\* The second authority check passes and git apply is started.
ApplyPatch(t) ==
  LET s == job[t].stage IN
  /\ At(t, "checked")
  /\ StartGit(t, "apply", Applies(s.effect, s.before), "applying", "applied")
  /\ UNCHANGED <<host, lock, standing, edits>> /\ StageUnchanged

\* The tree is read back before the verification deadline.  An exit status of
\* zero does not count without it.
Verify(t) ==
  LET s == job[t].stage IN
  /\ At(t, "applied")
  /\ job[t].ok /\ host = After(s)
  /\ Commit(t)
  /\ UNCHANGED <<host, git, edits>> /\ StageUnchanged

\* Slip: the root lock covers the application only.
RollBackUnlocked(t) ==
  /\ At(t, "applied")
  /\ StartGit(t, "reverse", Reverts(job[t].stage), "reversing", "reversed")
  /\ Unlock(t)
  /\ UNCHANGED <<host, standing, edits>> /\ StageUnchanged

\* Slip: every file is restored from the manifest instead.
RestoreBefore(t) ==
  /\ At(t, "applied")
  /\ StartGit(t, "reverse", TRUE, "reversing", "reversed")
  /\ UNCHANGED <<host, lock, standing, edits>> /\ StageUnchanged

\* git failed, or the tree is neither what it was nor what it should be, or the
\* verification was out of time: the patch is reversed.
RollBack(t) ==
  /\ At(t, "applied")
  /\ StartGit(t, "reverse", Reverts(job[t].stage), "reversing", "reversed")
  /\ UNCHANGED <<host, lock, standing, edits>> /\ StageUnchanged

\* The tree is read once more; whatever it is, the caller gets an exception and
\* the broker leaves the effect to reconciliation.
AfterRollBack(t) ==
  /\ At(t, "reversed")
  /\ Leave(t)
  /\ HostUnchanged /\ StageUnchanged

\* The broker refuses authority, a deadline passes, a check or a file operation
\* fails, while no git process is at work: an exception.
Fail(t) ==
  /\ job[t].pc \notin {"idle", "applying", "reversing"}
  /\ Leave(t)
  /\ HostUnchanged /\ StageUnchanged

-----------------------------------------------------------------------------
(* git processes *)

Writes(g) == IF g.mode = "apply" THEN After(g.stage) ELSE g.stage.before

Without(f) == {e \in standing : f \notin Declared[e]}

\* The caller of t's git process is in _git_apply.
Waiting(t) == job[t].pc \in {"applying", "reversing"}

\* A git process that is left with these files to write.
Left(g, todo) == [g EXCEPT !.todo = todo, !.stale = @ \cap todo]

\* Another process writes f under a git process that looked at it before.
Overtaken(g, f) == [g EXCEPT !.stale = @ \cup ({f} \cap g.todo)]

\* One file is replaced, in an order that is git's own, whatever it holds now.
\* A rollback its caller waits for is not what takes a commit's standing away.
GitWrite(t) ==
  /\ git[t].mode # "none"
  /\ \E f \in git[t].todo :
       /\ host' = [host EXCEPT ![f] = Writes(git[t])[f]]
       /\ git' = [u \in Threads |-> IF u = t THEN Left(git[t], git[t].todo \ {f})
                                              ELSE Overtaken(git[u], f)]
       /\ standing' = IF git[t].mode = "reverse" /\ Waiting(t) THEN standing ELSE Without(f)
  /\ UNCHANGED <<lock, job, edits>> /\ StageUnchanged

\* _git_apply returns: git is done, or failed or was killed at its timeout
\* before it was.
GitEnds(t) ==
  /\ git[t].mode # "none" /\ Waiting(t)
  /\ git' = [git EXCEPT ![t] = NoGit]
  /\ IF At(t, "applying") THEN Becomes(t, "applied", job[t].stage, git[t].todo = {})
                           ELSE Goto(t, "reversed")
  /\ UNCHANGED <<host, lock, standing, edits>> /\ StageUnchanged

\* "git apply did not terminate within commit budget": the killed process is in
\* the middle of one last operation when its caller gives up.
GitLingers(t) ==
  /\ git[t].mode # "none" /\ Waiting(t)
  /\ \E f \in Files : git' = [git EXCEPT ![t] = Left(@, @.todo \cap {f})]
  /\ Leave(t)
  /\ UNCHANGED <<host, standing, edits>> /\ StageUnchanged

\* A process nobody waits for ends, at the latest when it has written it all.
StrayEnds(t) ==
  /\ git[t].mode # "none" /\ ~Waiting(t)
  /\ git' = [git EXCEPT ![t] = NoGit]
  /\ UNCHANGED <<host, lock, job, standing, edits>> /\ StageUnchanged

-----------------------------------------------------------------------------
(* What happens to the threads from outside *)

\* The broker is killed: its memory and the lock are gone, its git process and
\* the stage directory stay.
Crash(t) ==
  /\ ~At(t, "idle")
  /\ Leave(t)
  /\ HostUnchanged /\ StageUnchanged

\* An editor saves a file, whoever holds the lock and whatever git is at.
Edit(f) ==
  /\ f \in Open /\ edits < MaxEdits
  /\ edits' = edits + 1
  /\ host' = [host EXCEPT ![f] = Edited(edits + 1)]
  /\ standing' = Without(f)
  /\ git' = [t \in Threads |-> Overtaken(git[t], f)]
  /\ UNCHANGED <<lock, job>> /\ StageUnchanged

Working(t) ==
  \/ Intermediate(t) \/ Validate(t) \/ Publish(t) \/ Seal(t) \/ Load(t) \/ Lock(t)
  \/ Compare(t) \/ CheckPatch(t) \/ ApplyPatch(t) \/ Verify(t) \/ RollBack(t)
  \/ AfterRollBack(t) \/ Fail(t)

GitProcess(t) == GitWrite(t) \/ GitEnds(t) \/ GitLingers(t) \/ StrayEnds(t)

Next ==
  \/ \E t \in Threads :
       \/ \E e \in Effects : Run(t, e)
       \/ \E s \in recorded : \E n \in 1..MaxFence[s.effect] : Adopt(t, s, n)
       \/ Working(t) \/ GitProcess(t) \/ Crash(t)
  \/ \E f \in Files : Edit(f)

Spec == Init /\ [][Next]_vars

-----------------------------------------------------------------------------
(* What the host may rely on. *)

\* What a git process found in the files it set out to write.
Found(g) == IF g.mode = "apply" THEN g.stage.before ELSE After(g.stage)

\* Nobody's work is lost unseen: git replaces a file only where it still holds
\* what the stage saw when it was made, and a rollback removes nothing but what
\* its own patch put there, unless somebody wrote that very file between git's
\* look at it and its write.  An edit at any other time survives, whatever the
\* commits, rollbacks, crashes and strays around it.
NoLostWork ==
  [][\A t \in Threads : \A f \in git[t].todo \ git'[t].todo :
       host'[f] # host[f] => f \in git[t].stale \/ host[f] = Found(git[t])[f]]_vars

\* A commit that was reported is whole and stays: no retry, no adoption and no
\* rollback that a call waits for takes it back, in part or altogether.  (An
\* editor may, and a later commit, which by NoLostWork has seen it, and so may a
\* git process that outlived its call: nothing in the code keeps that out.)
CommittedStays ==
  \A e \in standing : \A f \in Declared[e] : host[f] = Patched(e)

\* Every stage the broker was told of, and records as PREPARED, can be loaded
\* again, whoever crashed between the rename and the chmod of the directory and
\* whoever persisted the same stage at the same time.
RecordedStageLoads == recorded \subseteq sealed
=============================================================================
