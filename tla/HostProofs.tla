---------------------------- MODULE HostProofs ----------------------------
(***************************************************************************)
(* Safety of the approved worktree, for any number of threads, effects and *)
(* files: what is committed stays, and what is replaced was seen.          *)
(*                                                                         *)
(* The root lock is lost with its holder while the git process it started  *)
(* may live on, so nothing here says that git processes exclude each other *)
(* or an editor.  Two things hold nevertheless.  What a git process found  *)
(* when it began stays true of the files it has yet to write, except of    *)
(* those somebody else has written since (Undisturbed).  And a rollback    *)
(* that a call waits for touches no file of an effect that stands          *)
(* (OwnFilesOnly): it began under the lock in a call whose effect does not *)
(* stand (NotStanding) and found nothing but its own patch, no content is  *)
(* two effects' patch, and nothing is reported as committed while the call *)
(* waits, for that takes the lock.                                         *)
(***************************************************************************)
EXTENDS HostCommit, TLAPS

Contents == {Original} \cup {Patched(e) : e \in Effects} \cup {Edited(n) : n \in Nat}
Trees == [Files -> Contents]
Stages == [effect : Effects, fence : Nat, before : Trees]

JobPcs == {"idle", "guest", "exported", "staging", "persisting", "published", "loading",
           "prepared", "locked", "compared", "checked", "applying", "applied",
           "reversing", "reversed"}

Jobs == [pc : JobPcs, stage : Stages \cup {NoStage}, ok : BOOLEAN]
Processes == [mode : {"none", "apply", "reverse"}, stage : Stages \cup {NoStage},
              todo : SUBSET Files, stale : SUBSET Files]

\* Only the idle have no stage.
JobsOK ==
  /\ job \in [Threads -> Jobs]
  /\ \A t \in Threads : job[t].pc # "idle" => job[t].stage \in Stages

GitsOK ==
  /\ git \in [Threads -> Processes]
  /\ \A t \in Threads : git[t].mode # "none" => git[t].stage \in Stages

\* Every tree, job, process and stage is what it is said to be.
HostTypeOK ==
  /\ host \in Trees
  /\ lock \in Threads \cup {Nobody}
  /\ JobsOK /\ GitsOK
  /\ published \subseteq Stages /\ sealed \subseteq Stages /\ recorded \subseteq Stages
  /\ fence \in [Effects -> Nat]
  /\ standing \subseteq Effects
  /\ edits \in Nat

\* Everything from Lock to the end of the call happens under the root lock.
Locked(t) ==
  job[t].pc \in {"locked", "compared", "checked", "applying", "applied",
                "reversing", "reversed"} => lock = t

\* What git found in the files it has yet to write is still there, except where
\* somebody else has written since.
Undisturbed(t) ==
  /\ git[t].todo \subseteq Changed(git[t].stage)
  /\ \A f \in git[t].todo \ git[t].stale : host[f] = Found(git[t])[f]

\* A rollback that a call waits for has no file of a standing effect to write.
OwnFilesOnly(t) ==
  Waiting(t) /\ git[t].mode = "reverse" =>
    \A f \in git[t].todo : \A e \in standing : f \notin Declared[e]

\* A call that compared the tree and went on is about an effect that does not
\* stand, until it commits it.
NotStanding(t) ==
  job[t].pc \in {"compared", "checked", "applying", "applied", "reversing", "reversed"} =>
    job[t].stage.effect \notin standing

ThreadInv(t) ==
  Locked(t) /\ Undisturbed(t) /\ OwnFilesOnly(t) /\ NotStanding(t)

HostSafe ==
  /\ \A t \in Threads : ThreadInv(t)
  /\ CommittedStays
  /\ RecordedStageLoads

HostInv == HostTypeOK /\ HostSafe

-----------------------------------------------------------------------------
(* Facts about contents and stages. *)

\* A file's content tells whose patch it is.
LEMMA PatchesDiffer ==
  ASSUME NEW d \in Effects, NEW e \in Effects, Patched(d) = Patched(e)
  PROVE  d = e
BY DEF Patched

\* The trees a stage starts from and leads to are trees.
LEMMA StageTrees ==
  ASSUME HostCommitConstants, NEW s \in Stages
  PROVE  /\ s.effect \in Effects /\ s.before \in Trees
         /\ Changed(s) \subseteq Files
         /\ After(s) \in Trees
         /\ \A f \in Changed(s) : After(s)[f] = Patched(s.effect)
BY DEF HostCommitConstants, Stages, Trees, Contents, Changed, After

-----------------------------------------------------------------------------
(* The invariant is inductive: types. *)

\* Initially the tree is untouched and nobody works on it.
LEMMA HostInit == Init => HostInv
<1> SUFFICES ASSUME Init
             PROVE  HostInv
  OBVIOUS
<1>1. HostTypeOK
  BY DEF Init, HostTypeOK, JobsOK, GitsOK, Jobs, Processes, Trees, Contents, Idle, NoGit,
         Job, Process, JobPcs
<1>2. ASSUME NEW t \in Threads
      PROVE  ThreadInv(t)
  BY DEF Init, ThreadInv, Locked, OwnFilesOnly, Undisturbed, NotStanding, Idle, NoGit, Job,
         Process
<1>3. CommittedStays /\ RecordedStageLoads
  BY DEF Init, CommittedStays, RecordedStageLoads
<1>4. QED
  BY <1>1, <1>2, <1>3 DEF HostInv, HostSafe

\* What a call does to its own record keeps the records' type.
LEMMA JobTyping ==
  ASSUME JobsOK, NEW t \in Threads, NEW pc \in JobPcs, NEW s \in Stages,
         NEW ok \in BOOLEAN, Becomes(t, pc, s, ok)
  PROVE  JobsOK'
BY DEF JobsOK, Jobs, Becomes, Job

\* So does going on with the stage it has.
LEMMA GotoTyping ==
  ASSUME JobsOK, NEW t \in Threads, NEW pc \in JobPcs, job[t].pc # "idle", Goto(t, pc)
  PROVE  JobsOK'
<1>1. job[t].stage \in Stages /\ job[t].ok \in BOOLEAN
  BY DEF JobsOK, Jobs
<1>2. QED
  BY <1>1, JobTyping DEF Goto

\* So does leaving the call.
LEMMA LeaveTyping ==
  ASSUME JobsOK, NEW t \in Threads, job' = [job EXCEPT ![t] = Idle]
  PROVE  JobsOK'
<1>1. Idle \in Jobs /\ Idle.pc = "idle"
  BY DEF Idle, Job, Jobs, JobPcs
<1>2. QED
  BY <1>1 DEF JobsOK

\* A git process that is started is of its thread's stage.
LEMMA StartTyping ==
  ASSUME HostCommitConstants, JobsOK, GitsOK, NEW t \in Threads, job[t].pc # "idle",
         NEW mode \in {"apply", "reverse"}, NEW fits \in BOOLEAN,
         NEW waiting \in JobPcs, NEW ended \in JobPcs,
         StartGit(t, mode, fits, waiting, ended)
  PROVE  JobsOK' /\ GitsOK'
<1> DEFINE s == job[t].stage
           p == Process(mode, s, Changed(s), {})
<1>1. s \in Stages
  BY DEF JobsOK
<1>2. p \in Processes /\ p.stage \in Stages
  <2>1. Changed(s) \in SUBSET Files
    BY <1>1, StageTrees
  <2>2. QED
    BY <1>1, <2>1 DEF Process, Processes
<1> HIDE DEF s, p
<1>3. GitsOK'
  <2>1. git' = git \/ git' = [git EXCEPT ![t] = p]
    BY DEF StartGit, s, p
  <2>2. QED
    BY <1>2, <2>1 DEF GitsOK
<1>4. JobsOK'
  BY <1>1, JobTyping DEF StartGit, s
<1>5. QED
  BY <1>3, <1>4

\* Every step of a call keeps the types.
LEMMA WorkingTyping ==
  ASSUME HostCommitConstants, HostTypeOK, NEW t \in Threads, Working(t)
  PROVE  HostTypeOK'
<1> USE DEF At, HostUnchanged, StageUnchanged, stageVars
<1> DEFINE Others == host' = host /\ git' = git /\ edits' = edits /\ fence' = fence
           s == job[t].stage
<1>j. JobsOK /\ GitsOK
  BY DEF HostTypeOK
<1>s. job[t].pc # "idle" => s \in Stages
  BY DEF HostTypeOK, JobsOK
<1>u. Unlock(t) => lock' \in Threads \cup {Nobody}
  BY DEF HostTypeOK, Unlock
<1>q. ASSUME JobsOK', lock' \in Threads \cup {Nobody}, Others,
             published' \subseteq Stages, sealed' \subseteq Stages, recorded' \subseteq Stages,
             standing' \subseteq Effects
      PROVE  HostTypeOK'
  BY <1>q DEF HostTypeOK, GitsOK
<1>k. HostTypeOK => /\ lock \in Threads \cup {Nobody}
                    /\ published \subseteq Stages /\ sealed \subseteq Stages
                    /\ recorded \subseteq Stages /\ standing \subseteq Effects
  BY DEF HostTypeOK
<1> HIDE DEF Others, s
<1>1. CASE Intermediate(t)
  BY <1>1, <1>j, <1>q, <1>k, GotoTyping, LeaveTyping DEF Intermediate, JobPcs, Others
<1>2. CASE Validate(t)
  <2>1. Stage(s.effect, s.fence, host) \in Stages
    BY <1>2, <1>s DEF Validate, Stages, Stage, HostTypeOK
  <2>2. JobsOK'
    BY <1>2, <1>j, <2>1, JobTyping DEF Validate, s, JobPcs
  <2>3. QED
    BY <1>2, <2>2, <1>q, <1>k DEF Validate, Others
<1>3. CASE Publish(t)
  BY <1>3, <1>j, <1>s, <1>q, <1>k, GotoTyping DEF Publish, s, JobPcs, Others
<1>4. CASE Seal(t)
  BY <1>4, <1>j, <1>s, <1>q, <1>k, GotoTyping DEF Seal, s, JobPcs, Others
<1>5. CASE Load(t)
  BY <1>5, <1>j, <1>s, <1>q, <1>k, <1>u, GotoTyping DEF Load, s, JobPcs, Others
<1>6. CASE Lock(t)
  BY <1>6, <1>j, <1>s, <1>q, <1>k, GotoTyping DEF Lock, s, JobPcs, Others
<1>7. CASE Compare(t)
  <2>1. s \in Stages
    BY <1>7, <1>s DEF Compare
  <2>2. CASE Commit(t)
    BY <1>7, <1>j, <2>1, <2>2, <1>q, <1>k, <1>u, LeaveTyping, StageTrees
       DEF Compare, Commit, Leave, s, Others
  <2>3. CASE Goto(t, "compared") /\ UNCHANGED <<lock, standing>>
    BY <1>7, <1>j, <2>3, <1>q, <1>k, GotoTyping DEF Compare, Others, JobPcs
  <2>4. QED
    BY <1>7, <2>2, <2>3 DEF Compare
<1>8. CASE CheckPatch(t)
  BY <1>8, <1>j, <1>q, <1>k, GotoTyping DEF CheckPatch, JobPcs, Others
<1>9. CASE ApplyPatch(t) \/ RollBack(t)
  <2>1. PICK mode \in {"apply", "reverse"}, fits \in BOOLEAN,
             waiting \in {"applying", "reversing"}, ended \in {"applied", "reversed"} :
          StartGit(t, mode, fits, waiting, ended)
    BY <1>9 DEF ApplyPatch, RollBack, Applies, Reverts
  <2>2. /\ job[t].pc # "idle"
        /\ UNCHANGED <<host, lock, standing, edits, published, sealed, recorded, fence>>
    BY <1>9 DEF ApplyPatch, RollBack
  <2>3. waiting \in JobPcs /\ ended \in JobPcs
    BY DEF JobPcs
  <2>4. JobsOK' /\ GitsOK'
    BY <1>j, <2>1, <2>2, <2>3, StartTyping
  <2>5. QED
    BY <2>2, <2>4 DEF HostTypeOK
<1>10. CASE Verify(t)
  BY <1>10, <1>j, <1>s, <1>q, <1>k, <1>u, LeaveTyping, StageTrees
     DEF Verify, Commit, Leave, s, Others
<1>11. CASE AfterRollBack(t) \/ Fail(t)
  BY <1>11, <1>j, <1>q, <1>k, <1>u, LeaveTyping DEF AfterRollBack, Fail, Leave, Others
<1>12. QED
  BY <1>1, <1>2, <1>3, <1>4, <1>5, <1>6, <1>7, <1>8, <1>9, <1>10, <1>11 DEF Working

\* A process that is overtaken stays what it is.
LEMMA OvertakenTyping ==
  ASSUME NEW g \in Processes, NEW f \in Files
  PROVE  /\ Overtaken(g, f) \in Processes
         /\ Overtaken(g, f).mode = g.mode /\ Overtaken(g, f).stage = g.stage
         /\ Overtaken(g, f).todo = g.todo
         /\ Overtaken(g, f).stale = g.stale \cup ({f} \cap g.todo)
BY DEF Overtaken, Processes

\* A git process keeps its thread's types, whether it works, ends or lingers.
LEMMA GitTyping ==
  ASSUME HostCommitConstants, HostTypeOK, NEW t \in Threads, GitProcess(t)
  PROVE  HostTypeOK'
<1> USE DEF At, StageUnchanged, stageVars
<1>j. JobsOK /\ GitsOK
  BY DEF HostTypeOK
<1>n. NoGit \in Processes /\ NoGit.mode = "none"
  BY DEF NoGit, Process, Processes
<1>l. ASSUME NEW g \in Processes, NEW todo \in SUBSET Files
      PROVE  /\ Left(g, todo) \in Processes
             /\ Left(g, todo).mode = g.mode /\ Left(g, todo).stage = g.stage
  BY DEF Left, Processes
<1>t. git[t].todo \subseteq Files
  BY <1>j DEF GitsOK, Processes
<1>e. ASSUME git' = [git EXCEPT ![t] = NoGit]
      PROVE  GitsOK'
  BY <1>j, <1>e, <1>n DEF GitsOK
<1>1. CASE GitWrite(t)
  <2>1. PICK f \in git[t].todo :
          /\ host' = [host EXCEPT ![f] = Writes(git[t])[f]]
          /\ git' = [u \in Threads |-> IF u = t THEN Left(git[t], git[t].todo \ {f})
                                                 ELSE Overtaken(git[u], f)]
          /\ standing' \in {standing, Without(f)}
    BY <1>1 DEF GitWrite
  <2>2. git[t].stage \in Stages /\ git[t].mode # "none"
    BY <1>1, <1>j DEF GitWrite, GitsOK
  <2>3. Writes(git[t]) \in Trees
    BY <2>2, StageTrees DEF Writes
  <2>4. host' \in Trees
    BY <2>1, <2>3, <1>t DEF HostTypeOK, Trees
  <2>5. GitsOK'
    <3>1. git[t] \in Processes /\ git[t].todo \ {f} \in SUBSET Files
      BY <1>j, <1>t DEF GitsOK
    <3>2. ASSUME NEW u \in Threads
          PROVE  /\ git'[u] \in Processes
                 /\ git'[u].mode = git[u].mode /\ git'[u].stage = git[u].stage
      BY <2>1, <3>1, <1>l, <1>j, <1>t, OvertakenTyping DEF GitsOK
    <3>3. QED
      BY <2>1, <3>2, <1>j DEF GitsOK
  <2>6. standing' \subseteq Effects
    BY <2>1 DEF HostTypeOK, Without
  <2>7. QED
    BY <1>1, <2>4, <2>5, <2>6 DEF GitWrite, HostTypeOK, JobsOK
<1>2. CASE GitEnds(t)
  <2>1. job[t].pc # "idle" /\ job[t].stage \in Stages
    BY <1>2, <1>j DEF GitEnds, Waiting, JobsOK
  <2>2. PICK pc \in {"applied", "reversed"}, ok \in BOOLEAN : Becomes(t, pc, job[t].stage, ok)
    BY <1>2, <1>j DEF GitEnds, Goto, JobsOK, Jobs
  <2>3. JobsOK'
    BY <1>j, <2>1, <2>2, JobTyping DEF JobPcs
  <2>4. QED
    BY <1>2, <1>e, <2>3 DEF GitEnds, HostTypeOK
<1>3. CASE GitLingers(t)
  <2>1. GitsOK'
    <3>1. PICK f \in Files : git' = [git EXCEPT ![t] = Left(git[t], git[t].todo \cap {f})]
      BY <1>3, <1>j DEF GitLingers, GitsOK
    <3>2. git[t] \in Processes /\ git[t].todo \cap {f} \in SUBSET Files
      BY <1>j DEF GitsOK
    <3>3. QED
      BY <1>j, <3>1, <3>2, <1>l DEF GitsOK
  <2>2. JobsOK' /\ lock' \in Threads \cup {Nobody}
    BY <1>3, <1>j, LeaveTyping DEF GitLingers, Leave, Unlock, HostTypeOK
  <2>3. QED
    BY <1>3, <2>1, <2>2 DEF GitLingers, HostTypeOK
<1>4. CASE StrayEnds(t)
  BY <1>4, <1>e DEF StrayEnds, HostTypeOK, JobsOK
<1>5. QED
  BY <1>1, <1>2, <1>3, <1>4 DEF GitProcess

\* Every step keeps the types.
LEMMA HostTyping ==
  ASSUME HostCommitConstants, HostTypeOK, [Next]_vars
  PROVE  HostTypeOK'
<1> USE DEF At, HostUnchanged, StageUnchanged, stageVars
<1>j. JobsOK /\ GitsOK
  BY DEF HostTypeOK
<1>1. CASE UNCHANGED vars
  BY <1>1 DEF vars, HostTypeOK, JobsOK, GitsOK
<1>2. ASSUME NEW t \in Threads, NEW e \in Effects, Run(t, e)
      PROVE  HostTypeOK'
  <2>1. Stage(e, fence[e] + 1, host) \in Stages
    BY DEF HostTypeOK, Stages, Stage
  <2>2. JobsOK'
    BY <1>2, <1>j, <2>1, JobTyping DEF Run, JobPcs
  <2>3. QED
    BY <1>2, <2>2 DEF Run, Free, HostTypeOK, GitsOK
<1>3. ASSUME NEW t \in Threads, NEW s \in recorded, NEW n \in 1..MaxFence[s.effect],
             Adopt(t, s, n)
      PROVE  HostTypeOK'
  <2>1. s \in Stages
    BY DEF HostTypeOK
  <2>2. s.effect \in Effects /\ n \in Nat
    BY <1>3, <2>1 DEF Stages, Adopt, HostTypeOK
  <2>3. Stage(s.effect, n, s.before) \in Stages
    BY <2>1, <2>2 DEF Stages, Stage
  <2>4. JobsOK'
    BY <1>3, <1>j, <2>3, JobTyping DEF Adopt, JobPcs
  <2>5. QED
    BY <1>3, <2>2, <2>4 DEF Adopt, Free, HostTypeOK, GitsOK
<1>4. ASSUME NEW t \in Threads, Crash(t)
      PROVE  HostTypeOK'
  <2>1. JobsOK' /\ lock' \in Threads \cup {Nobody}
    BY <1>4, <1>j, LeaveTyping DEF Crash, Leave, Unlock, HostTypeOK
  <2>2. QED
    BY <1>4, <2>1 DEF Crash, HostTypeOK, GitsOK
<1>5. ASSUME NEW f \in Files, Edit(f)
      PROVE  HostTypeOK'
  <2>1. Edited(edits + 1) \in Contents /\ edits + 1 \in Nat
    BY DEF Contents, HostTypeOK
  <2>2. host' \in Trees
    BY <1>5, <2>1 DEF Edit, HostTypeOK, Trees
  <2>3. GitsOK'
    BY <1>5, <1>j, OvertakenTyping DEF Edit, GitsOK
  <2>4. QED
    BY <1>5, <2>1, <2>2, <2>3 DEF Edit, HostTypeOK, Without, JobsOK
<1>6. QED
  BY <1>1, <1>2, <1>3, <1>4, <1>5, WorkingTyping, GitTyping DEF Next

-----------------------------------------------------------------------------
(* The invariant is inductive: the lock, git and what is committed. *)

\* A git process that is left alone with the files stays undisturbed.
LEMMA SameGit ==
  ASSUME NEW u \in Threads, Undisturbed(u), git'[u] = git[u], host' = host
  PROVE  Undisturbed(u)'
BY DEF Undisturbed, Changed, Found, After

\* A step of a thread in which no file changes, no git process starts or ends
\* and no commit is reported, and after which it does not wait for git.
LEMMA CalmStep ==
  ASSUME HostCommitConstants, HostInv, NEW t \in Threads,
         host' = host, git' = git, standing' = standing,
         \A u \in Threads \ {t} : job'[u] = job[u],
         \/ lock' = lock \/ (lock = t /\ lock' = Nobody)
         \/ lock = Nobody /\ lock' = t,
         Locked(t)', NotStanding(t)', ~Waiting(t)',
         RecordedStageLoads'
  PROVE  HostSafe'
<1> USE DEF HostInv, HostSafe
<1>1. ASSUME NEW u \in Threads, u # t
      PROVE  Locked(u)' /\ NotStanding(u)' /\ OwnFilesOnly(u)'
  BY <1>1 DEF ThreadInv, Locked, NotStanding, OwnFilesOnly, Waiting, HostCommitConstants
<1>2. OwnFilesOnly(t)'
  BY DEF OwnFilesOnly
<1>3. ASSUME NEW u \in Threads
      PROVE  Undisturbed(u)'
  BY DEF ThreadInv, Undisturbed, Changed, Found, After
<1>4. CommittedStays'
  BY DEF CommittedStays
<1>5. QED
  BY <1>1, <1>2, <1>3, <1>4 DEF ThreadInv

\* While one thread holds the lock, no other is anywhere in the calls under it.
LEMMA HolderOnly ==
  ASSUME HostInv, NEW t \in Threads, lock = t, NEW u \in Threads, u # t
  PROVE  /\ job[u].pc \notin {"locked", "compared", "checked", "applying", "applied",
                              "reversing", "reversed"}
         /\ ~Waiting(u)
BY DEF HostInv, HostSafe, ThreadInv, Locked, Waiting

\* A commit that is reported: the tree is the stage's result, and nobody waits
\* for a rollback.
LEMMA CommitStep ==
  ASSUME HostCommitConstants, HostInv, NEW t \in Threads,
         job[t].pc \in {"locked", "applied"}, Commit(t), host = After(job[t].stage),
         host' = host, git' = git, recorded' = recorded, sealed' = sealed
  PROVE  HostSafe'
<1> DEFINE s == job[t].stage
<1>1. s \in Stages /\ lock = t
  BY DEF HostInv, HostTypeOK, JobsOK, HostSafe, ThreadInv, Locked
<1>2. /\ standing' = standing \cup {s.effect}
      /\ job' = [job EXCEPT ![t] = Idle]
      /\ lock' = Nobody
  BY <1>1 DEF Commit, Leave, Unlock
<1>3. ASSUME NEW u \in Threads
      PROVE  Locked(u)' /\ NotStanding(u)' /\ OwnFilesOnly(u)'
  <2>1. CASE u = t
    BY <1>2, <2>1
       DEF HostInv, HostTypeOK, JobsOK, Idle, Job, Locked, NotStanding, OwnFilesOnly, Waiting
  <2>2. CASE u # t
    <3>1. job'[u] = job[u]
      BY <1>2, <2>2 DEF HostInv, HostTypeOK, JobsOK
    <3>2. QED
      BY <1>1, <2>2, <3>1, HolderOnly DEF Locked, NotStanding, OwnFilesOnly, Waiting
  <2>3. QED
    BY <2>1, <2>2
<1>4. \A u \in Threads : Undisturbed(u)'
  BY DEF HostInv, HostSafe, ThreadInv, Undisturbed, Changed, Found, After
<1>5. CommittedStays'
  <2>1. \A f \in Declared[s.effect] : host[f] = Patched(s.effect)
    BY <1>1, StageTrees DEF Changed
  <2>2. QED
    BY <1>2, <2>1 DEF HostInv, HostSafe, CommittedStays
<1>6. RecordedStageLoads'
  BY DEF RecordedStageLoads, HostInv, HostSafe
<1>7. QED
  BY <1>3, <1>4, <1>5, <1>6 DEF HostSafe, ThreadInv

\* git apply, or its reverse, starts on files that are what it expects, in a
\* call whose effect does not stand.
LEMMA StartStep ==
  ASSUME HostCommitConstants, HostInv, NEW t \in Threads,
         job[t].pc \in {"checked", "applied"},
         NEW mode \in {"apply", "reverse"}, NEW waiting \in {"applying", "reversing"},
         git' = [git EXCEPT ![t] = Process(mode, job[t].stage, Changed(job[t].stage), {})],
         Becomes(t, waiting, job[t].stage, FALSE),
         mode = "apply" => Applies(job[t].stage.effect, job[t].stage.before),
         mode = "reverse" => Reverts(job[t].stage),
         UNCHANGED <<host, lock, standing, recorded, sealed>>
  PROVE  HostSafe'
<1> DEFINE s == job[t].stage
<1>1. /\ s \in Stages /\ lock = t
      /\ s.effect \notin standing
      /\ s.effect \in Effects
  BY StageTrees
     DEF HostInv, HostTypeOK, JobsOK, HostSafe, ThreadInv, Locked, NotStanding
<1>2. /\ job'[t] = Job(waiting, s, FALSE)
      /\ git'[t] = Process(mode, s, Changed(s), {})
      /\ \A u \in Threads \ {t} : job'[u] = job[u] /\ git'[u] = git[u]
  BY DEF HostInv, HostTypeOK, JobsOK, GitsOK, Becomes
<1>3. ASSUME NEW u \in Threads, u # t
      PROVE  ThreadInv(u)'
  <2>1. Undisturbed(u)'
    BY <1>2, <1>3, SameGit DEF HostInv, HostSafe, ThreadInv
  <2>2. Locked(u)' /\ NotStanding(u)' /\ OwnFilesOnly(u)'
    BY <1>2, <1>3
       DEF HostInv, HostSafe, ThreadInv, Locked, NotStanding, OwnFilesOnly, Waiting
  <2>3. QED
    BY <2>1, <2>2 DEF ThreadInv
<1>4. Locked(t)' /\ NotStanding(t)'
  BY <1>1, <1>2 DEF Locked, NotStanding, Job
<1>5. OwnFilesOnly(t)'
  <2> SUFFICES ASSUME mode = "reverse", NEW f \in Changed(s), NEW e \in standing,
                      f \in Declared[e]
               PROVE  FALSE
    BY <1>2 DEF OwnFilesOnly, Process
  <2>1. host[f] = Patched(s.effect) /\ host[f] = Patched(e)
    BY DEF Reverts, HostInv, HostSafe, CommittedStays
  <2>2. e \in Effects /\ e # s.effect
    BY <1>1 DEF HostInv, HostTypeOK
  <2>3. QED
    BY <2>1, <2>2, <1>1, PatchesDiffer
<1>6. Undisturbed(t)'
  <2>1. \A f \in Changed(s) : host[f] = (IF mode = "apply" THEN s.before ELSE After(s))[f]
    BY <1>1, StageTrees DEF Applies, Reverts, Changed
  <2>2. git'[t].todo = Changed(s) /\ git'[t].stage = s /\ git'[t].mode = mode
    BY <1>2 DEF Process
  <2>3. Found(git'[t]) = IF mode = "apply" THEN s.before ELSE After(s)
    BY <2>2 DEF Found
  <2>4. QED
    BY <2>1, <2>2, <2>3 DEF Undisturbed, Found, Changed, After
<1>7. CommittedStays' /\ RecordedStageLoads'
  BY DEF CommittedStays, RecordedStageLoads, HostInv, HostSafe
<1>8. QED
  BY <1>3, <1>4, <1>5, <1>6, <1>7 DEF HostSafe, ThreadInv

\* Somebody writes a file, an editor (t is then Nobody) or t's git process: the
\* others are overtaken, and no effect that goes on standing has the file.
LEMMA WriteStep ==
  ASSUME HostCommitConstants, HostInv, NEW t, NEW f \in Files,
         \A x \in Files \ {f} : host'[x] = host[x],
         \A u \in Threads : u # t => git'[u] = Overtaken(git[u], f),
         t \in Threads => git'[t] = Left(git[t], git[t].todo \ {f}),
         standing' \subseteq standing, \A e \in standing' : f \notin Declared[e],
         UNCHANGED <<lock, job, sealed, recorded>>
  PROVE  HostSafe'
<1>1. ASSUME NEW u \in Threads
      PROVE  Locked(u)' /\ NotStanding(u)'
  BY DEF HostInv, HostSafe, ThreadInv, Locked, NotStanding
<1>2. ASSUME NEW u \in Threads
      PROVE  /\ git'[u].mode = git[u].mode /\ git'[u].stage = git[u].stage
             /\ git'[u].todo \subseteq git[u].todo
             /\ git'[u].todo \ git'[u].stale \subseteq git[u].todo \ (git[u].stale \cup {f})
  <2>1. git[u] \in Processes
    BY DEF HostInv, HostTypeOK, GitsOK
  <2>2. CASE u = t
    BY <2>1, <2>2 DEF Left, Processes
  <2>3. CASE u # t
    BY <2>1, <2>3, OvertakenTyping
  <2>4. QED
    BY <2>2, <2>3
<1>3. ASSUME NEW u \in Threads
      PROVE  OwnFilesOnly(u)'
  BY <1>2 DEF HostInv, HostSafe, ThreadInv, OwnFilesOnly, Waiting
<1>4. ASSUME NEW u \in Threads
      PROVE  Undisturbed(u)'
  <2>1. Undisturbed(u) /\ git[u] \in Processes
    BY DEF HostInv, HostTypeOK, GitsOK, HostSafe, ThreadInv
  <2>2. Found(git'[u]) = Found(git[u]) /\ Changed(git'[u].stage) = Changed(git[u].stage)
    BY <1>2 DEF Found
  <2>3. git[u].todo \subseteq Files
    BY <2>1 DEF Processes
  <2>4. QED
    BY <1>2, <2>1, <2>2, <2>3 DEF Undisturbed, Found, Changed, After
<1>5. CommittedStays'
  <2> SUFFICES ASSUME NEW e \in standing', NEW x \in Declared[e]
               PROVE  host'[x] = Patched(e)
    BY DEF CommittedStays
  <2>1. e \in standing /\ x # f /\ e \in Effects
    BY DEF HostInv, HostTypeOK
  <2>2. x \in Files
    BY <2>1 DEF HostCommitConstants
  <2>3. QED
    BY <2>1, <2>2 DEF HostInv, HostSafe, CommittedStays
<1>6. RecordedStageLoads'
  BY DEF RecordedStageLoads, HostInv, HostSafe
<1>7. QED
  BY <1>1, <1>3, <1>4, <1>5, <1>6 DEF HostSafe, ThreadInv

\* git writes one more file, which no standing effect has unless its standing
\* ends with that.
LEMMA GitWriteStep ==
  ASSUME HostCommitConstants, HostInv, NEW t \in Threads, GitWrite(t)
  PROVE  HostSafe'
<1>1. PICK f \in git[t].todo :
        /\ host' = [host EXCEPT ![f] = Writes(git[t])[f]]
        /\ git' = [u \in Threads |-> IF u = t THEN Left(git[t], git[t].todo \ {f})
                                               ELSE Overtaken(git[u], f)]
        /\ standing' = IF git[t].mode = "reverse" /\ Waiting(t) THEN standing ELSE Without(f)
        /\ UNCHANGED <<lock, job, sealed, recorded>>
  BY DEF GitWrite, StageUnchanged, stageVars
<1>2. f \in Files /\ host \in Trees
  BY DEF HostInv, HostTypeOK, GitsOK, Processes
<1>3. standing' \subseteq standing /\ \A e \in standing' : f \notin Declared[e]
  BY <1>1 DEF Without, HostInv, HostSafe, ThreadInv, OwnFilesOnly
<1>4. \A x \in Files \ {f} : host'[x] = host[x]
  BY <1>1, <1>2 DEF Trees
<1>5. QED
  BY <1>1, <1>2, <1>3, <1>4, WriteStep

\* An editor saves a file: what had changed it no longer stands.
LEMMA EditStep ==
  ASSUME HostCommitConstants, HostInv, NEW f \in Files, Edit(f)
  PROVE  HostSafe'
<1>1. /\ host' = [host EXCEPT ![f] = Edited(edits + 1)]
      /\ git' = [t \in Threads |-> Overtaken(git[t], f)]
      /\ standing' = Without(f)
      /\ UNCHANGED <<lock, job, sealed, recorded>>
  BY DEF Edit, StageUnchanged, stageVars
<1>2. \A x \in Files \ {f} : host'[x] = host[x]
  BY <1>1 DEF HostInv, HostTypeOK, Trees
<1>3. standing' \subseteq standing /\ \A e \in standing' : f \notin Declared[e]
  BY <1>1 DEF Without
<1>4. Nobody \notin Threads
  BY DEF HostCommitConstants
<1>5. QED
  BY <1>1, <1>2, <1>3, <1>4, WriteStep

\* A git process ends, whether its thread waits for it or is long gone, or goes
\* on alone with less to do.
LEMMA EndStep ==
  ASSUME HostCommitConstants, HostInv, NEW t \in Threads,
         GitEnds(t) \/ StrayEnds(t) \/ GitLingers(t)
  PROVE  HostSafe'
<1>1. UNCHANGED <<host, standing, sealed, recorded>>
  BY DEF GitEnds, StrayEnds, GitLingers, StageUnchanged, stageVars
<1>2. /\ \A u \in Threads \ {t} : git'[u] = git[u] /\ job'[u] = job[u]
      /\ lock' = lock \/ (lock = t /\ lock' = Nobody)
  BY DEF GitEnds, StrayEnds, GitLingers, Leave, Unlock, Becomes, Goto,
         HostInv, HostTypeOK, GitsOK, JobsOK
<1>3. Locked(t)' /\ NotStanding(t)' /\ ~Waiting(t)'
  <2>1. CASE GitEnds(t)
    <3>1. PICK pc \in {"applied", "reversed"} : \E ok : Becomes(t, pc, job[t].stage, ok)
      BY <2>1 DEF GitEnds, Goto
    <3>2. job'[t].pc = pc /\ job'[t].stage = job[t].stage
      BY <3>1 DEF Becomes, Job, HostInv, HostTypeOK, JobsOK
    <3>3. QED
      BY <1>1, <2>1, <3>2
         DEF GitEnds, Waiting, Locked, NotStanding, HostInv, HostSafe, ThreadInv
  <2>2. CASE StrayEnds(t)
    BY <1>1, <2>2 DEF StrayEnds, Waiting, Locked, NotStanding, HostInv, HostSafe, ThreadInv
  <2>3. CASE GitLingers(t)
    BY <2>3 DEF GitLingers, Leave, Idle, Job, Waiting, Locked, NotStanding, HostInv,
                HostTypeOK, JobsOK
  <2>4. QED
    BY <2>1, <2>2, <2>3
<1>4. Undisturbed(t)'
  <2>1. CASE GitEnds(t) \/ StrayEnds(t)
    BY <2>1 DEF GitEnds, StrayEnds, Undisturbed, NoGit, Process, HostInv, HostTypeOK, GitsOK
  <2>2. CASE GitLingers(t)
    <3>1. PICK f \in Files : git'[t] = Left(git[t], git[t].todo \cap {f})
      BY <2>2 DEF GitLingers, HostInv, HostTypeOK, GitsOK
    <3>2. git[t] \in Processes /\ Undisturbed(t)
      BY DEF HostInv, HostTypeOK, GitsOK, HostSafe, ThreadInv
    <3>3. /\ git'[t].mode = git[t].mode /\ git'[t].stage = git[t].stage
          /\ git'[t].todo \subseteq git[t].todo
          /\ git'[t].todo \ git'[t].stale \subseteq git[t].todo \ git[t].stale
      BY <3>1, <3>2 DEF Left, Processes
    <3>4. QED
      BY <1>1, <3>2, <3>3 DEF Undisturbed, Found, Changed, After
  <2>3. QED
    BY <2>1, <2>2
<1>5. ASSUME NEW u \in Threads, u # t
      PROVE  ThreadInv(u)'
  BY <1>1, <1>2, <1>5, SameGit
     DEF HostInv, HostSafe, ThreadInv, Locked, NotStanding, OwnFilesOnly, Waiting,
         HostCommitConstants
<1>6. CommittedStays' /\ RecordedStageLoads'
  BY <1>1 DEF CommittedStays, RecordedStageLoads, HostInv, HostSafe
<1>7. QED
  BY <1>3, <1>4, <1>5, <1>6 DEF HostSafe, ThreadInv, OwnFilesOnly

\* Every step of a call keeps the invariant.
LEMMA WorkingStep ==
  ASSUME HostCommitConstants, HostInv, NEW t \in Threads, Working(t)
  PROVE  HostSafe'
<1> USE DEF At, HostUnchanged, StageUnchanged, stageVars
<1> DEFINE s == job[t].stage
           Calm == /\ host' = host /\ git' = git /\ standing' = standing
                   /\ \A u \in Threads \ {t} : job'[u] = job[u]
<1>r. recorded \subseteq sealed
  BY DEF HostInv, HostSafe, RecordedStageLoads
<1>i. ASSUME job' = [job EXCEPT ![t] = Idle]
      PROVE  /\ \A u \in Threads \ {t} : job'[u] = job[u]
             /\ Locked(t)' /\ NotStanding(t)' /\ ~Waiting(t)'
  BY <1>i DEF HostInv, HostTypeOK, JobsOK, Idle, Job, Locked, NotStanding, Waiting
<1>g. ASSUME NEW pc \in JobPcs, NEW z, NEW ok, Becomes(t, pc, z, ok)
      PROVE  /\ \A u \in Threads \ {t} : job'[u] = job[u]
             /\ job'[t].pc = pc /\ job'[t].stage = z
  BY <1>g DEF HostInv, HostTypeOK, JobsOK, Becomes, Job
<1>l. Unlock(t) => lock' = lock \/ (lock = t /\ lock' = Nobody)
  BY DEF Unlock
<1>1. CASE Intermediate(t)
  <2>1. CASE Goto(t, "exported")
    <3>1. /\ \A u \in Threads \ {t} : job'[u] = job[u]
          /\ Locked(t)' /\ NotStanding(t)' /\ ~Waiting(t)'
      BY <2>1, <1>g DEF Goto, JobPcs, Locked, NotStanding, Waiting
    <3>2. QED
      BY <1>1, <3>1, <1>r, CalmStep DEF Intermediate, RecordedStageLoads
  <2>2. CASE job' = [job EXCEPT ![t] = Idle]
    BY <1>1, <2>2, <1>i, <1>r, CalmStep DEF Intermediate, RecordedStageLoads
  <2>3. QED
    BY <1>1, <2>1, <2>2 DEF Intermediate
<1>2. CASE Validate(t) \/ Publish(t) \/ Seal(t) \/ Load(t)
  <2>1. PICK pc \in {"persisting", "loading", "published", "prepared"} :
          \E z, ok : Becomes(t, pc, z, ok)
    BY <1>2 DEF Validate, Publish, Seal, Load, Goto
  <2>2. /\ \A u \in Threads \ {t} : job'[u] = job[u]
        /\ Locked(t)' /\ NotStanding(t)' /\ ~Waiting(t)'
    BY <2>1, <1>g DEF JobPcs, Locked, NotStanding, Waiting
  <2>3. /\ host' = host /\ git' = git /\ standing' = standing
        /\ lock' = lock \/ (lock = t /\ lock' = Nobody)
    BY <1>2, <1>l DEF Validate, Publish, Seal, Load
  <2>4. RecordedStageLoads'
    BY <1>2, <1>r DEF Validate, Publish, Seal, Load, RecordedStageLoads
  <2>5. QED
    BY <2>2, <2>3, <2>4, CalmStep
<1>3. CASE Lock(t)
  <2>1. PICK pc \in {"staging", "locked"} : Goto(t, pc)
    BY <1>3 DEF Lock
  <2>2. /\ \A u \in Threads \ {t} : job'[u] = job[u]
        /\ job'[t].pc = pc
    BY <2>1, <1>g DEF Goto, JobPcs
  <2>3. lock' = t
    BY <1>3 DEF Lock
  <2>4. Locked(t)' /\ NotStanding(t)' /\ ~Waiting(t)'
    BY <2>2, <2>3 DEF Locked, NotStanding, Waiting
  <2>5. QED
    BY <1>3, <2>2, <2>3, <2>4, <1>r, CalmStep DEF Lock, RecordedStageLoads
<1>4. CASE Compare(t)
  <2>1. CASE host = After(s) /\ Commit(t)
    BY <1>4, <2>1, CommitStep DEF Compare
  <2>2. CASE host # After(s) /\ host = s.before /\ Goto(t, "compared") /\ UNCHANGED <<lock, standing>>
    <3>1. s \in Stages /\ lock = t
      BY <1>4 DEF Compare, HostInv, HostTypeOK, JobsOK, HostSafe, ThreadInv, Locked
    <3>2. s.effect \notin standing
      <4> SUFFICES ASSUME s.effect \in standing
                   PROVE  FALSE
        OBVIOUS
      <4>1. \A f \in Changed(s) : host[f] = Patched(s.effect)
        BY DEF HostInv, HostSafe, CommittedStays, Changed
      <4>2. After(s) = [f \in Files |-> s.before[f]]
        BY <2>2, <4>1 DEF After
      <4>3. s.before = [f \in Files |-> s.before[f]]
        BY <3>1, StageTrees DEF Trees
      <4>4. QED
        BY <2>2, <4>2, <4>3
    <3>3. /\ \A u \in Threads \ {t} : job'[u] = job[u]
          /\ Locked(t)' /\ NotStanding(t)' /\ ~Waiting(t)'
      BY <2>2, <3>1, <3>2, <1>g DEF Goto, JobPcs, Locked, NotStanding, Waiting
    <3>4. QED
      BY <1>4, <2>2, <3>3, <1>r, CalmStep DEF Compare, RecordedStageLoads
  <2>3. QED
    BY <1>4, <2>1, <2>2 DEF Compare
<1>5. CASE CheckPatch(t)
  <2>1. /\ \A u \in Threads \ {t} : job'[u] = job[u]
        /\ job'[t].pc = "checked" /\ job'[t].stage = s
    BY <1>5, <1>g DEF CheckPatch, Goto, JobPcs
  <2>2. Locked(t)' /\ NotStanding(t)' /\ ~Waiting(t)'
    BY <1>5, <2>1 DEF CheckPatch, HostInv, HostSafe, ThreadInv, Locked, NotStanding, Waiting
  <2>3. QED
    BY <1>5, <2>1, <2>2, <1>r, CalmStep DEF CheckPatch, RecordedStageLoads
<1>6. CASE ApplyPatch(t) \/ RollBack(t)
  <2>1. CASE Becomes(t, "applied", s, FALSE) \/ Becomes(t, "reversed", s, FALSE)
    <3>1. PICK pc \in {"applied", "reversed"} : Becomes(t, pc, s, FALSE)
      BY <2>1
    <3>2. /\ \A u \in Threads \ {t} : job'[u] = job[u]
          /\ job'[t].pc = pc /\ job'[t].stage = s
      BY <3>1, <1>g DEF JobPcs
    <3>3. /\ Locked(t)' /\ NotStanding(t)'
          /\ ~Waiting(t)' /\ lock' = lock
          /\ UNCHANGED <<host, standing, sealed, recorded>>
      BY <1>6, <3>2 DEF ApplyPatch, RollBack, HostInv, HostSafe, ThreadInv, Locked,
                        NotStanding, Waiting
    <3>4. CASE git' = git
      BY <3>2, <3>3, <3>4, <1>r, CalmStep DEF RecordedStageLoads
    <3>5. QED
      BY <1>6, <3>4, <3>2, <1>g DEF ApplyPatch, RollBack, StartGit, JobPcs
  <2>2. CASE ApplyPatch(t) /\ Applies(s.effect, s.before)
    BY <2>2, StartStep DEF ApplyPatch, StartGit
  <2>3. CASE RollBack(t) /\ Reverts(s)
    BY <2>3, StartStep DEF RollBack, StartGit
  <2>4. QED
    BY <1>6, <2>1, <2>2, <2>3 DEF ApplyPatch, RollBack, StartGit
<1>7. CASE Verify(t)
  BY <1>7, CommitStep DEF Verify
<1>8. CASE AfterRollBack(t) \/ Fail(t)
  <2>1. /\ job' = [job EXCEPT ![t] = Idle]
        /\ lock' = lock \/ (lock = t /\ lock' = Nobody)
        /\ UNCHANGED <<host, git, standing, sealed, recorded>>
    BY <1>8, <1>l DEF AfterRollBack, Fail, Leave
  <2>2. QED
    BY <2>1, <1>i, <1>r, CalmStep DEF RecordedStageLoads
<1>9. QED
  BY <1>1, <1>2, <1>3, <1>4, <1>5, <1>6, <1>7, <1>8 DEF Working

\* A call begins about a stage that nobody has worked on under the lock.
LEMMA BeginStep ==
  ASSUME HostCommitConstants, HostInv, NEW t \in Threads, Free(t),
         NEW pc \in {"guest", "persisting"}, NEW s, Becomes(t, pc, s, FALSE),
         UNCHANGED <<lock, sealed, recorded>>, HostUnchanged
  PROVE  HostSafe'
<1>1. /\ \A u \in Threads \ {t} : job'[u] = job[u]
      /\ Locked(t)' /\ NotStanding(t)' /\ ~Waiting(t)'
  BY DEF HostInv, HostTypeOK, JobsOK, Becomes, Job, Locked, NotStanding, Waiting
<1>2. RecordedStageLoads'
  BY DEF RecordedStageLoads, HostInv, HostSafe
<1>3. QED
  BY <1>1, <1>2, CalmStep DEF HostUnchanged

\* A broker that is killed leaves the lock free, and perhaps git at work.
LEMMA CrashStep ==
  ASSUME HostCommitConstants, HostInv, NEW t \in Threads, Crash(t)
  PROVE  HostSafe'
<1>1. /\ job' = [job EXCEPT ![t] = Idle]
      /\ lock' = lock \/ (lock = t /\ lock' = Nobody)
      /\ UNCHANGED <<host, git, standing, sealed, recorded>>
  BY DEF Crash, Leave, Unlock, HostUnchanged, StageUnchanged, stageVars
<1>2. /\ \A u \in Threads \ {t} : job'[u] = job[u]
      /\ Locked(t)' /\ NotStanding(t)' /\ ~Waiting(t)'
  BY <1>1 DEF HostInv, HostTypeOK, JobsOK, Idle, Job, Locked, NotStanding, Waiting
<1>3. RecordedStageLoads'
  BY <1>1 DEF RecordedStageLoads, HostInv, HostSafe
<1>4. QED
  BY <1>1, <1>2, <1>3, CalmStep

\* HostInv holds throughout.
LEMMA HostInvariant == Spec => []HostInv
<1> USE HostCommitConstants
<1>1. HostInv /\ [Next]_vars => HostInv'
  <2> SUFFICES ASSUME HostInv, [Next]_vars
               PROVE  HostSafe'
    BY HostTyping DEF HostInv
  <2>1. CASE UNCHANGED vars
    <3>1. ASSUME NEW u \in Threads
          PROVE  ThreadInv(u)'
      <4>1. Undisturbed(u)'
        BY <2>1, SameGit DEF vars, HostInv, HostSafe, ThreadInv
      <4>2. QED
        BY <2>1, <4>1
           DEF vars, HostInv, HostSafe, ThreadInv, Locked, Waiting, OwnFilesOnly, NotStanding
    <3>2. QED
      BY <2>1, <3>1
         DEF vars, stageVars, HostInv, HostSafe, CommittedStays, RecordedStageLoads
  <2>2. ASSUME NEW t \in Threads, NEW e \in Effects, Run(t, e)
        PROVE  HostSafe'
    BY <2>2, BeginStep DEF Run
  <2>3. ASSUME NEW t \in Threads, NEW s \in recorded, NEW n \in 1..MaxFence[s.effect],
               Adopt(t, s, n)
        PROVE  HostSafe'
    BY <2>3, BeginStep DEF Adopt
  <2>4. ASSUME NEW t \in Threads, GitProcess(t)
        PROVE  HostSafe'
    BY <2>4, GitWriteStep, EndStep DEF GitProcess
  <2>5. QED
    BY <2>1, <2>2, <2>3, <2>4, WorkingStep, CrashStep, EditStep DEF Next
<1>2. QED
  BY <1>1, HostInit, PTL DEF Spec

-----------------------------------------------------------------------------
(* What the host relies on. *)

\* A commit that commit_export reported is not taken back, in part or
\* altogether, by another call, a retry, an adoption or a rollback, whoever is
\* killed meanwhile and whatever git processes outlive their calls; only an
\* editor, a later commit or such a process itself may change its files.
THEOREM CommitsStay == Spec => []CommittedStays
<1>1. HostInv => CommittedStays
  BY DEF HostInv, HostSafe
<1>2. QED
  BY <1>1, HostInvariant, PTL

\* _load_stage will accept every stage the broker was told of.
THEOREM RecordedStagesLoad == Spec => []RecordedStageLoads
<1>1. HostInv => RecordedStageLoads
  BY DEF HostInv, HostSafe
<1>2. QED
  BY <1>1, HostInvariant, PTL

\* A git process that nobody wrote past replaces only what the stage saw, and a
\* rollback only what its own patch put there.
THEOREM NoWorkIsLost == Spec => NoLostWork
<1> DEFINE Seen ==
      \A t \in Threads : \A f \in git[t].todo \ git'[t].todo :
        host'[f] # host[f] => f \in git[t].stale \/ host[f] = Found(git[t])[f]
<1>1. HostInv /\ [Next]_vars => [Seen]_vars
  BY DEF HostInv, HostSafe, ThreadInv, Undisturbed
<1>2. QED
  BY <1>1, HostInvariant, PTL DEF Spec, NoLostWork
=============================================================================
