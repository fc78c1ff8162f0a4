------------------------------ MODULE Migration ------------------------------
(***************************************************************************)
(* Opening the journal (Journal.open, _initialize_or_migrate and           *)
(* _validate_connection_and_schema of journal.py): any number of processes *)
(* open one database file, which is new, was left by an earlier release,   *)
(* or is somebody else's.  Each reads the version outside a transaction,   *)
(* then creates or upgrades the schema one transaction per version, acting *)
(* on the version it remembers; it may crash or be refused between any two *)
(* of them, while others upgrade the same file or already work in it.      *)
(*                                                                         *)
(* The rows are the journal's own variables: what is done in an open       *)
(* journal are the actions of Journal.                                     *)
(***************************************************************************)
EXTENDS Journal

CONSTANTS
  Openers,     \* processes that open the file
  MaxFaults    \* bound on crashes and busy databases

ASSUME MigrationConstants == MaxFaults \in Nat /\ MaxRevision > 0

VARIABLES
  version,     \* PRAGMA user_version
  metadata,    \* journal_metadata.schema_version, 0 without the row
  format,      \* the release whose objects sqlite_master holds
  opener,      \* where each process is, and the version it remembers
  faults       \* crashes and busy databases so far

schema == <<version, metadata, format>>
migrationVars == <<vars, version, metadata, format, opener, faults>>

Current == 3
Release == [ba17 |-> 0, v1 |-> 1, v2 |-> 2, v3 |-> 3]
Released(v) == CHOOSE f \in DOMAIN Release : Release[f] = v
Formats == {"none", "foreign", "future"} \cup DOMAIN Release
VersionOf(f) == IF f = "future" THEN Current + 1
                ELSE IF f \in DOMAIN Release THEN Release[f] ELSE 0

Reconciled == {e \in Effects : effects[e].state = "reconciled"}

\* Rows of the releases before: no stage was durable yet, the first one kept
\* the evidence of a reconciliation in the effect and had no audit.
LegacyRow(f, row) ==
  /\ row.run \in Runs
  /\ row.state \in EffectStates \ {"prepared"}
  /\ row.evidence # NoEvidence
       <=> row.state \in {"completed"} \cup (IF f = "ba17" THEN {"reconciled"} ELSE {})

\* The first release had no audit; the second wrote every report under the
\* lease's fence, the third at most one for each fence.
LegacyAudit(f) ==
  /\ f = "ba17" => reconciliations = {}
  /\ \A p \in reconciliations : p.fence <= leases[p.effect].fence
  /\ f = "v1" \/ \A p, q \in reconciliations :
                   p.effect = q.effect /\ p.fence = q.fence => p = q

\* Any planned effect may have a lease row or none, whatever its state: nothing
\* in those schemas ties the two.
LegacyInit(f) ==
  /\ runs = [r \in Runs |-> [state |-> "discovery", revision |-> 1]]
  /\ log = [r \in Runs |-> <<[revision |-> 1, event |-> "DISCOVER",
                              state |-> "discovery", context |-> {}]>>]
  /\ effects \in [Effects -> EffectRows]
  /\ \A e \in Effects : effects[e] = NoEffectRow \/ LegacyRow(f, effects[e])
  /\ \E fence \in [Effects -> 0 .. MaxFence], owner \in [Effects -> Workers] :
       leases = [e \in Effects |->
                   IF fence[e] = 0 THEN NoLease
                   ELSE [worker |-> owner[e], fence |-> fence[e], expires |-> 0]]
  /\ \A e \in Effects : effects[e] = NoEffectRow => leases[e] = NoLease
  /\ reconciliations \in SUBSET AuditRows
  /\ LegacyAudit(f)
  /\ started = [e \in Effects |->
                  IF effects[e].state \in {"absent", "intent"} THEN {}
                  ELSE {leases[e].fence}]

EmptyInit ==
  /\ runs = [r \in Runs |-> [state |-> "new", revision |-> 0]]
  /\ log = [r \in Runs |-> << >>]
  /\ effects = [e \in Effects |-> NoEffectRow]
  /\ leases = [e \in Effects |-> NoLease]
  /\ reconciliations = {}
  /\ started = [e \in Effects |-> {}]

Outside == [at |-> "closed", version |-> 0]

MigrationInit ==
  /\ clock = 0 /\ observed = 0
  /\ opener = [o \in Openers |-> Outside]
  /\ faults = 0
  /\ \/ format \in {"none", "foreign", "future"} /\ EmptyInit
     \/ format \in {"ba17", "v1", "v2"} /\ LegacyInit(format)
  /\ version = VersionOf(format)
  /\ metadata = VersionOf(format)

-----------------------------------------------------------------------------
(* One call of open(). *)

Goto(o, at) == opener' = [opener EXCEPT ![o] = [at |-> at, version |-> @.version]]
Refuse(o) == Goto(o, "refused") /\ UNCHANGED <<vars, schema>>
Reach(o, v) == opener' = [opener EXCEPT ![o] = [at |-> @.at, version |-> v]]

\* The version is read outside any transaction and remembered.
Connect(o) ==
  /\ opener[o].at = "closed"
  /\ opener' = [opener EXCEPT ![o] =
                  [at |-> IF version > Current THEN "refused" ELSE "connected",
                   version |-> version]]
  /\ UNCHANGED <<vars, schema, faults>>

\* Then the names of the tables: version 0 is a new file, or one to recognise.
Look(o) ==
  /\ opener[o].at = "connected"
  /\ Goto(o, IF opener[o].version > 0 THEN "migrate"
             ELSE IF format = "none" THEN "create" ELSE "recognise")
  /\ UNCHANGED <<vars, schema, faults>>

\* _is_known_v0: every object of the file is the first release's.
Recognise(o) ==
  /\ opener[o].at = "recognise"
  /\ \/ format = "ba17" /\ Goto(o, "migrate") /\ UNCHANGED <<vars, schema>>
     \/ format # "ba17" /\ Refuse(o)
  /\ UNCHANGED faults

\* Slips: one of the two version numbers is forgotten.
CommitVersionOnly(v) == version' = v /\ format' = Released(v) /\ UNCHANGED metadata
CommitMetadataOnly(v) == metadata' = v /\ format' = Released(v) /\ UNCHANGED version

\* What one schema transaction leaves in the two version numbers.
Commit(v) == version' = v /\ metadata' = v /\ format' = Released(v)

\* Every object is created IF NOT EXISTS, but the metadata row is inserted:
\* in a file that has one the whole transaction fails.
Create(o) ==
  /\ opener[o].at = "create"
  /\ \/ /\ metadata = 0
        /\ Commit(Current)
        /\ opener' = [opener EXCEPT ![o] = [at |-> "validate", version |-> Current]]
        /\ UNCHANGED vars
     \/ metadata # 0 /\ Refuse(o)
  /\ UNCHANGED faults

\* Slips: the source is not recognised inside the transaction, or contradictory
\* reports are copied as they are.
SourceUnrecognised(v) ==
  \/ v = 0 /\ metadata = 0 /\ \A e \in Reconciled : leases[e].fence > 0
  \/ v = 1 /\ OneOutcomePerFence
  \/ v = 2 /\ metadata > 0

SourceContradicting(v) ==
  \/ v = 0 /\ metadata = 0 /\ \A e \in Reconciled : leases[e].fence > 0
  \/ v = 1 /\ format = "v1" /\ metadata = 1
  \/ v = 2 /\ metadata > 0

\* Where the statements of an upgrade succeed.  0->1 inserts the metadata row,
\* so it fails where there is one, and dates the report of a reconciled effect
\* without a lease to fence 0, which the table refuses.  1->2 recognises its
\* source inside the transaction and refuses two outcomes for one fence.  2->3
\* recognises nothing: it also runs, and copies, in a file that is at 3.
Source(v) ==
  \/ v = 0 /\ metadata = 0 /\ \A e \in Reconciled : leases[e].fence > 0
  \/ v = 1 /\ format = "v1" /\ metadata = 1 /\ OneOutcomePerFence
  \/ v = 2 /\ metadata > 0

ClearEvidence ==
  effects' = [e \in Effects |->
                IF e \in Reconciled
                THEN [run |-> effects[e].run, state |-> "reconciled", evidence |-> NoEvidence]
                ELSE effects[e]]

\* Slip: the evidence of what was reconciled goes with its column.
CopyForgetting(v) ==
  /\ IF v = 0 THEN ClearEvidence ELSE UNCHANGED effects
  /\ UNCHANGED <<clock, observed, runs, log, leases, reconciliations, started>>

\* What an upgrade does to the rows: 0->1 turns the evidence of a reconciled
\* effect into the unknown outcome its fence reported, the others copy.
CopyRows(v) ==
  /\ IF v = 0
     THEN /\ ClearEvidence
          /\ reconciliations' =
               {[effect |-> e, fence |-> leases[e].fence, outcome |-> "unknown",
                 evidence |-> effects[e].evidence] : e \in Reconciled}
     ELSE UNCHANGED <<effects, reconciliations>>
  /\ UNCHANGED <<clock, observed, runs, log, leases, started>>

\* Slip: one upgrade and no loop.
MigrateOnce(o) ==
  LET v == opener[o].version IN
  /\ opener[o].at = "migrate"
  /\ \/ /\ v < Current /\ Source(v)
        /\ CopyRows(v)
        /\ Commit(v + 1)
        /\ opener' = [opener EXCEPT ![o] = [at |-> "validate", version |-> v + 1]]
     \/ v < Current /\ ~Source(v) /\ Refuse(o)
     \/ v >= Current /\ Goto(o, "validate") /\ UNCHANGED <<vars, schema>>
  /\ UNCHANGED faults

\* One transaction per version, from the version the process remembers.
Migrate(o) ==
  LET v == opener[o].version IN
  /\ opener[o].at = "migrate"
  /\ \/ /\ v < Current /\ Source(v)
        /\ CopyRows(v)
        /\ Commit(v + 1)
        /\ Reach(o, v + 1)
     \/ v < Current /\ ~Source(v) /\ Refuse(o)
     \/ v >= Current /\ Goto(o, "validate") /\ UNCHANGED <<vars, schema>>
  /\ UNCHANGED faults

\* _validate_connection_and_schema: version, objects and metadata are current.
Validate(o) ==
  /\ opener[o].at = "validate"
  /\ \/ /\ version = Current /\ format = "v3" /\ metadata = Current
        /\ Goto(o, "open") /\ UNCHANGED <<vars, schema>>
     \/ /\ ~(version = Current /\ format = "v3" /\ metadata = Current)
        /\ Refuse(o)
  /\ UNCHANGED faults

\* A journal error, or close(): the process may open again.
Leave(o) ==
  /\ opener[o].at \in {"refused", "busy", "open"}
  /\ opener' = [opener EXCEPT ![o] = Outside]
  /\ UNCHANGED <<vars, schema, faults>>

-----------------------------------------------------------------------------
(* The environment. *)

Opening == {"connected", "create", "recognise", "migrate", "validate"}

\* The process is killed; SQLite rolls back what it had not committed.
Crash(o) ==
  /\ opener[o].at \in Opening /\ faults < MaxFaults
  /\ opener' = [opener EXCEPT ![o] = Outside]
  /\ faults' = faults + 1
  /\ UNCHANGED <<vars, schema>>

\* Somebody else's transaction lasts longer than the busy timeout.
Busy(o) ==
  /\ opener[o].at \in Opening /\ faults < MaxFaults
  /\ \E p \in Openers \ {o} : opener[p].at \in Opening \cup {"open"}
  /\ Goto(o, "busy")
  /\ faults' = faults + 1
  /\ UNCHANGED <<vars, schema>>

\* Whoever has the journal open works in it.
Work ==
  /\ \E o \in Openers : opener[o].at = "open"
  /\ Next
  /\ UNCHANGED <<schema, opener, faults>>

Proceed(o) ==
  Connect(o) \/ Look(o) \/ Recognise(o) \/ Create(o) \/ Migrate(o) \/ Validate(o)

MigrationNext == \/ Work
                 \/ \E o \in Openers : Proceed(o) \/ Leave(o) \/ Crash(o) \/ Busy(o)

\* A process that opens is scheduled, and after a refusal tries again.
Persistence ==
  \A o \in Openers :
    /\ WF_migrationVars(Proceed(o))
    /\ WF_migrationVars(opener[o].at # "open" /\ Leave(o))

MigrationSpec == MigrationInit /\ [][MigrationNext]_migrationVars
PersistentSpec == MigrationSpec /\ Persistence

-----------------------------------------------------------------------------
(* What opening promises. *)

Places == Opening \cup {"closed", "refused", "busy", "open"}

\* The two version numbers and the objects are always of one release, whoever
\* crashed or raced: no reader sees a mixture.
NoMixedSchema ==
  /\ TypeOK
  /\ format \in Formats
  /\ opener \in [Openers -> [at : Places, version : 0 .. Current + 1]]
  /\ faults \in 0 .. MaxFaults
  /\ version = VersionOf(format) /\ metadata = VersionOf(format)

\* Whoever gets a journal gets the newest schema, and rows for which everything
\* holds that the operations preserve, although none of them wrote these rows.
OpenedIsSound ==
  (\E o \in Openers : opener[o].at = "open") =>
    /\ format = "v3"
    /\ AttemptInv
    /\ EvidenceFollowsState
    /\ OneOutcomePerFence

\* The facts a journal file states, in whatever format: the first release kept
\* what a reconciliation had seen in the effect.
StatedAudit ==
  IF format = "ba17"
  THEN {[effect |-> e, fence |-> leases[e].fence, outcome |-> "unknown",
         evidence |-> effects[e].evidence] : e \in Reconciled}
  ELSE reconciliations
StatedEvidence ==
  [e \in Effects |-> IF e \in Reconciled THEN NoEvidence ELSE effects[e].evidence]
Facts == <<observed, runs, log, [e \in Effects |-> <<effects[e].run, effects[e].state>>],
           StatedEvidence, leases, StatedAudit>>

\* Opening, refusing and upgrading state nothing new and forget nothing, also
\* when a late process upgrades again while others already work.
OpeningKeepsFacts == [][opener' # opener => Facts' = Facts]_migrationVars

\* A process that acts on a version that is no longer the file's never takes
\* the file back to it.
NeverDowngraded == [][version' >= version /\ metadata' >= metadata]_migrationVars

Hopeless ==
  \/ format \in {"foreign", "future"}
  \/ format = "ba17" /\ \E e \in Reconciled : leases[e].fence = 0
  \/ format = "v1" /\ ~OneOutcomePerFence

\* A refusal means that the file cannot be opened by anybody, or that another
\* process upgraded it meanwhile: never that an upgrade stopped half way.
RefusedForCause ==
  \A o \in Openers : opener[o].at = "refused" => Hopeless \/ version > opener[o].version

\* An upgrade that was interrupted, raced or refused is completed: a process
\* that keeps trying gets the journal, unless nobody ever can.
PersistentOpenerGetsIn ==
  \A o \in Openers : ~Hopeless ~> opener[o].at = "open"
=============================================================================
