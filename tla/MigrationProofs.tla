---------------------------- MODULE MigrationProofs ----------------------------
(***************************************************************************)
(* Theorems about opening the journal, for any number of processes that    *)
(* open one file of any release, crash, are refused and race.              *)
(***************************************************************************)
EXTENDS Migration, JournalProofs

-----------------------------------------------------------------------------
(* The invariant: what holds of the rows in each format, and where a       *)
(* process can be, with which remembered version, in a file of that format.*)

\* A file of an earlier release holds at most one attempt of each effect, the
\* one under the lease's fence, or under none.
LegacyAttempts ==
  \A e \in Effects :
    /\ started[e] \subseteq {leases[e].fence}
    /\ \A p \in reconciliations : p.effect = e => p.fence <= leases[e].fence
    /\ effects[e].state # "prepared"
    /\ effects[e].state \in {"absent", "intent"} => started[e] = {}
    /\ effects[e].state \in {"started", "completed", "reconciled"} => started[e] # {}

FirstReleaseRows ==
  /\ reconciliations = {}
  /\ \A e \in Effects : effects[e].evidence # NoEvidence
                          <=> effects[e].state \in {"completed", "reconciled"}

RowsFit ==
  /\ format = "v3" => AttemptInv
  /\ format # "v3" => LegacyAttempts
  /\ format = "ba17" => FirstReleaseRows
  /\ format # "ba17" => EvidenceFollowsState
  /\ format \notin {"ba17", "v1"} => OneOutcomePerFence

Remembers(o) ==
  /\ opener[o].at \in Opening \cup {"open"} => opener[o].version <= version
  /\ opener[o].at = "connected" => format # "future"
  /\ opener[o].at = "create" => opener[o].version = 0 /\ format \in {"none", "v3"}
  /\ opener[o].at = "recognise" => opener[o].version = 0 /\ format # "none"
  /\ opener[o].at \in {"migrate", "validate"} => format \in {"ba17", "v1", "v2", "v3"}
  /\ opener[o].at = "validate" => opener[o].version >= Current
  /\ opener[o].at = "open" => format = "v3"
  /\ opener[o].at = "refused" => Hopeless \/ version > opener[o].version

OpeningInv == NoMixedSchema /\ RowsFit /\ \A o \in Openers : Remembers(o)

-----------------------------------------------------------------------------
(* The releases and their numbers. *)

\* The number each format of the file carries.
LEMMA Versions ==
  /\ DOMAIN Release = {"ba17", "v1", "v2", "v3"}
  /\ VersionOf("none") = 0 /\ VersionOf("foreign") = 0 /\ VersionOf("future") = 4
  /\ VersionOf("ba17") = 0 /\ VersionOf("v1") = 1 /\ VersionOf("v2") = 2
  /\ VersionOf("v3") = 3
  /\ Released(1) = "v1" /\ Released(2) = "v2" /\ Released(3) = "v3"
<1>1. DOMAIN Release = {"ba17", "v1", "v2", "v3"}
  BY DEF Release
<1>2. Release["ba17"] = 0 /\ Release["v1"] = 1 /\ Release["v2"] = 2 /\ Release["v3"] = 3
  BY DEF Release
<1>3. /\ VersionOf("none") = 0 /\ VersionOf("foreign") = 0 /\ VersionOf("future") = 4
      /\ VersionOf("ba17") = 0 /\ VersionOf("v1") = 1 /\ VersionOf("v2") = 2
      /\ VersionOf("v3") = 3
  BY <1>1, <1>2 DEF VersionOf, Current
<1>4. /\ (CHOOSE f \in DOMAIN Release : Release[f] = 1) = "v1"
      /\ (CHOOSE f \in DOMAIN Release : Release[f] = 2) = "v2"
      /\ (CHOOSE f \in DOMAIN Release : Release[f] = 3) = "v3"
  BY <1>1, <1>2
<1> QED
  BY <1>1, <1>3, <1>4 DEF Released

\* How one schema transaction moves the file.
SchemaMoves ==
  \/ UNCHANGED schema
  \/ /\ <<format, format'>> \in {<<"none", "v3">>, <<"ba17", "v1">>, <<"v1", "v2">>,
                                 <<"v2", "v3">>}
     /\ version' = VersionOf(format') /\ metadata' = VersionOf(format')

\* What one step of one process does to the schema and to the rows.
Upgrades(o, v) ==
  /\ opener[o].at = "migrate" /\ opener[o].version = v /\ v < Current
  /\ Source(v) /\ CopyRows(v) /\ Commit(v + 1)
  /\ opener' = [opener EXCEPT ![o] = [at |-> "migrate", version |-> v + 1]]
Creates(o) ==
  /\ opener[o].at = "create" /\ metadata = 0 /\ Commit(Current) /\ UNCHANGED vars
  /\ opener' = [opener EXCEPT ![o] = [at |-> "validate", version |-> Current]]
Waits(o) ==
  /\ UNCHANGED <<vars, schema>>
  /\ \E at \in Places, v \in 0 .. Current + 1 :
       opener' = [opener EXCEPT ![o] = [at |-> at, version |-> v]]

\* A process that passes through open() upgrades, creates or only moves on.
LEMMA StepsOfAnOpener ==
  ASSUME NoMixedSchema, NEW o \in Openers, Proceed(o) \/ Leave(o) \/ Crash(o) \/ Busy(o)
  PROVE  \/ Upgrades(o, opener[o].version) \/ Creates(o) \/ Waits(o)
<1> DEFINE seen == opener[o].version
<1>1. /\ opener[o] \in [at : Places, version : 0 .. Current + 1]
      /\ version \in 0 .. Current + 1
      /\ Outside \in [at : Places, version : 0 .. Current + 1]
  BY Versions DEF NoMixedSchema, Formats, Current, Outside, Places
<1>2. ASSUME NEW at \in Places, Goto(o, at), UNCHANGED <<vars, schema>> PROVE Waits(o)
  BY <1>1, <1>2 DEF Goto, Waits, NoMixedSchema
<1>3. CASE Connect(o)
  <2>1. opener' = [opener EXCEPT ![o] =
                     [at |-> IF version > Current THEN "refused" ELSE "connected",
                      version |-> version]]
    BY <1>3 DEF Connect
  <2> QED
    BY <1>1, <1>3, <2>1 DEF Connect, Waits, Places, Opening
<1>4. CASE Look(o)
  BY <1>2, <1>4 DEF Look, Places, Opening
<1>5. CASE Recognise(o)
  BY <1>2, <1>5 DEF Recognise, Refuse, Places, Opening
<1>6. CASE Create(o)
  BY <1>2, <1>6 DEF Create, Refuse, Places, Opening, Creates
<1>7. CASE Migrate(o)
  <2>1. CASE /\ opener[o].at = "migrate" /\ seen < Current /\ Source(seen) /\ CopyRows(seen)
             /\ Commit(seen + 1) /\ Reach(o, seen + 1)
    BY <1>1, <2>1 DEF Reach, Upgrades, NoMixedSchema
  <2> QED
    BY <1>2, <1>7, <2>1 DEF Migrate, Refuse, Places, Opening
<1>8. CASE Validate(o)
  BY <1>2, <1>8 DEF Validate, Refuse, Places, Opening
<1>9. CASE Leave(o) \/ Crash(o)
  BY <1>1, <1>9 DEF Leave, Crash, Outside, Waits
<1>10. CASE Busy(o)
  BY <1>2, <1>10 DEF Busy, Places
<1> QED
  BY <1>3, <1>4, <1>5, <1>6, <1>7, <1>8, <1>9, <1>10 DEF Proceed

\* Whoever opens, crashes or works: the file goes from one release to the next.
LEMMA SchemaStep == OpeningInv /\ [MigrationNext]_migrationVars => SchemaMoves
<1> SUFFICES ASSUME OpeningInv, [MigrationNext]_migrationVars PROVE SchemaMoves
  OBVIOUS
<1> USE DEF SchemaMoves
<1>1. CASE UNCHANGED migrationVars \/ Work
  BY <1>1 DEF migrationVars, schema, Work
<1>2. ASSUME NEW o \in Openers, Proceed(o) \/ Leave(o) \/ Crash(o) \/ Busy(o)
      PROVE  SchemaMoves
  <2>1. /\ format \in Formats /\ Remembers(o)
        /\ version = VersionOf(format) /\ metadata = VersionOf(format)
    BY DEF OpeningInv, NoMixedSchema
  <2>2. ASSUME NEW v, Upgrades(o, v) PROVE SchemaMoves
    <3>1. v \in {0, 1, 2} /\ v <= version /\ format \in {"ba17", "v1", "v2", "v3"}
      BY <2>1, <2>2 DEF Remembers, Opening, Upgrades, Source
    <3>2. CASE v = 0
      BY <2>1, <2>2, <3>1, <3>2, Versions DEF Upgrades, Source, Commit
    <3>3. CASE v = 1
      BY <2>1, <2>2, <3>1, <3>3, Versions DEF Upgrades, Source, Commit
    <3>4. CASE v = 2
      BY <2>1, <2>2, <3>1, <3>4, Versions DEF Upgrades, Source, Commit, schema
    <3> QED
      BY <3>1, <3>2, <3>3, <3>4
  <2>3. CASE Creates(o)
    <3>1. format = "none"
      <4>1. opener[o].at = "create" /\ metadata = 0
        BY <2>3 DEF Creates
      <4>2. format \in {"none", "v3"}
        BY <2>1, <4>1 DEF Remembers
      <4>3. ASSUME format = "v3" PROVE FALSE
        <5>1. metadata = 3
          BY <2>1, <4>3, Versions
        <5> QED
          BY <4>1, <5>1
      <4> QED
        BY <4>2, <4>3
    <3>2. version' = 3 /\ metadata' = 3 /\ format' = "v3"
      BY <2>3, Versions DEF Creates, Commit, Current
    <3> QED
      BY <3>1, <3>2, Versions
  <2>4. CASE Waits(o)
    BY <2>4 DEF Waits
  <2> QED
    BY <1>2, <2>2, <2>3, <2>4, StepsOfAnOpener DEF OpeningInv
<1> QED
  BY <1>1, <1>2 DEF MigrationNext

-----------------------------------------------------------------------------
(* The steps of a process preserve the schema of the rows. *)

\* The first upgrade writes rows of the schema, one report for each effect
\* that a reconciliation left uncertain, and none for any other.
LEMMA FirstUpgrade ==
  ASSUME TypeOK, FirstReleaseRows, Source(0), CopyRows(0)
  PROVE  /\ effects' \in [Effects -> EffectRows]
         /\ \A e \in Effects : /\ effects'[e].run = effects[e].run
                               /\ effects'[e].state = effects[e].state
                               /\ e \notin Reconciled => effects'[e] = effects[e]
                               /\ e \in Reconciled => effects'[e].evidence = NoEvidence
         /\ reconciliations' \subseteq AuditRows
         /\ \A p \in reconciliations' :
              p.effect \in Reconciled /\ p.fence = leases[p.effect].fence
         /\ \A e \in Reconciled :
              \E p \in reconciliations' : p.effect = e /\ p.outcome = "unknown"
         /\ UNCHANGED <<clock, observed, runs, log, leases, started>>
<1> DEFINE report(e) == [effect |-> e, fence |-> leases[e].fence, outcome |-> "unknown",
                         evidence |-> effects[e].evidence]
<1>1. /\ effects' = [e \in Effects |->
                       IF e \in Reconciled
                       THEN [run |-> effects[e].run, state |-> "reconciled",
                             evidence |-> NoEvidence]
                       ELSE effects[e]]
      /\ reconciliations' = {report(e) : e \in Reconciled}
      /\ UNCHANGED <<clock, observed, runs, log, leases, started>>
  BY DEF CopyRows, ClearEvidence
<1>2. effects' \in [Effects -> EffectRows]
  BY <1>1 DEF TypeOK, EffectRows, EffectStates, Reconciled
<1>3. \A e \in Effects : /\ effects'[e].run = effects[e].run
                         /\ effects'[e].state = effects[e].state
                         /\ e \notin Reconciled => effects'[e] = effects[e]
                         /\ e \in Reconciled => effects'[e].evidence = NoEvidence
  BY <1>1 DEF Reconciled
<1>4. \A e \in Reconciled : report(e) \in AuditRows
  <2> SUFFICES ASSUME NEW e \in Reconciled PROVE report(e) \in AuditRows
    OBVIOUS
  <2>1. e \in Effects /\ leases[e].fence > 0 /\ effects[e].evidence # NoEvidence
    BY DEF Source, Reconciled, FirstReleaseRows, Current
  <2>2. leases[e].fence \in Fences /\ effects[e].evidence \in Evidence
    BY <2>1, JournalConstants DEF TypeOK, LeaseRows, EffectRows, Fences
  <2> QED
    BY <2>1, <2>2 DEF AuditRows, Outcomes
<1>5. \A e \in Reconciled : report(e).effect = e /\ report(e).outcome = "unknown"
                            /\ report(e).fence = leases[e].fence
  OBVIOUS
<1> HIDE DEF report
<1> QED
  BY <1>1, <1>2, <1>3, <1>4, <1>5

\* A step changes the format, its version and its metadata together or not at all.
LEMMA NoMixedStep == OpeningInv /\ [MigrationNext]_migrationVars => NoMixedSchema'
<1> SUFFICES ASSUME OpeningInv, [MigrationNext]_migrationVars PROVE NoMixedSchema'
  OBVIOUS
<1>1. NoMixedSchema /\ SchemaMoves
  BY SchemaStep DEF OpeningInv
<1>2. /\ format' \in Formats
      /\ version' = VersionOf(format') /\ metadata' = VersionOf(format')
  BY <1>1, Versions DEF SchemaMoves, NoMixedSchema, schema, Formats
<1>3. CASE UNCHANGED migrationVars
  BY <1>1, <1>2, <1>3 DEF migrationVars, vars, NoMixedSchema, TypeOK
<1>4. CASE Work
  BY <1>1, <1>2, <1>4, TypeStep DEF Work, NoMixedSchema
<1>5. ASSUME NEW o \in Openers, Proceed(o) \/ Leave(o) \/ Crash(o) \/ Busy(o)
      PROVE  NoMixedSchema'
  <2>1. faults' \in 0 .. MaxFaults
    BY <1>1, <1>5, MigrationConstants
       DEF NoMixedSchema, Proceed, Connect, Look, Recognise, Create, Migrate, Validate, Leave,
           Crash, Busy
  <2>2. ASSUME NEW v, Upgrades(o, v)
        PROVE  TypeOK' /\ opener' \in [Openers -> [at : Places, version : 0 .. Current + 1]]
    <3>1. v \in {0, 1, 2}
      BY <2>2 DEF Upgrades, Source
    <3>2. opener' \in [Openers -> [at : Places, version : 0 .. Current + 1]]
      BY <1>1, <2>2, <3>1 DEF Upgrades, NoMixedSchema, Places, Opening, Current
    <3>3. TypeOK'
      <4>1. CASE v # 0
        BY <1>1, <2>2, <4>1 DEF Upgrades, CopyRows, NoMixedSchema, TypeOK
      <4>2. CASE v = 0
        <5>1. format \notin {"none", "foreign", "future", "v1", "v2", "v3"}
          BY <1>1, <2>2, <4>2, Versions
             DEF OpeningInv, Remembers, Upgrades, Source, NoMixedSchema
        <5>2. FirstReleaseRows
          BY <1>1, <5>1, Versions DEF OpeningInv, RowsFit, NoMixedSchema, Formats
        <5> QED
          BY <1>1, <2>2, <4>2, <5>2, FirstUpgrade DEF Upgrades, NoMixedSchema, TypeOK
      <4> QED
        BY <4>1, <4>2
    <3> QED
      BY <3>2, <3>3
  <2>3. ASSUME Creates(o) \/ Waits(o)
        PROVE  TypeOK' /\ opener' \in [Openers -> [at : Places, version : 0 .. Current + 1]]
    <3>1. UNCHANGED vars
      BY <2>3 DEF Creates, Waits
    <3>2. TypeOK'
      BY <1>1, <3>1 DEF vars, NoMixedSchema, TypeOK
    <3>3. \E at \in Places, w \in 0 .. Current + 1 :
            opener' = [opener EXCEPT ![o] = [at |-> at, version |-> w]]
      BY <2>3 DEF Creates, Waits, Places, Opening, Current
    <3> QED
      BY <1>1, <3>2, <3>3 DEF NoMixedSchema
  <2> QED
    BY <1>1, <1>2, <1>5, <2>1, <2>2, <2>3, StepsOfAnOpener DEF NoMixedSchema
<1> QED
  BY <1>3, <1>4, <1>5 DEF MigrationNext

-----------------------------------------------------------------------------
(* A process is never further than the file, and a refusal has a cause.    *)

\* Where each upgrade can happen: only the last one can run in a file that is
\* already further.
LEMMA UpgradeFrom ==
  ASSUME OpeningInv, NEW o \in Openers, NEW v, Upgrades(o, v)
  PROVE  \/ v = 0 /\ format = "ba17" /\ format' = "v1" /\ version' = 1
         \/ v = 1 /\ format = "v1" /\ format' = "v2" /\ version' = 2
         \/ v = 2 /\ format \in {"v2", "v3"} /\ format' = "v3" /\ version' = 3
<1>1. v \in {0, 1, 2} /\ v <= version /\ format \in {"ba17", "v1", "v2", "v3"}
  BY DEF OpeningInv, Remembers, Opening, Upgrades, Source
<1>2. version = VersionOf(format) /\ metadata = VersionOf(format)
  BY DEF OpeningInv, NoMixedSchema
<1>3. CASE v = 0
  BY <1>1, <1>2, <1>3, Versions DEF Upgrades, Source, Commit
<1>4. CASE v = 1
  BY <1>1, <1>2, <1>4, Versions DEF Upgrades, Source, Commit
<1>5. CASE v = 2
  BY <1>1, <1>2, <1>5, Versions DEF Upgrades, Source, Commit
<1> QED
  BY <1>1, <1>3, <1>4, <1>5

\* A file that nobody can open stays so.
LEMMA HopelessStays == OpeningInv /\ [MigrationNext]_migrationVars /\ Hopeless => Hopeless'
<1> SUFFICES ASSUME OpeningInv, [MigrationNext]_migrationVars, Hopeless PROVE Hopeless'
  OBVIOUS
<1>1. ASSUME UNCHANGED <<vars, schema>> PROVE Hopeless'
  BY <1>1 DEF vars, schema, Hopeless, Reconciled, OneOutcomePerFence
<1>2. CASE UNCHANGED migrationVars
  BY <1>1, <1>2 DEF migrationVars, schema
<1>3. CASE Work
  BY <1>3 DEF Work, OpeningInv, Remembers, Hopeless
<1>4. ASSUME NEW o \in Openers, Proceed(o) \/ Leave(o) \/ Crash(o) \/ Busy(o)
      PROVE  Hopeless'
  <2>1. ASSUME NEW v, Upgrades(o, v) PROVE FALSE
    <3>1. Source(v)
      BY <2>1 DEF Upgrades
    <3>2. CASE v = 0 /\ format = "ba17"
      BY <3>1, <3>2 DEF Source, Hopeless
    <3>3. CASE v = 1 /\ format = "v1"
      BY <3>1, <3>3 DEF Source, Hopeless
    <3>4. CASE v = 2 /\ format \in {"v2", "v3"}
      BY <3>4 DEF Hopeless
    <3> QED
      BY <2>1, <3>2, <3>3, <3>4, UpgradeFrom
  <2>2. ASSUME Creates(o) PROVE FALSE
    <3>1. format \in {"none", "v3"}
      BY <2>2 DEF Creates, OpeningInv, Remembers
    <3> QED
      BY <3>1 DEF Hopeless
  <2> QED
    BY <1>1, <1>4, <2>1, <2>2, StepsOfAnOpener DEF OpeningInv, Waits
<1> QED
  BY <1>2, <1>3, <1>4 DEF MigrationNext

\* Remembers(p), when the opener's own row does not move.
LEMMA OthersRemember ==
  ASSUME OpeningInv, [MigrationNext]_migrationVars, NEW p \in Openers, opener'[p] = opener[p]
  PROVE  Remembers(p)'
<1> DEFINE at == opener[p].at
           seen == opener[p].version
<1>1. Remembers(p) /\ seen \in Nat
  BY DEF OpeningInv, NoMixedSchema, Current
<1>2. /\ SchemaMoves /\ format \in Formats /\ version = VersionOf(format)
      /\ VersionOf(format) \in Nat /\ VersionOf(format') \in Nat
  BY SchemaStep, NoMixedStep, Versions DEF OpeningInv, NoMixedSchema, Formats
<1>3. version' >= version
  BY <1>2, Versions DEF SchemaMoves, schema
<1>4. /\ format # "future" => format' # "future"
      /\ format \in {"none", "v3"} => format' \in {"none", "v3"}
      /\ format # "none" => format' # "none"
      /\ format \in {"ba17", "v1", "v2", "v3"} => format' \in {"ba17", "v1", "v2", "v3"}
      /\ format = "v3" => format' = "v3"
  BY <1>2 DEF SchemaMoves, schema
<1>5. at \in Opening \cup {"open"} => seen <= version'
  BY <1>1, <1>2, <1>3 DEF Remembers, SchemaMoves, schema
<1>6. at = "refused" => Hopeless' \/ version' > seen
  BY <1>1, <1>2, <1>3, HopelessStays DEF Remembers, SchemaMoves, schema
<1> QED
  BY <1>1, <1>4, <1>5, <1>6 DEF Remembers

\* Remembers(o), when it is o that moves.
LEMMA MoverRemembers ==
  ASSUME OpeningInv, NEW o \in Openers, Proceed(o) \/ Leave(o) \/ Crash(o) \/ Busy(o)
  PROVE  Remembers(o)'
<1> DEFINE at == opener[o].at
           seen == opener[o].version
<1>1. /\ Remembers(o) /\ seen \in Nat
      /\ opener \in [Openers -> [at : Places, version : 0 .. Current + 1]]
      /\ format \in Formats
      /\ version = VersionOf(format) /\ metadata = VersionOf(format) /\ version \in Nat
  BY Versions DEF OpeningInv, NoMixedSchema, Current, Formats
<1>2. Hopeless /\ UNCHANGED <<vars, schema>> => Hopeless'
  BY DEF vars, schema, Hopeless, Reconciled, OneOutcomePerFence
<1>3. CASE Connect(o)
  <2>1. UNCHANGED <<vars, schema>> /\ opener'[o].version = version
    BY <1>1, <1>3 DEF Connect
  <2>2. CASE version > Current
    <3>1. format = "future"
      BY <1>1, <2>2, Versions DEF Formats, Current
    <3>2. opener'[o].at = "refused"
      BY <1>1, <1>3, <2>2 DEF Connect
    <3> QED
      BY <1>2, <2>1, <3>1, <3>2 DEF Remembers, Hopeless, Opening
  <2>3. CASE ~(version > Current)
    <3>1. format # "future"
      BY <1>1, <2>3, Versions DEF Current
    <3>2. opener'[o].at = "connected"
      BY <1>1, <1>3, <2>3 DEF Connect
    <3> QED
      BY <1>1, <2>1, <3>1, <3>2 DEF Remembers, schema
  <2> QED
    BY <2>2, <2>3
<1>4. CASE Look(o)
  <2>1. UNCHANGED <<vars, schema>> /\ opener'[o].version = seen /\ at = "connected"
    BY <1>1, <1>4 DEF Look, Goto
  <2>2. seen <= version /\ format # "future"
    BY <1>1, <2>1 DEF Remembers, Opening
  <2>3. CASE seen > 0
    <3>1. format \in {"ba17", "v1", "v2", "v3"}
      BY <1>1, <2>2, <2>3, Versions DEF Formats
    <3>2. opener'[o].at = "migrate"
      BY <1>1, <1>4, <2>3 DEF Look, Goto
    <3> QED
      BY <2>1, <2>2, <3>1, <3>2 DEF Remembers, schema
  <2>4. CASE seen = 0
    <3>1. opener'[o].at = IF format = "none" THEN "create" ELSE "recognise"
      BY <1>1, <1>4, <2>4 DEF Look, Goto
    <3> QED
      BY <2>1, <2>2, <2>4, <3>1 DEF Remembers, schema
  <2> QED
    BY <1>1, <2>3, <2>4
<1>5. CASE Recognise(o)
  <2>1. /\ UNCHANGED <<vars, schema>> /\ opener'[o].version = seen /\ at = "recognise"
        /\ opener'[o].at = IF format = "ba17" THEN "migrate" ELSE "refused"
    BY <1>1, <1>5 DEF Recognise, Refuse, Goto
  <2>2. seen = 0 /\ format # "none" /\ seen <= version
    BY <1>1, <2>1 DEF Remembers, Opening
  <2>3. format \notin {"none", "ba17"} => Hopeless \/ version > seen
    BY <1>1, <2>2, Versions DEF Formats, Hopeless
  <2> QED
    BY <1>2, <2>1, <2>2, <2>3 DEF Remembers, schema, Opening
<1>6. CASE Create(o)
  <2>1. at = "create" /\ seen = 0
    BY <1>1, <1>6 DEF Create, Remembers
  <2>2. CASE Creates(o)
    <3>1. format' = "v3" /\ version' = 3
      BY <2>2, Versions DEF Creates, Commit, Current
    <3>2. opener'[o].at = "validate" /\ opener'[o].version = 3
      BY <1>1, <2>2 DEF Creates, Current
    <3> QED
      BY <3>1, <3>2 DEF Remembers, Current
  <2>3. CASE metadata # 0 /\ Refuse(o)
    <3>1. opener'[o].at = "refused" /\ opener'[o].version = seen /\ version > seen
      BY <1>1, <2>1, <2>3 DEF Refuse, Goto
    <3> QED
      BY <2>3, <3>1 DEF Remembers, Refuse, schema, Opening
  <2> QED
    BY <1>6, <2>2, <2>3 DEF Create, Creates
<1>7. CASE Migrate(o)
  <2>1. at = "migrate" /\ seen <= version /\ format \in {"ba17", "v1", "v2", "v3"}
    BY <1>1, <1>7 DEF Migrate, Remembers, Opening
  <2>2. CASE Upgrades(o, seen)
    <3>1. /\ format' \in {"v1", "v2", "v3"} /\ version' = seen + 1
      BY <2>2, UpgradeFrom
    <3>2. opener'[o].at = "migrate" /\ opener'[o].version = seen + 1
      BY <1>1, <2>2 DEF Upgrades
    <3> QED
      BY <1>1, <3>1, <3>2 DEF Remembers
  <2>3. CASE seen < Current /\ ~Source(seen) /\ Refuse(o)
    <3>1. /\ opener'[o].at = "refused" /\ opener'[o].version = seen
          /\ UNCHANGED <<vars, schema>>
      BY <1>1, <2>3 DEF Refuse, Goto
    <3>2. Hopeless \/ version > seen
      <4>1. CASE seen = 0
        BY <1>1, <2>1, <2>3, <4>1, Versions DEF Source, Hopeless, TypeOK, LeaseRows,
              NoMixedSchema, OpeningInv, Reconciled
      <4>2. CASE seen = 1
        BY <1>1, <2>1, <2>3, <4>2, Versions DEF Source, Hopeless
      <4>3. CASE seen = 2
        BY <1>1, <2>1, <2>3, <4>3 DEF Source
      <4> QED
        BY <1>1, <2>3, <4>1, <4>2, <4>3 DEF Current
    <3> QED
      BY <1>2, <3>1, <3>2 DEF Remembers, schema, Opening
  <2>4. CASE seen >= Current /\ Goto(o, "validate") /\ UNCHANGED <<vars, schema>>
    <3>1. opener'[o].at = "validate" /\ opener'[o].version = seen
      BY <1>1, <2>4 DEF Goto
    <3> QED
      BY <2>1, <2>4, <3>1 DEF Remembers, schema
  <2>5. ASSUME seen < Current, Source(seen), CopyRows(seen), Commit(seen + 1),
               Reach(o, seen + 1)
        PROVE  Upgrades(o, seen)
    BY <1>1, <2>1, <2>5 DEF Reach, Upgrades
  <2> QED
    BY <1>7, <2>2, <2>3, <2>4, <2>5 DEF Migrate
<1>8. CASE Validate(o)
  <2>1. /\ at = "validate" /\ format \in {"ba17", "v1", "v2", "v3"}
        /\ seen >= 3 /\ seen <= version
    BY <1>1, <1>8 DEF Validate, Remembers, Opening, Current
  <2>2. format = "v3" /\ version = 3 /\ metadata = 3
    BY <1>1, <2>1, Versions
  <2>3. /\ opener'[o].at = "open" /\ opener'[o].version = seen
        /\ UNCHANGED <<vars, schema>>
    BY <1>1, <1>8, <2>2 DEF Validate, Goto, Current
  <2> QED
    BY <2>1, <2>2, <2>3 DEF Remembers, schema
<1>9. CASE Leave(o) \/ Crash(o)
  BY <1>1, <1>9 DEF Leave, Crash, Outside, Remembers, Opening
<1>10. CASE Busy(o)
  <2>1. opener'[o].at = "busy"
    BY <1>1, <1>10 DEF Busy, Goto
  <2> QED
    BY <2>1 DEF Remembers, Opening
<1> QED
  BY <1>3, <1>4, <1>5, <1>6, <1>7, <1>8, <1>9, <1>10 DEF Proceed

-----------------------------------------------------------------------------
(* The rows fit the format of the file. *)

\* The last upgrade writes no row: what the earlier releases left has to be
\* what the operations of the newest one expect.
LEMMA LegacyIsSound ==
  ASSUME TypeOK, LegacyAttempts, format # "ba17"
  PROVE  AttemptInv
<1>1. \A e \in Effects : leases[e].fence \in Nat /\ effects[e].state \in EffectStates \cup {"absent"}
  BY JournalConstants DEF TypeOK, LeaseRows, EffectRows
<1>2. FencesInOrder
  BY <1>1 DEF LegacyAttempts, FencesInOrder
<1>3. StartedIffResolving
  BY <1>1 DEF LegacyAttempts, StartedIffResolving, EffectStates
<1>4. PlannedIsCleared
  BY <1>1 DEF LegacyAttempts, PlannedIsCleared
<1>5. RestartOnlyAfterAbsence
  BY <1>1 DEF LegacyAttempts, RestartOnlyAfterAbsence
<1> QED
  BY <1>2, <1>3, <1>4, <1>5 DEF AttemptInv

\* The rows stay what the format of the file allows.
LEMMA RowsFitStep == OpeningInv /\ [MigrationNext]_migrationVars => RowsFit'
<1> SUFFICES ASSUME OpeningInv, [MigrationNext]_migrationVars PROVE RowsFit'
  OBVIOUS
<1>1. RowsFit /\ TypeOK /\ TypeOK'
  BY NoMixedStep DEF OpeningInv, NoMixedSchema
<1>2. ASSUME UNCHANGED vars, format' = format PROVE RowsFit'
  BY <1>1, <1>2
     DEF vars, RowsFit, AttemptInv, FencesInOrder, StartedIffResolving, PlannedIsCleared,
         SpentFence, RestartOnlyAfterAbsence, ClearedBetween, LegacyAttempts, FirstReleaseRows,
         EvidenceFollowsState, OneOutcomePerFence
<1>3. CASE UNCHANGED migrationVars
  BY <1>2, <1>3 DEF migrationVars
<1>4. CASE Work
  <2>1. format = "v3" /\ format' = "v3" /\ Next
    BY <1>4 DEF Work, OpeningInv, Remembers, schema
  <2>2. AttemptInv /\ RowInv
    BY <1>1, <2>1 DEF RowsFit, RowInv
  <2>3. AttemptInv' /\ RowInv'
    BY <1>1, <2>1, <2>2, StepsHaveShape, ShapesKeepAttempts, RowsStep
  <2> QED
    BY <2>1, <2>3 DEF RowsFit, RowInv
<1>5. ASSUME NEW o \in Openers, Proceed(o) \/ Leave(o) \/ Crash(o) \/ Busy(o)
      PROVE  RowsFit'
  <2>1. CASE Waits(o)
    BY <1>2, <2>1 DEF Waits, schema
  <2>2. ASSUME format \in {"none", "v1", "v2"}, UNCHANGED vars, format' \in {"v2", "v3"},
               OneOutcomePerFence
        PROVE  RowsFit'
    <3>1. AttemptInv /\ LegacyAttempts /\ RowInv
      BY <1>1, <2>2, LegacyIsSound DEF RowsFit, RowInv
    <3>2. AttemptInv' /\ RowInv'
      BY <2>2, <3>1
         DEF vars, AttemptInv, FencesInOrder, StartedIffResolving, PlannedIsCleared,
             SpentFence, RestartOnlyAfterAbsence, ClearedBetween, RowInv,
             EvidenceFollowsState, OneOutcomePerFence
    <3>3. LegacyAttempts'
      BY <2>2, <3>1 DEF vars, LegacyAttempts
    <3> QED
      BY <2>2, <3>2, <3>3 DEF RowsFit, RowInv
  <2>3. CASE Creates(o)
    <3>1. format \in {"none", "v3"} /\ UNCHANGED vars /\ format' = "v3"
      BY <2>3, Versions DEF Creates, OpeningInv, Remembers, Commit, Current
    <3> QED
      BY <1>1, <1>2, <2>2, <3>1 DEF RowsFit
  <2>4. ASSUME NEW v, Upgrades(o, v) PROVE RowsFit'
    <3>1. Source(v) /\ CopyRows(v)
      BY <2>4 DEF Upgrades
    <3>2. CASE v = 0 /\ format = "ba17" /\ format' = "v1"
      <4>1. FirstReleaseRows /\ LegacyAttempts
        BY <1>1, <3>2 DEF RowsFit
      <4>2. /\ \A e \in Effects : /\ effects'[e].state = effects[e].state
                                  /\ e \notin Reconciled => effects'[e] = effects[e]
                                  /\ e \in Reconciled => effects'[e].evidence = NoEvidence
            /\ \A p \in reconciliations' :
                 p.effect \in Reconciled /\ p.fence = leases[p.effect].fence
            /\ \A e \in Reconciled :
                 \E p \in reconciliations' : p.effect = e /\ p.outcome = "unknown"
            /\ UNCHANGED <<leases, started>>
        BY <1>1, <3>1, <3>2, <4>1, FirstUpgrade
      <4>3. \A e \in Effects : e \in Reconciled <=> effects[e].state = "reconciled"
        BY DEF Reconciled
      <4>4. EvidenceFollowsState'
        BY <4>1, <4>2, <4>3 DEF EvidenceFollowsState, FirstReleaseRows, LegacyAttempts
      <4>5. \A p \in reconciliations' : p.fence <= leases[p.effect].fence
        BY <1>1, <4>2, JournalConstants DEF TypeOK, AuditRows, Fences
      <4>6. LegacyAttempts'
        BY <4>1, <4>2, <4>3, <4>5 DEF LegacyAttempts
      <4> QED
        BY <3>2, <4>4, <4>6 DEF RowsFit
    <3>3. CASE v = 1 /\ format = "v1" /\ format' = "v2"
      BY <2>2, <3>1, <3>3 DEF Source, CopyRows, vars
    <3>4. CASE v = 2 /\ format \in {"v2", "v3"} /\ format' = "v3"
      <4>1. UNCHANGED vars
        BY <3>1, <3>4 DEF CopyRows, vars
      <4> QED
        BY <1>1, <1>2, <2>2, <3>4, <4>1 DEF RowsFit
    <3> QED
      BY <2>4, <3>2, <3>3, <3>4, UpgradeFrom
  <2> QED
    BY <1>5, <2>1, <2>3, <2>4, StepsOfAnOpener DEF OpeningInv
<1> QED
  BY <1>3, <1>4, <1>5 DEF MigrationNext

\* Whatever file is found, nobody has opened it yet.
LEMMA OpeningInitial == MigrationInit => OpeningInv
<1> SUFFICES ASSUME MigrationInit PROVE OpeningInv
  OBVIOUS
<1>1. /\ format \in {"none", "foreign", "future", "ba17", "v1", "v2"}
      /\ version = VersionOf(format) /\ metadata = VersionOf(format)
      /\ opener = [o \in Openers |-> Outside]
      /\ clock = 0 /\ observed = 0 /\ faults = 0
  BY DEF MigrationInit
<1>2. TypeOK /\ RowsFit
  <2>1. CASE EmptyInit /\ format \in {"none", "foreign", "future"}
    <3>1. Init
      BY <1>1, <2>1 DEF EmptyInit, Init
    <3>2. TypeOK
      BY <3>1, EmptyTyped
    <3> QED
      BY <2>1, <3>2 DEF EmptyInit, NoEffectRow, RowsFit, LegacyAttempts, EvidenceFollowsState,
                        OneOutcomePerFence
  <2>2. CASE LegacyInit(format) /\ format \in {"ba17", "v1", "v2"}
    <3>1. PICK fence \in [Effects -> 0 .. MaxFence], owner \in [Effects -> Workers] :
            leases = [e \in Effects |->
                        IF fence[e] = 0 THEN NoLease
                        ELSE [worker |-> owner[e], fence |-> fence[e], expires |-> 0]]
      BY <2>2 DEF LegacyInit
    <3>2. leases \in [Effects -> LeaseRows]
      BY <3>1, JournalConstants DEF LeaseRows, NoLease
    <3>3. runs \in [Runs -> RunRows]
      BY <2>2, JournalConstants, MigrationConstants
         DEF LegacyInit, RunRows, RunStates, Stages
    <3>4. log \in [Runs -> Seq(EventRows)]
      <4> DEFINE row == [revision |-> 1, event |-> "DISCOVER", state |-> "discovery",
                         context |-> {}]
      <4>1. row \in EventRows
        BY JournalConstants, MigrationConstants
           DEF EventRows, RunEvents, StageEvents, RunStates, Stages
      <4>2. <<row>> \in Seq(EventRows)
        BY <4>1
      <4> QED
        BY <2>2, <4>2 DEF LegacyInit
    <3>5. /\ effects \in [Effects -> EffectRows] /\ reconciliations \subseteq AuditRows
          /\ \A e \in Effects : effects[e] = NoEffectRow \/ LegacyRow(format, effects[e])
      BY <2>2 DEF LegacyInit
    <3>6. started = [e \in Effects |->
                       IF effects[e].state \in {"absent", "intent"} THEN {}
                       ELSE {leases[e].fence}]
      BY <2>2 DEF LegacyInit
    <3>7. started \in [Effects -> SUBSET (0 .. MaxFence)]
      BY <3>2, <3>6, JournalConstants DEF LeaseRows
    <3>8. TypeOK
      BY <1>1, <3>2, <3>3, <3>4, <3>5, <3>7, JournalConstants DEF TypeOK
    <3>9. LegacyAudit(format)
      BY <2>2 DEF LegacyInit
    <3>10. LegacyAttempts
      BY <3>5, <3>6, <3>9
         DEF LegacyAttempts, LegacyAudit, LegacyRow, NoEffectRow
    <3>11. /\ format = "ba17" => FirstReleaseRows
           /\ format # "ba17" => EvidenceFollowsState
           /\ format = "v2" => OneOutcomePerFence
      BY <2>2, <3>5, <3>9
         DEF FirstReleaseRows, EvidenceFollowsState, OneOutcomePerFence,
             LegacyAudit, LegacyRow, NoEffectRow, EffectStates, Reconciled
    <3> QED
      BY <2>2, <3>8, <3>10, <3>11 DEF RowsFit
  <2> QED
    BY <2>1, <2>2 DEF MigrationInit
<1>3. NoMixedSchema
  BY <1>1, <1>2, Versions, MigrationConstants
     DEF NoMixedSchema, Formats, Outside, Places, Current
<1>4. \A o \in Openers : Remembers(o)
  BY <1>1 DEF Outside, Remembers, Opening
<1> QED
  BY <1>2, <1>3, <1>4 DEF OpeningInv

-----------------------------------------------------------------------------
\* The file, the rows and what every process remembers of them fit together:
\* OpeningInv is inductive.
THEOREM OpeningConsistent == MigrationSpec => []OpeningInv
<1>1. OpeningInv /\ [MigrationNext]_migrationVars => (\A o \in Openers : Remembers(o))'
  <2> SUFFICES ASSUME OpeningInv, [MigrationNext]_migrationVars, NEW p \in Openers
               PROVE  Remembers(p)'
    OBVIOUS
  <2>1. CASE opener'[p] = opener[p]
    BY <2>1, OthersRemember
  <2>2. ASSUME NEW o \in Openers, Proceed(o) \/ Leave(o) \/ Crash(o) \/ Busy(o)
        PROVE  Remembers(p)'
    <3>1. CASE o = p
      BY <2>2, <3>1, MoverRemembers
    <3>2. CASE o # p
      <4>1. opener'[p] = opener[p]
        BY <2>2, <3>2, StepsOfAnOpener
           DEF OpeningInv, NoMixedSchema, Upgrades, Creates, Waits
      <4> QED
        BY <2>1, <4>1
    <3> QED
      BY <3>1, <3>2
  <2> QED
    BY <2>1, <2>2 DEF MigrationNext, Work, migrationVars
<1>2. OpeningInv /\ [MigrationNext]_migrationVars => OpeningInv'
  BY <1>1, NoMixedStep, RowsFitStep DEF OpeningInv
<1> QED
  BY <1>2, OpeningInitial, PTL DEF MigrationSpec

\* Whoever races, crashes or is refused, no reader finds the two version
\* numbers and the objects of different releases.
THEOREM SchemaNeverMixed == MigrationSpec => []NoMixedSchema
<1>1. OpeningInv => NoMixedSchema
  BY DEF OpeningInv
<1> QED
  BY <1>1, OpeningConsistent, PTL

\* An open journal has the newest schema and rows that satisfy everything the
\* operations rely on, also when earlier releases wrote them.
THEOREM OpenJournalsAreSound == MigrationSpec => []OpenedIsSound
<1>1. OpeningInv => OpenedIsSound
  BY DEF OpeningInv, OpenedIsSound, Remembers, RowsFit
<1> QED
  BY <1>1, OpeningConsistent, PTL

\* A refusal means that nobody can open the file or that somebody else is ahead.
THEOREM RefusalsHaveCause == MigrationSpec => []RefusedForCause
<1>1. OpeningInv => RefusedForCause
  BY DEF OpeningInv, RefusedForCause, Remembers
<1> QED
  BY <1>1, OpeningConsistent, PTL

\* No process takes the file back to the version it remembers.
THEOREM FilesOnlyMoveForward == MigrationSpec => NeverDowngraded
<1>1. OpeningInv /\ [MigrationNext]_migrationVars
        => [version' >= version /\ metadata' >= metadata]_migrationVars
  <2> SUFFICES ASSUME OpeningInv, [MigrationNext]_migrationVars
               PROVE  version' >= version /\ metadata' >= metadata
    OBVIOUS
  <2>1. /\ SchemaMoves /\ format \in Formats
        /\ version = VersionOf(format) /\ metadata = VersionOf(format)
    BY SchemaStep DEF OpeningInv, NoMixedSchema
  <2> QED
    BY <2>1, Versions DEF SchemaMoves, schema, Formats
<1> QED
  BY <1>1, OpeningConsistent, PTL DEF MigrationSpec, NeverDowngraded

\* Opening states nothing new about the runs and forgets nothing, whatever it
\* creates, upgrades or upgrades once more.
THEOREM FactsSurviveOpening == MigrationSpec => OpeningKeepsFacts
<1>1. ASSUME OpeningInv, [MigrationNext]_migrationVars, opener' # opener
      PROVE  Facts' = Facts
  <2>1. PICK o \in Openers : Proceed(o) \/ Leave(o) \/ Crash(o) \/ Busy(o)
    BY <1>1 DEF MigrationNext, migrationVars, Work
  <2>2. ASSUME UNCHANGED vars, format = "ba17" <=> format' = "ba17" PROVE Facts' = Facts
    <3>1. StatedAudit' = StatedAudit
      BY <2>2 DEF vars, StatedAudit, Reconciled
    <3>2. StatedEvidence' = StatedEvidence
      BY <2>2 DEF vars, StatedEvidence, Reconciled
    <3> QED
      BY <2>2, <3>1, <3>2 DEF vars, Facts
  <2>3. CASE Waits(o)
    BY <2>2, <2>3 DEF Waits, schema
  <2>4. CASE Creates(o)
    <3>1. format \in {"none", "v3"} /\ UNCHANGED vars /\ format' = "v3"
      BY <1>1, <2>4, Versions DEF Creates, OpeningInv, Remembers, Commit, Current
    <3> QED
      BY <2>2, <3>1
  <2>5. ASSUME NEW v, Upgrades(o, v) PROVE Facts' = Facts
    <3>1. Source(v) /\ CopyRows(v)
      BY <2>5 DEF Upgrades
    <3>2. CASE v = 0 /\ format = "ba17" /\ format' = "v1"
      <4>1. TypeOK /\ FirstReleaseRows
        BY <1>1, <3>2 DEF OpeningInv, NoMixedSchema, RowsFit
      <4>2. /\ \A e \in Effects : /\ effects'[e].run = effects[e].run
                                  /\ effects'[e].state = effects[e].state
                                  /\ e \notin Reconciled => effects'[e] = effects[e]
            /\ UNCHANGED <<observed, runs, log, leases>>
        BY <3>1, <3>2, <4>1, FirstUpgrade
      <4>3. \A e \in Effects : e \in Reconciled <=> effects[e].state = "reconciled"
        BY DEF Reconciled
      <4>4. Reconciled' = Reconciled
        BY <4>2 DEF Reconciled
      <4>5. StatedEvidence' = StatedEvidence
        BY <4>2, <4>3, <4>4 DEF StatedEvidence
      <4>6. StatedAudit' = StatedAudit
        BY <3>1, <3>2 DEF StatedAudit, CopyRows
      <4> QED
        BY <4>2, <4>5, <4>6 DEF Facts
    <3>3. CASE v # 0 /\ format # "ba17" /\ format' # "ba17"
      BY <2>2, <3>1, <3>3 DEF CopyRows, vars
    <3> QED
      BY <1>1, <2>5, <3>2, <3>3, UpgradeFrom
  <2> QED
    BY <1>1, <2>1, <2>3, <2>4, <2>5, StepsOfAnOpener DEF OpeningInv
<1>2. OpeningInv /\ [MigrationNext]_migrationVars
        => [opener' # opener => Facts' = Facts]_migrationVars
  BY <1>1
<1> QED
  BY <1>2, OpeningConsistent, PTL DEF MigrationSpec, OpeningKeepsFacts
=============================================================================
