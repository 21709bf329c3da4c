------------------------------- MODULE Catalog -------------------------------
(***************************************************************************)
(* The catalog of one connection and the syncs that keep it: Sync and the  *)
(* reconciling of internal/catalog (sync.go, snapshot.go,                  *)
(* relationships.go), the statements of internal/store/repo/catalog.go,    *)
(* and the two that run it, the background job and pivot catalog sync.     *)
(*                                                                         *)
(* The source changes at any time.  A sync reads what the catalog knew,    *)
(* then all of the source, stores what it saw row by row at the time it    *)
(* began, marks gone what was stored at an earlier time, and reports the   *)
(* difference.  No two syncs begin at the same time, and all clocks agree. *)
(* The shape of a column, which is stored and compared with nothing else   *)
(* at stake, is left out.                                                  *)
(***************************************************************************)
EXTENDS Integers, FiniteSets

CONSTANTS
  Tables, Columns, KeyRows,  \* a key row is one column of a relationship
  Relations,
  TableOf,                   \* [Columns -> Tables]
  RelationOf,                \* [KeyRows -> Relations]
  Syncs,                     \* the job and the commands that may run at once
  MaxSyncs,                  \* bound on syncs begun
  MaxChanges                 \* bound on changes of the source

ASSUME CatalogAssumption ==
  /\ TableOf \in [Columns -> Tables]
  /\ RelationOf \in [KeyRows -> Relations]
  /\ Tables \cap Columns = {} /\ KeyRows \cap (Tables \cup Columns) = {}
  /\ MaxSyncs \in Nat /\ MaxChanges \in Nat

VARIABLES
  source, changes, \* what the database has; how often it has changed
  begun,           \* syncs begun, which is the clock
  rows,            \* [Objects -> Row], what the catalog has
  stage, job,      \* of the syncs
  crossed,         \* the running syncs that another has run beside
  last,            \* the last sync, if it ran alone and none has begun since
  told,            \* what somebody who follows the reports takes to be there
  astray           \* syncs have crossed, or one failed after writing

catalog == <<source, changes, begun, rows, stage, job, crossed, last, told, astray>>

Shape == Tables \cup Columns
Objects == Shape \cup KeyRows

\* seen is when the sync began that stored the row last.
Row == [state : {"none", "live", "gone"}, seen : 0 .. MaxSyncs]
States == [Objects -> {"none", "live", "gone"}]

Job == [began : 0 .. MaxSyncs, before : States, found : SUBSET Objects,
        stored : SUBSET Objects, swept : SUBSET Objects, keys : BOOLEAN]
NoJob == [began |-> 0, before |-> [o \in Objects |-> "none"], found |-> {},
          stored |-> {}, swept |-> {}, keys |-> FALSE]

Stages == {"idle", "begun", "tables", "known", "recording", "keys found", "keys known",
          "keys", "columns swept"}

Result == [found : SUBSET Objects, keys : BOOLEAN, alone : BOOLEAN,
           shapesAgree : BOOLEAN, keysAgree : BOOLEAN, split : BOOLEAN]
NoResult == [found |-> {}, keys |-> FALSE, alone |-> FALSE,
             shapesAgree |-> TRUE, keysAgree |-> TRUE, split |-> FALSE]

CatalogInit ==
  /\ source = {} /\ changes = 0 /\ begun = 0
  /\ rows = [o \in Objects |-> [state |-> "none", seen |-> 0]]
  /\ stage = [y \in Syncs |-> "idle"]
  /\ job = [y \in Syncs |-> NoJob]
  /\ crossed = {}
  /\ last = NoResult
  /\ told = {}
  /\ astray = FALSE

Known == {o \in Objects : rows[o].state = "live"}
Syncing == {y \in Syncs : stage[y] # "idle"}
Advance(y, from, to) == stage[y] = from /\ stage' = [stage EXCEPT ![y] = to]

-----------------------------------------------------------------------------
\* Somebody adds or drops a table, a column or part of a key.  Columns go with
\* their table.
Change ==
  /\ changes < MaxChanges
  /\ changes' = changes + 1
  /\ \E o \in Objects :
       source' =
         IF o \in source
         THEN source \ ({o} \cup {x \in Columns : TableOf[x] = o})
         ELSE source \cup {o} \cup (IF o \in Columns THEN {TableOf[o]} ELSE {})
  /\ UNCHANGED <<begun, rows, stage, job, crossed, last, told, astray>>

BeginSync(y) ==
  /\ begun < MaxSyncs
  /\ Advance(y, "idle", "begun")
  /\ begun' = begun + 1
  /\ job' = [job EXCEPT ![y] = [NoJob EXCEPT !.began = begun']]
  /\ crossed' = IF Syncing = {} THEN {} ELSE crossed \cup Syncing \cup {y}
  /\ last' = NoResult
  /\ astray' = (astray \/ Syncing # {})
  /\ UNCHANGED <<source, changes, rows, told>>

\* The snapshot takes two queries.
Snapshot(y, S, from, to) ==
  /\ Advance(y, from, to)
  /\ job' = [job EXCEPT ![y].before =
       [o \in Objects |-> IF o \in S THEN rows[o].state ELSE @[o]]]
  /\ UNCHANGED <<source, changes, begun, rows, crossed, last, told, astray>>

SnapshotTables(y) == Snapshot(y, Tables, "begun", "tables")

\* A column whose table was not in the first read is skipped.
SnapshotColumns(y) ==
  Snapshot(y, {x \in Columns : job[y].before[TableOf[x]] # "none"}, "tables", "known")

\* The source, in full.
Introspect(y) ==
  /\ Advance(y, "known", "recording")
  /\ job' = [job EXCEPT ![y].found = source \cap Shape]
  /\ UNCHANGED <<source, changes, begun, rows, crossed, last, told, astray>>

\* Mutant: a row that was marked gone stays so.
Stored_StaysGone(y, o) ==
  [state |-> IF rows[o].state = "gone" THEN "gone" ELSE "live", seen |-> job[y].began]
\* Mutant: the row is stamped with a time after the sync began.
Stored_Ahead(y, o) == [state |-> "live", seen |-> job[y].began + 1]
\* The upserts: the row is there again, last seen when this sync began.
Stored(y, o) == [state |-> "live", seen |-> job[y].began]

Left(y, S) == (job[y].found \cap S) \ job[y].stored

Store(y, o) ==
  /\ rows' = [rows EXCEPT ![o] = Stored(y, o)]
  /\ job' = [job EXCEPT ![y].stored = @ \cup {o}]
  /\ UNCHANGED <<source, changes, begun, stage, crossed, last, told, astray>>

\* RecordTable and RecordColumn: a table before its columns.
Record(y) ==
  /\ stage[y] = "recording"
  /\ \E o \in Left(y, Shape) :
       /\ o \in Columns => TableOf[o] \in job[y].stored
       /\ Store(y, o)

\* reconcileRelationships.  A connector without foreign keys sweeps none.
ForeignKeys(y) ==
  /\ Left(y, Shape) = {}
  /\ \/ /\ Advance(y, "recording", "keys found")
        /\ job' = [job EXCEPT ![y].found = @ \cup (source \cap KeyRows), ![y].keys = TRUE]
     \/ Advance(y, "recording", "keys") /\ job' = job
  /\ UNCHANGED <<source, changes, begun, rows, crossed, last, told, astray>>

StoredKeys(y) == Snapshot(y, KeyRows, "keys found", "keys known")

RecordForeignKey(y) ==
  /\ stage[y] = "keys known"
  /\ \E o \in Left(y, KeyRows) : Store(y, o)

Stale(y, S) == {o \in S : rows[o].state = "live" /\ rows[o].seen < job[y].began}

Sweep(y, S, from, to) ==
  /\ Advance(y, from, to)
  /\ rows' = [o \in Objects |->
       IF o \in Stale(y, S) THEN [rows[o] EXCEPT !.state = "gone"] ELSE rows[o]]
  /\ job' = [job EXCEPT ![y].swept = @ \cup Stale(y, S)]
  /\ UNCHANGED <<source, changes, begun, crossed, last, told, astray>>

MarkForeignKeysGone(y) == Left(y, KeyRows) = {} /\ Sweep(y, KeyRows, "keys known", "keys")

\* MarkGone: columns before tables.
SweepColumns(y) == Sweep(y, Columns, "keys", "columns swept")

-----------------------------------------------------------------------------
(* The report.                                                              *)

\* Mutant: what comes back is not reported.
Appeared_New(y, S) == {o \in job[y].found \cap S : job[y].before[o] = "none"}
Appeared(y, S) == {o \in job[y].found \cap S : job[y].before[o] # "live"}

\* Mutant: what was gone already is named again.
Missing_Gone(y, S) == {o \in S \ job[y].found : job[y].before[o] # "none"}
\* missing, missingRelationships: known, living, and not seen.
Missing(y, S) == {o \in S \ job[y].found : job[y].before[o] = "live"}

\* The key rows that countColumnsOf counts: all the living ones of every
\* relationship of which one is missing.
Counted(y) ==
  {o \in KeyRows : /\ job[y].before[o] = "live"
                   /\ \E k \in Missing(y, KeyRows) : RelationOf[k] = RelationOf[o]}

\* The cross-checks of what was named against what the sweeps counted.
ShapesAgree(y, swept) == Cardinality(Missing(y, Shape)) = Cardinality(swept \cap Shape)
KeysAgree(y) ==
  job[y].keys => Cardinality(Counted(y)) = Cardinality(job[y].swept \cap KeyRows)

\* A relationship has lost some of its columns and kept others.
Split(y) == \E o \in Counted(y) : o \in job[y].found

\* The last sweep, and the report.
FinishSync(y) ==
  LET gone == Stale(y, Tables) IN
  /\ Advance(y, "columns swept", "idle")
  /\ rows' = [o \in Objects |->
       IF o \in gone THEN [rows[o] EXCEPT !.state = "gone"] ELSE rows[o]]
  /\ told' = (told \cup Appeared(y, Shape)) \ Missing(y, Shape)
  /\ last' = IF y \in crossed THEN NoResult
             ELSE [found |-> job[y].found, keys |-> job[y].keys, alone |-> TRUE,
                   shapesAgree |-> ShapesAgree(y, job[y].swept \cup gone),
                   keysAgree |-> KeysAgree(y), split |-> Split(y)]
  /\ job' = [job EXCEPT ![y] = NoJob]
  /\ crossed' = crossed \ {y}
  /\ UNCHANGED <<source, changes, begun, astray>>

\* A statement fails, the source does not answer, or the process dies: what
\* was written stays, and nothing is reported.
Fail(y) ==
  /\ y \in Syncing
  /\ stage' = [stage EXCEPT ![y] = "idle"]
  /\ job' = [job EXCEPT ![y] = NoJob]
  /\ crossed' = crossed \ {y}
  /\ astray' = (astray \/ job[y].stored \cup job[y].swept # {})
  /\ UNCHANGED <<source, changes, begun, rows, last, told>>

CatalogNext ==
  \/ Change
  \/ \E y \in Syncs :
       \/ BeginSync(y) \/ SnapshotTables(y) \/ SnapshotColumns(y) \/ Introspect(y)
       \/ Record(y) \/ ForeignKeys(y) \/ StoredKeys(y) \/ RecordForeignKey(y)
       \/ MarkForeignKeysGone(y) \/ SweepColumns(y) \/ FinishSync(y) \/ Fail(y)

CatalogSpec == CatalogInit /\ [][CatalogNext]_catalog

-----------------------------------------------------------------------------
(* Properties.                                                              *)

CatalogTypeOK ==
  /\ source \subseteq Objects /\ changes \in 0 .. MaxChanges /\ begun \in 0 .. MaxSyncs
  /\ rows \in [Objects -> Row]
  /\ stage \in [Syncs -> Stages]
  /\ job \in [Syncs -> Job]
  /\ crossed \subseteq Syncing
  /\ last \in Result
  /\ told \subseteq Shape
  /\ astray \in BOOLEAN

\* A sync that runs alone leaves exactly what it found, whatever earlier syncs
\* that crossed each other or failed half-way have left behind.
LoneSyncHeals ==
  last.alone =>
    /\ Known \cap Shape = last.found \cap Shape
    /\ last.keys => Known \cap KeyRows = last.found \cap KeyRows

\* As long as no two syncs have crossed and none failed after writing, whoever
\* follows the reports of tables and columns, adding what is added and removing
\* what is removed, has what the catalog has.
ReportsTellTheStory == Syncing = {} /\ ~astray => told = Known \cap Shape

\* The report says that another sync may be running when a sweep marked a
\* different number of rows gone than it names.  It says so of no sync that ran
\* alone, whatever has failed before, except of one that found a relationship
\* with some of its columns gone and some still there.
DisagreementMeansCrossing == last.shapesAgree /\ (last.keysAgree \/ last.split)
==============================================================================
