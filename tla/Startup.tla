-------------------------------- MODULE Startup --------------------------------
(***************************************************************************)
(* Opening the database (infrastructure/storage/database.py): the legacy   *)
(* rename, the v2 baseline and the registered migrations 8 to 10, run by   *)
(* every process that constructs a DatabaseManager (the API server, the    *)
(* CLI).  The lock of initialise() is a threading.Lock, so it orders       *)
(* nothing between processes; what orders them is SQLite's write lock.     *)
(*                                                                         *)
(* The connection has isolation_level "": a DDL statement autocommits      *)
(* unless an INSERT has opened the transaction, which then lasts until the *)
(* commit at the end of connection().  A statement that autocommits, and a *)
(* query whose answer a later statement relies on, is a step of its own.   *)
(***************************************************************************)
EXTENDS Integers, FiniteSets

CONSTANTS Process,     \* processes that open the database
          Origins,     \* how the file may look before the first start
          Record,      \* rows of raw_records in a v1 file
          LegacyRow,   \* rows of each legacy-shaped table in a v2.0.0 file
          Orphan,      \* those whose v1 record is gone, as attachments
          NewRow,      \* rows the running program adds later
          Overlap,     \* {FALSE}: one process starts at a time
          MaxCrashes   \* bound on crashes

Table  == {"lead_attachments", "discovery_campaigns"}
Origin == {"fresh", "v1", "v2.0.0", "partial", "v3.0.0"}
Nobody == "nobody"

ASSUME StartupAssumption ==
  /\ Origins \subseteq Origin
  /\ Overlap \subseteq BOOLEAN
  /\ MaxCrashes \in Nat
  /\ Nobody \notin Process
  /\ LegacyRow \cap NewRow = {}
  /\ Orphan \subseteq LegacyRow

VARIABLES db,       \* the committed content of the file
          writer,   \* the process whose transaction is open, or Nobody
          tx,       \* what that transaction will commit
          pc,       \* where each process is in initialise()
          table,    \* the legacy table a process is looking at
          applied,  \* the versions _run_migrations read
          crashes, origin, overlap

vars == <<db, writer, tx, pc, table, applied, crashes, origin, overlap>>

Absent == [shape |-> "none", rows |-> {}]
Empty  == [shape |-> "v2", rows |-> {}]

\* raw: raw_records and its children exist; lineage: the v1 entities are in
\* resolved_entities ("v1"), in entity_clusters and entity_links ("v2"), or
\* "lost"; columns: entity_clusters has the v3.1 columns.
OriginDb(o) ==
  LET old == o \in {"v1", "v2.0.0", "partial"}
      legacy == o \in {"v2.0.0", "partial"}
  IN [raw      |-> old,
      leads    |-> IF o = "v3.0.0" THEN Record ELSE {},
      now      |-> [t \in Table |->
                     IF legacy THEN [shape |-> "v1", rows |-> LegacyRow]
                     ELSE IF o = "v3.0.0" THEN Empty ELSE Absent],
      legacy   |-> [t \in Table |-> Absent],
      links    |-> IF old THEN "v1" ELSE IF o = "v3.0.0" THEN "v2" ELSE "none",
      lineage  |-> IF old THEN "v1" ELSE "v2",
      baseline |-> o = "v3.0.0",
      columns  |-> o = "partial",
      versions |-> IF o = "v3.0.0" THEN {8} ELSE {}]

Init ==
  /\ origin \in Origins
  /\ overlap \in Overlap
  /\ db = OriginDb(origin)
  /\ writer = Nobody
  /\ tx = db
  /\ pc = [p \in Process |-> "off"]
  /\ table = [p \in Process |-> "lead_attachments"]
  /\ applied = [p \in Process |-> {}]
  /\ crashes = 0

-----------------------------------------------------------------------------
Goto(p, step) == pc' = [pc EXCEPT ![p] = step]
Fixed == UNCHANGED <<crashes, origin, overlap>>
NoTx  == UNCHANGED <<writer, tx>>

\* A statement that autocommits waits for the write lock.
Autocommit(d) == writer = Nobody /\ db' = d /\ NoTx

\* initialise() begins.
Start(p) ==
  /\ pc[p] = "off"
  /\ overlap \/ \A q \in Process : pc[q] \in {"off", "ready"}
  /\ Goto(p, "look")
  /\ table' = [table EXCEPT ![p] = "lead_attachments"]
  /\ applied' = [applied EXCEPT ![p] = {}]
  /\ UNCHANGED db /\ NoTx /\ Fixed

\* After the last legacy table comes the baseline.
NextTable(p) ==
  IF table[p] = "lead_attachments"
  THEN /\ table' = [table EXCEPT ![p] = "discovery_campaigns"]
       /\ Goto(p, "look")
  ELSE Goto(p, "baseline") /\ UNCHANGED table

\* Mutant of Collides: any existing table is renamed.
CollidesAny(tbl) == tbl.shape # "none"

\* The test of _reconcile_legacy_tables: exists, without the v2 column.
Collides(tbl) == tbl.shape = "v1"

\* PRAGMA table_info.
Look(p) ==
  /\ pc[p] = "look"
  /\ IF Collides(db.now[table[p]])
     THEN Goto(p, "rename") /\ UNCHANGED table
     ELSE NextTable(p)
  /\ UNCHANGED <<db, applied>> /\ NoTx /\ Fixed

CanRename(t) == db.now[t].shape # "none" /\ db.legacy[t].shape = "none"

\* ALTER TABLE .. RENAME: whatever shape the table has by now.
Rename(p) ==
  LET t == table[p] IN
  /\ pc[p] = "rename"
  /\ CanRename(t)
  /\ Autocommit([db EXCEPT !.legacy[t] = db.now[t], !.now[t] = Absent])
  /\ NextTable(p)
  /\ UNCHANGED applied /\ Fixed

\* CREATE .. IF NOT EXISTS for every v2 table, in one transaction.
WithBaseline(d) ==
  [d EXCEPT !.now = [t \in Table |-> IF d.now[t].shape = "none" THEN Empty ELSE d.now[t]],
            !.links = IF @ = "none" THEN "v2" ELSE @,
            !.columns = @ \/ ~d.baseline,
            !.baseline = TRUE]

\* Its index on lead_attachments(lead_id) needs the v2 shape.
BaselineFits == db.now["lead_attachments"].shape # "v1"

Baseline(p) ==
  /\ pc[p] = "baseline"
  /\ BaselineFits
  /\ Autocommit(WithBaseline(db))
  /\ Goto(p, "registry")
  /\ UNCHANGED <<table, applied>> /\ Fixed

\* _run_migrations: the registry is read once, outside any transaction.
ReadRegistry(p) ==
  /\ pc[p] = "registry"
  /\ applied' = [applied EXCEPT ![p] = db.versions]
  /\ Goto(p, IF 8 \notin db.versions THEN "links"
             ELSE IF 9 \notin db.versions THEN "columns" ELSE "register")
  /\ UNCHANGED <<db, table>> /\ NoTx /\ Fixed

-----------------------------------------------------------------------------
\* Migration 8, up to its first INSERT.

LookAtLinks(p) ==
  /\ pc[p] = "links"
  /\ Goto(p, IF db.links = "v1" THEN "drop_links" ELSE "create_links")
  /\ UNCHANGED <<db, table, applied>> /\ NoTx /\ Fixed

\* DROP TABLE entity_links: of whatever shape it has by now.
DropLinks(p) ==
  /\ pc[p] = "drop_links"
  /\ db.links # "none"
  /\ Autocommit([db EXCEPT !.links = "none",
                           !.lineage = IF db.links = "v2" /\ ~db.raw THEN "lost" ELSE @])
  /\ Goto(p, "create_links")
  /\ UNCHANGED <<table, applied>> /\ Fixed

CreateLinks(p) ==
  /\ pc[p] = "create_links"
  /\ Autocommit([db EXCEPT !.links = IF @ = "none" THEN "v2" ELSE @])
  /\ Goto(p, "records")
  /\ UNCHANGED <<table, applied>> /\ Fixed

\* Is there a raw_records table?
LookForRecords(p) ==
  /\ pc[p] = "records"
  /\ Goto(p, IF db.raw THEN "copy" ELSE "no_records")
  /\ UNCHANGED <<db, table, applied>> /\ NoTx /\ Fixed

\* Fresh install: legacy attachments cannot be mapped and are dropped.
DropUnmappable(p) ==
  /\ pc[p] = "no_records"
  /\ Autocommit([db EXCEPT !.legacy["lead_attachments"] = Absent])
  /\ Goto(p, "register")
  /\ UNCHANGED <<table, applied>> /\ Fixed

\* Migration 9 on a file whose baseline predates it: read, then ALTER.
LookAtColumns(p) ==
  /\ pc[p] = "columns"
  /\ Goto(p, IF db.columns THEN "register" ELSE "add_columns")
  /\ UNCHANGED <<db, table, applied>> /\ NoTx /\ Fixed

AddColumns(p) ==
  /\ pc[p] = "add_columns"
  /\ ~db.columns
  /\ Autocommit([db EXCEPT !.columns = TRUE])
  /\ Goto(p, "register")
  /\ UNCHANGED <<table, applied>> /\ Fixed

-----------------------------------------------------------------------------
\* The transaction: from the first INSERT to the commit of connection().

\* Mutant of Folded: DROP without INSERT .. SELECT.
FoldedNothing(d, t) == [d EXCEPT !.legacy[t] = Absent]

\* The JOIN through raw_records and leads finds no lead for an attachment whose
\* record is gone; campaigns are folded without a join.
Unmappable(t) == IF t = "lead_attachments" THEN Orphan ELSE {}

\* _fold_legacy_tables, one table, while raw_records exists: INSERT .. SELECT
\* of what maps, then DROP of everything.
Folded(d, t) ==
  [d EXCEPT !.now[t].rows = @ \cup (d.legacy[t].rows \ Unmappable(t)),
            !.legacy[t] = Absent]

\* Mutant of Consolidated: the v1 tables are dropped, nothing was copied.
ConsolidatedNothing(d) == [d EXCEPT !.raw = FALSE]

\* _migrate_v1_to_v2 with raw_records: INSERT OR IGNORE into leads, fold,
\* drop the v1 tables, map resolved_entities to clusters and links.
Consolidated(d) ==
  LET folded == Folded(Folded(d, "lead_attachments"), "discovery_campaigns")
  IN [folded EXCEPT !.leads = @ \cup Record,
                    !.raw = FALSE,
                    !.links = "v2",
                    !.lineage = "v2"]

\* INSERT INTO schema_migrations after each migration; the CREATEs and ALTERs
\* of 9 and 10 are inside the transaction by then.
Registered(d, done) ==
  [d EXCEPT !.versions = @ \cup ({8, 9, 10} \ done),
            !.columns = TRUE]

\* A version another process recorded meanwhile violates the primary key.
Clash(p) == ({8, 9, 10} \ applied[p]) \cap db.versions # {}

Begin(p, d) ==
  /\ writer = Nobody
  /\ writer' = p
  /\ tx' = d
  /\ Goto(p, "commit")
  /\ UNCHANGED <<db, table, applied>> /\ Fixed

Copy(p) ==
  /\ pc[p] = "copy"
  /\ db.raw /\ ~Clash(p)
  /\ Begin(p, Registered(Consolidated(db), applied[p]))

Register(p) ==
  /\ pc[p] = "register"
  /\ {8, 9, 10} \ applied[p] # {}
  /\ ~Clash(p)
  /\ Begin(p, Registered(IF 8 \in applied[p] THEN db ELSE Folded(db, "discovery_campaigns"),
                         applied[p]))

\* Everything was applied: connection() commits nothing.
NothingToDo(p) ==
  /\ pc[p] = "register"
  /\ {8, 9, 10} \subseteq applied[p]
  /\ Goto(p, "ready")
  /\ UNCHANGED <<db, table, applied>> /\ NoTx /\ Fixed

Commit(p) ==
  /\ pc[p] = "commit"
  /\ db' = tx
  /\ writer' = Nobody
  /\ Goto(p, "ready")
  /\ UNCHANGED <<tx, table, applied>> /\ Fixed

-----------------------------------------------------------------------------
\* Failures.

Writes == {"rename", "baseline", "drop_links", "create_links", "no_records",
           "copy", "add_columns", "register"}

\* A statement raises: the table, column or row it needs is no longer as the
\* earlier query said, or the lock is held longer than busy_timeout.  The
\* exception leaves the constructor, and with it the process.
StartFails(p) ==
  /\ \/ writer # Nobody /\ pc[p] \in Writes
     \/ pc[p] = "rename" /\ ~CanRename(table[p])
     \/ pc[p] = "baseline" /\ ~BaselineFits
     \/ pc[p] = "drop_links" /\ db.links = "none"
     \/ pc[p] = "copy" /\ (~db.raw \/ Clash(p))
     \/ pc[p] = "add_columns" /\ db.columns
     \/ pc[p] = "register" /\ Clash(p)
  /\ Goto(p, "off")
  /\ UNCHANGED <<db, table, applied>> /\ NoTx /\ Fixed

\* The process is killed: an open transaction is rolled back.
Crash(p) ==
  /\ pc[p] # "off"
  /\ crashes < MaxCrashes
  /\ crashes' = crashes + 1
  /\ Goto(p, "off")
  /\ writer' = IF writer = p THEN Nobody ELSE writer
  /\ UNCHANGED <<db, tx, table, applied, origin, overlap>>

\* The program ends in good order.
Exit(p) ==
  /\ pc[p] = "ready"
  /\ Goto(p, "off")
  /\ UNCHANGED <<db, table, applied>> /\ NoTx /\ Fixed

\* A running program writes to the tables that were legacy-shaped.
AddRow(p, t, r) ==
  /\ pc[p] = "ready"
  /\ db.now[t].shape = "v2"
  /\ Autocommit([db EXCEPT !.now[t].rows = @ \cup {r}])
  /\ r \notin db.now[t].rows \cup db.legacy[t].rows
  /\ UNCHANGED <<pc, table, applied>> /\ Fixed

DeleteRow(p, t, r) ==
  /\ pc[p] = "ready"
  /\ Autocommit([db EXCEPT !.now[t].rows = @ \ {r}])
  /\ UNCHANGED <<pc, table, applied>> /\ Fixed

\* create_campaign.
CreateCampaign(p) == \E r \in NewRow : AddRow(p, "discovery_campaigns", r)

Open(p) ==
  \/ Look(p) \/ Rename(p) \/ Baseline(p) \/ ReadRegistry(p)
  \/ LookAtLinks(p) \/ DropLinks(p) \/ CreateLinks(p) \/ LookForRecords(p)
  \/ DropUnmappable(p) \/ LookAtColumns(p) \/ AddColumns(p)
  \/ Copy(p) \/ Register(p) \/ NothingToDo(p) \/ Commit(p)

Next ==
  \E p \in Process :
    \/ Start(p)
    \/ Open(p)
    \/ StartFails(p)
    \/ Crash(p)
    \/ Exit(p)
    \/ CreateCampaign(p)

Spec == Init /\ [][Next]_vars

-----------------------------------------------------------------------------
\* "a full v1 -> v2 upgrade": wherever a process dies, and whatever two
\* processes do to each other, every v1 record is in raw_records or in leads.
RecordsKept == origin # "fresh" => db.raw \/ db.leads = Record

\* What the program finds, or would find once the file is upgraded: the orphans
\* of an old file are not part of it, those left in a new one would be.  When
\* two processes may start at once the abstraction looks away: a rename decided
\* on an old answer can then hide a table of the v2 shape.
Era == IF overlap \/ 8 \in db.versions THEN "new" ELSE "old"

VisibleRows(t) ==
  IF Era = "new" THEN db.now[t].rows
  ELSE (db.now[t].rows \cup db.legacy[t].rows) \ Unmappable(t)

Visible ==
  IF overlap THEN {} ELSE
    ({"leads"} \X (IF db.raw THEN Record ELSE db.leads)) \cup
    UNION {{t} \X VisibleRows(t) : t \in Table}

Abstract == INSTANCE SchemaUpgrade WITH
  Rows    <- ({"leads"} \cup Table) \X (Record \cup LegacyRow \cup NewRow),
  era     <- Era,
  visible <- Visible

\* The renames, the folds and the copies, each crash and each restart among
\* them, amount to one upgrade that keeps every record, every campaign and the
\* attachments whose record exists, drops the orphans, and adds nothing: "each
\* table is renamed at most once, and a table that already has the v2 shape is
\* left alone".
UpgradeIsAtomic == Abstract!Spec

\* Initialising "must complete the upgrade anyway" and be repeatable: after the
\* last crash the program gets its database open, now and at every restart.
OpensAgain == []<>(\E p \in Process : pc[p] = "ready")
=============================================================================
