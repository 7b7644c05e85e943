------------------------- MODULE AttachmentStore_proofs -------------------------
(***************************************************************************)
(* Proofs about the opening of the database (Startup) and the attachments  *)
(* on top of it, for any number of processes, any rows and any number of   *)
(* crashes.  OpenInv is what the steps of initialise() maintain whatever   *)
(* overlaps; AloneInv adds what they maintain when one process starts at a *)
(* time, which is all the refinement of SchemaUpgrade needs; FileInv is    *)
(* what the requests for attachments add.                                  *)
(***************************************************************************)
EXTENDS AttachmentStore, TLAPS

Versions == {8, 9, 10}
Shape    == {"none", "v1", "v2"}
Row      == LegacyRow \cup NewRow
Tab      == [shape : Shape, rows : SUBSET Row]

\* A table that does not exist holds nothing.
Old == {x \in Tab : x.shape = "none" => x.rows = {}}

Db == [raw      : BOOLEAN,
       leads    : SUBSET Record,
       now      : [Table -> Tab],
       legacy   : [Table -> Old],
       links    : Shape,
       lineage  : {"v1", "v2", "lost"},
       baseline : BOOLEAN,
       columns  : BOOLEAN,
       versions : SUBSET Versions]

\* The steps of initialise(): before the baseline, and after it.
Reconciling == {"look", "rename", "baseline"}
Eighth      == {"links", "drop_links", "create_links", "records", "no_records", "copy"}
Migrating   == {"registry", "columns", "add_columns", "register", "commit"} \cup Eighth
Opening     == Reconciling \cup Migrating

OpenType ==
  /\ db \in Db /\ tx \in Db
  /\ writer \in Process \cup {Nobody}
  /\ pc \in [Process -> {"off", "ready"} \cup Opening]
  /\ table \in [Process -> Table]
  /\ applied \in [Process -> SUBSET Versions]
  /\ overlap \in BOOLEAN

KeptIn(d) == origin # "fresh" => d.raw \/ d.leads = Record

\* The attachments in the table that the running program reads.
New(d) == d.now["lead_attachments"].rows \cap NewRow

\* Nothing was added before migration 8 was recorded, and only a process that
\* has not seen it recorded runs it; the transaction that is open holds all the
\* versions, and no attachment that is not in the file.
OpenInv ==
  /\ OpenType
  /\ KeptIn(db) /\ KeptIn(tx)
  /\ \A p \in Process :
       /\ pc[p] = "commit" => writer = p
       /\ applied[p] \subseteq db.versions
       /\ pc[p] = "ready" => db.versions = Versions
       /\ pc[p] \in Eighth => 8 \notin applied[p]
  /\ writer # Nobody => tx.versions = Versions /\ New(tx) \subseteq New(db)
  /\ 8 \notin db.versions =>
       /\ New(db) = {}
       /\ db.legacy["lead_attachments"].rows \cap NewRow = {}

\* What the program finds, or would find, in the file d.
LeadsSeen(d)    == IF d.raw THEN Record ELSE d.leads
TableSeen(d, t) == IF 8 \in d.versions THEN d.now[t].rows
                   ELSE (d.now[t].rows \cup d.legacy[t].rows) \ Unmappable(t)

\* One process opens the database, and what it found is still so; a table of the
\* v2 shape holds nothing before migration 8 is recorded, so that no orphan can
\* have come into it but by the fold.
OneOpens == \A p, q \in Process : pc[p] \in Opening /\ pc[q] \in Opening => p = q

TablesAlone ==
  \A t \in Table :
    /\ db.now[t].shape = "none" => db.now[t].rows = {}
    /\ 8 \in db.versions => db.now[t].shape = "v2"
    /\ 8 \notin db.versions /\ db.now[t].shape = "v2" => db.now[t].rows = {}
    /\ 8 \notin db.versions /\ ~db.raw => db.now[t].rows = {} /\ db.legacy[t].rows = {}

PlaceAlone(p) ==
  /\ pc[p] = "rename" => db.now[table[p]].shape = "v1"
  /\ pc[p] \in {"look", "rename"} /\ table[p] = "discovery_campaigns" =>
       db.now["lead_attachments"].shape # "v1"
  /\ pc[p] = "baseline" => \A t \in Table : db.now[t].shape # "v1"
  /\ pc[p] \in Migrating => \A t \in Table : db.now[t].shape = "v2"
  /\ pc[p] = "no_records" => ~db.raw
  /\ pc[p] = "register" /\ 8 \notin applied[p] => ~db.raw
  /\ pc[p] \in {"columns", "add_columns"} => 8 \in applied[p]

TxAlone ==
  writer # Nobody =>
    /\ LeadsSeen(tx) = LeadsSeen(db)
    /\ \A t \in Table : tx.now[t].shape = "v2" /\ TableSeen(tx, t) = TableSeen(db, t)

AloneInv == OneOpens /\ TablesAlone /\ TxAlone /\ \A p \in Process : PlaceAlone(p)

\* The requests: an upload owns a fresh name, whose row does not exist yet; its
\* last step has its file; a deletion's last step has no row left.
RequestType ==
  [by : Process, of : NewRow, does : {"upload"}, left : {UploadOrder, <<"row">>}]
    \cup
  [by : Process, of : Row, does : {"delete"}, left : {DeletionOrder, <<"file">>}]

FileInv ==
  /\ requests \subseteq RequestType
  /\ New(db) \subseteq files \cap named
  /\ \A r \in requests :
       /\ pc[r.by] = "ready"
       /\ r.of \in NewRow => r.of \in named
       /\ r.does = "upload" => r.of \notin New(db)
       /\ r.does = "upload" /\ r.left = <<"row">> => r.of \in files
       /\ r.does = "delete" /\ r.left = <<"file">> => r.of \notin New(db)
  /\ \A r, s \in requests : r.does = "upload" /\ s.of = r.of => s = r

StoreInv == OpenInv /\ (~overlap => AloneInv) /\ FileInv

-----------------------------------------------------------------------------
\* The operators on the content of the file.

LEMMA EmptyTables == Absent \in Old /\ Empty \in Old
  BY DEF Absent, Empty, Old, Tab, Shape

\* The baseline adds the tables that do not exist, and changes no other.
LEMMA BaselineEffect ==
  ASSUME NEW d \in Db
  PROVE  /\ WithBaseline(d) \in Db
         /\ WithBaseline(d).raw = d.raw /\ WithBaseline(d).leads = d.leads
         /\ WithBaseline(d).legacy = d.legacy
         /\ WithBaseline(d).versions = d.versions
         /\ \A t \in Table :
              WithBaseline(d).now[t] = IF d.now[t].shape = "none" THEN Empty ELSE d.now[t]
  <1> DEFINE made == [t \in Table |-> IF d.now[t].shape = "none" THEN Empty ELSE d.now[t]]
  <1>1. made \in [Table -> Tab]
    BY EmptyTables DEF Db, Old
  <1>2. WithBaseline(d) = [d EXCEPT !.now = made,
                                    !.links = IF @ = "none" THEN "v2" ELSE @,
                                    !.columns = @ \/ ~d.baseline,
                                    !.baseline = TRUE]
    BY DEF WithBaseline
  <1>3. \A t \in Table : made[t] = IF d.now[t].shape = "none" THEN Empty ELSE d.now[t]
    OBVIOUS
  <1> HIDE DEF made
  <1>. QED  BY <1>1, <1>2, <1>3, ZenonT(60) DEF Db, Shape

\* Folding moves the mappable rows of a legacy table into the v2 table, and
\* nothing else.
LEMMA FoldedEffect ==
  ASSUME NEW d \in Db, NEW t \in Table
  PROVE  /\ Folded(d, t) \in Db
         /\ Folded(d, t).raw = d.raw /\ Folded(d, t).leads = d.leads
         /\ Folded(d, t).versions = d.versions
         /\ \A u \in Table :
              /\ Folded(d, t).now[u].shape = d.now[u].shape
              /\ Folded(d, t).now[u].rows =
                   d.now[u].rows \cup
                     IF u = t THEN d.legacy[t].rows \ Unmappable(t) ELSE {}
              /\ Folded(d, t).legacy[u] = IF u = t THEN Absent ELSE d.legacy[u]
  <1>1. Absent.rows = {} /\ Absent \in Old
    BY EmptyTables DEF Absent
  <1> DEFINE folded == [d.now[t] EXCEPT !.rows = @ \cup (d.legacy[t].rows \ Unmappable(t))]
  <1>2. folded \in Tab /\ folded.shape = d.now[t].shape
        /\ folded.rows = d.now[t].rows \cup (d.legacy[t].rows \ Unmappable(t))
    BY DEF Db, Tab, Old
  <1>3. Folded(d, t) = [d EXCEPT !.now = [@ EXCEPT ![t] = folded],
                                 !.legacy = [@ EXCEPT ![t] = Absent]]
    BY DEF Folded, Db
  <1> HIDE DEF folded
  <1>4. /\ d.now \in [Table -> Tab] /\ d.legacy \in [Table -> Old]
    BY DEF Db
  <1>5. /\ Folded(d, t).now = [d.now EXCEPT ![t] = folded]
        /\ Folded(d, t).legacy = [d.legacy EXCEPT ![t] = Absent]
        /\ Folded(d, t).raw = d.raw /\ Folded(d, t).leads = d.leads
        /\ Folded(d, t).versions = d.versions
        /\ Folded(d, t).now \in [Table -> Tab]
        /\ Folded(d, t).legacy \in [Table -> Old]
    BY <1>1, <1>2, <1>3, <1>4 DEF Db
  <1>6. Folded(d, t) \in Db
    BY <1>3, <1>5 DEF Db
  <1>7. \A u \in Table :
          /\ Folded(d, t).now[u] = IF u = t THEN folded ELSE d.now[u]
          /\ Folded(d, t).legacy[u] = IF u = t THEN Absent ELSE d.legacy[u]
    BY <1>4, <1>5
  <1>. QED  BY <1>2, <1>5, <1>6, <1>7

LEMMA ConsolidatedEffect ==
  ASSUME NEW d \in Db
  PROVE  /\ Consolidated(d) \in Db
         /\ Consolidated(d).raw = FALSE /\ Consolidated(d).leads = Record
         /\ Consolidated(d).versions = d.versions
         /\ \A t \in Table :
              /\ Consolidated(d).now[t].shape = d.now[t].shape
              /\ Consolidated(d).now[t].rows =
                   d.now[t].rows \cup (d.legacy[t].rows \ Unmappable(t))
  <1> DEFINE once  == Folded(d, "lead_attachments")
             twice == Folded(once, "discovery_campaigns")
  <1>1. "lead_attachments" \in Table /\ "discovery_campaigns" \in Table
    BY DEF Table
  <1>2. once \in Db /\ twice \in Db
    BY <1>1, FoldedEffect
  <1>3. /\ twice.leads = d.leads /\ twice.versions = d.versions
        /\ \A t \in Table : /\ twice.now[t].shape = d.now[t].shape
                            /\ twice.now[t].rows =
                                 d.now[t].rows \cup (d.legacy[t].rows \ Unmappable(t))
    <2>1. /\ once.leads = d.leads /\ once.versions = d.versions
          /\ \A t \in Table :
               /\ once.now[t].shape = d.now[t].shape
               /\ once.now[t].rows = d.now[t].rows \cup
                    IF t = "lead_attachments" THEN d.legacy[t].rows \ Unmappable(t) ELSE {}
               /\ once.legacy[t] = IF t = "lead_attachments" THEN Absent ELSE d.legacy[t]
      BY <1>1, FoldedEffect, SMTT(30)
    <2>2. /\ twice.leads = once.leads /\ twice.versions = once.versions
          /\ \A t \in Table :
               /\ twice.now[t].shape = once.now[t].shape
               /\ twice.now[t].rows = once.now[t].rows \cup
                    IF t = "discovery_campaigns" THEN once.legacy[t].rows \ Unmappable(t)
                    ELSE {}
      BY <1>1, <1>2, FoldedEffect, SMTT(30)
    <2>. QED  BY <2>1, <2>2 DEF Table
  <1>4. Consolidated(d) = [twice EXCEPT !.leads = @ \cup Record, !.raw = FALSE,
                                        !.links = "v2", !.lineage = "v2"]
    BY DEF Consolidated
  <1> HIDE DEF once, twice
  <1>5. twice.leads \cup Record = Record
    BY <1>2 DEF Db
  <1>6. /\ Consolidated(d).raw = FALSE /\ Consolidated(d).leads = Record
        /\ Consolidated(d).now = twice.now
        /\ Consolidated(d).versions = twice.versions
    BY <1>2, <1>4, <1>5 DEF Db
  <1>7. Consolidated(d) \in Db
    BY <1>2, <1>4, <1>5 DEF Db, Shape
  <1>. QED  BY <1>3, <1>6, <1>7

LEMMA RegisteredEffect ==
  ASSUME NEW d \in Db, NEW done \in SUBSET Versions
  PROVE  /\ Registered(d, done) \in Db
         /\ Registered(d, done).versions = d.versions \cup (Versions \ done)
         /\ Registered(d, done).raw = d.raw /\ Registered(d, done).leads = d.leads
         /\ Registered(d, done).now = d.now /\ Registered(d, done).legacy = d.legacy
  BY DEF Registered, Db, Versions

-----------------------------------------------------------------------------
\* OpenInv.

\* A step of a process that reads, gives up or ends: the file is as it was, and
\* a transaction is at most dropped.
LEMMA OpenReads ==
  ASSUME OpenInv, NEW p \in Process, NEW s \in {"off", "ready"} \cup Opening,
         pc' = [pc EXCEPT ![p] = s], UNCHANGED <<db, tx, origin, overlap>>,
         \/ writer' = writer
         \/ writer' = Nobody /\ writer = p,
         table' \in [Process -> Table],
         NEW v \in {applied[p], {}, db.versions}, applied' = [applied EXCEPT ![p] = v],
         s # "commit",
         s = "ready" => db.versions = Versions,
         s \in Eighth => 8 \notin applied'[p]
  PROVE  OpenInv'
  <1> USE DEF OpenInv
  <1>0. v \in SUBSET Versions /\ v \subseteq db.versions
    BY DEF OpenType, Db
  <1>1. OpenType'
    BY <1>0 DEF OpenType
  <1>2. ASSUME NEW q \in Process
        PROVE  /\ pc'[q] = "commit" => writer' = q
               /\ applied'[q] \subseteq db.versions
               /\ pc'[q] = "ready" => db.versions = Versions
               /\ pc'[q] \in Eighth => 8 \notin applied'[q]
    BY <1>0 DEF OpenType
  <1>. QED  BY <1>1, <1>2 DEF KeptIn, New

\* A statement that autocommits, of a process that goes on to step s.
LEMMA OpenWrites ==
  ASSUME OpenInv, NEW p \in Process, NEW s \in {"off", "ready"} \cup Opening,
         pc' = [pc EXCEPT ![p] = s], writer = Nobody,
         UNCHANGED <<tx, writer, applied, origin, overlap>>,
         table' \in [Process -> Table],
         s # "commit",
         s = "ready" => pc[p] = "ready",
         s \in Eighth => pc[p] \in Eighth,
         db' \in Db, db'.versions = db.versions,
         db'.raw = db.raw, db'.leads = db.leads,
         8 \notin db.versions =>
           /\ New(db') = {}
           /\ db'.legacy["lead_attachments"].rows \cap NewRow = {}
  PROVE  OpenInv'
  <1> USE DEF OpenInv
  <1>1. OpenType'
    BY StartupAssumption DEF OpenType
  <1>2. ASSUME NEW q \in Process
        PROVE  /\ pc'[q] = "commit" => writer' = q
               /\ applied'[q] \subseteq db'.versions
               /\ pc'[q] = "ready" => db'.versions = Versions
               /\ pc'[q] \in Eighth => 8 \notin applied'[q]
    BY DEF OpenType
  <1>3. KeptIn(db)'
    BY DEF KeptIn
  <1>4. KeptIn(tx)'
    BY DEF KeptIn
  <1>5. New(db)' = New(db')
    BY DEF New
  <1>. QED  BY <1>1, <1>2, <1>3, <1>4, <1>5 DEF New

\* What Copy and Register prepare.
LEMMA OpenBegins ==
  ASSUME OpenInv, NEW p \in Process, NEW d \in Db, Begin(p, d),
         KeptIn(d), d.versions = Versions, New(d) \subseteq New(db)
  PROVE  OpenInv'
  <1> USE DEF OpenInv
  <1>0. /\ writer = Nobody /\ writer' = p /\ tx' = d
        /\ pc' = [pc EXCEPT ![p] = "commit"]
        /\ UNCHANGED <<db, table, applied, origin, overlap>>
    BY DEF Begin, Goto, Fixed
  <1>1. OpenType'
    BY <1>0 DEF OpenType, Opening, Migrating
  <1>2. \A q \in Process : pc[q] # "commit"
    BY <1>0, StartupAssumption DEF OpenType
  <1>3. ASSUME NEW q \in Process
        PROVE  /\ pc'[q] = "commit" => writer' = q
               /\ applied'[q] \subseteq db'.versions
               /\ pc'[q] = "ready" => db'.versions = Versions
               /\ pc'[q] \in Eighth => 8 \notin applied'[q]
    BY <1>0, <1>2 DEF OpenType, Eighth
  <1>4. KeptIn(db)' /\ KeptIn(tx)'
    BY <1>0 DEF KeptIn
  <1>5. /\ tx'.versions = Versions /\ New(tx)' \subseteq New(db)'
        /\ New(db)' = New(db)
    BY <1>0 DEF New
  <1>. QED  BY <1>0, <1>1, <1>3, <1>4, <1>5

LEMMA OpenCommits ==
  ASSUME OpenInv, NEW p \in Process, Commit(p)
  PROVE  OpenInv'
  <1> USE DEF OpenInv
  <1>0. /\ writer = p /\ writer' = Nobody /\ db' = tx
        /\ pc' = [pc EXCEPT ![p] = "ready"]
        /\ UNCHANGED <<tx, table, applied, origin, overlap>>
        /\ writer # Nobody
    BY StartupAssumption DEF Commit, Goto, Fixed
  <1>1. OpenType'
    BY <1>0 DEF OpenType
  <1>2. db'.versions = Versions
    BY <1>0
  <1>3. ASSUME NEW q \in Process
        PROVE  /\ pc'[q] = "commit" => writer' = q
               /\ applied'[q] \subseteq db'.versions
               /\ pc'[q] = "ready" => db'.versions = Versions
               /\ pc'[q] \in Eighth => 8 \notin applied'[q]
    BY <1>0, <1>2 DEF OpenType, Eighth
  <1>4. KeptIn(db)' /\ KeptIn(tx)'
    BY <1>0 DEF KeptIn
  <1>5. 8 \in db'.versions
    BY <1>2 DEF Versions
  <1>. QED  BY <1>0, <1>1, <1>3, <1>4, <1>5

\* What can happen to the file: the steps of Startup, and the rows that the
\* requests for attachments add and delete.
DbNext ==
  \E p \in Process :
    \/ Start(p) \/ Open(p) \/ StartFails(p) \/ Crash(p) \/ Exit(p)
    \/ \E t \in Table, r \in Row : AddRow(p, t, r) \/ DeleteRow(p, t, r)

LEMMA NextIsDbNext == Next => DbNext
  BY DEF Next, DbNext, CreateCampaign, Row, Table

\* The statements that autocommit: what each does to the file.
LEMMA OpenAutocommits ==
  ASSUME OpenInv, NEW p \in Process,
         \/ Rename(p) \/ Baseline(p) \/ DropLinks(p) \/ CreateLinks(p)
         \/ DropUnmappable(p) \/ AddColumns(p)
  PROVE  OpenInv' /\ New(db') \subseteq New(db)
  <1>0. /\ db \in Db /\ "lead_attachments" \in Table /\ table[p] \in Table
        /\ table \in [Process -> Table]
        /\ db.now \in [Table -> Tab] /\ db.legacy \in [Table -> Old]
        /\ Absent \in Old /\ Empty \in Old /\ Absent.rows = {} /\ Empty.rows = {}
        /\ Old \subseteq Tab
    BY EmptyTables DEF OpenInv, OpenType, Db, Table, Absent, Empty, Old
  <1>a. /\ {"look", "baseline", "registry", "links", "create_links", "records",
            "register"} \subseteq {"off", "ready"} \cup Opening
        /\ {"create_links", "records"} \subseteq Eighth
    BY DEF Opening, Reconciling, Migrating, Eighth
  <1>b. {"drop_links", "create_links"} \subseteq Eighth
        /\ {"look", "baseline", "registry", "register"} \cap Eighth = {}
    BY DEF Eighth
  <1>1. CASE Rename(p)
    <2> DEFINE t == table[p]
               d == [db EXCEPT !.legacy[t] = db.now[t], !.now[t] = Absent]
    <2>1. /\ writer = Nobody /\ db' = d
          /\ UNCHANGED <<tx, writer, applied, origin, overlap>>
          /\ db.now[t].shape # "none" /\ db.legacy[t].shape = "none"
          /\ NextTable(p)
      BY <1>1 DEF Rename, Autocommit, NoTx, Fixed, CanRename
    <2>2. /\ db.now[t] \in Old
          /\ d.legacy = [db.legacy EXCEPT ![t] = db.now[t]]
          /\ d.now = [db.now EXCEPT ![t] = Absent]
          /\ d.raw = db.raw /\ d.leads = db.leads /\ d.versions = db.versions
      BY <1>0, <2>1 DEF Db, Old
    <2>3. d \in Db
      BY <1>0, <2>2 DEF Db
    <2>4. /\ New(d) \subseteq New(db)
          /\ d.legacy["lead_attachments"].rows \cap NewRow \subseteq
               New(db) \cup (db.legacy["lead_attachments"].rows \cap NewRow)
      BY <1>0, <2>2 DEF New
    <2>5. PICK s \in {"look", "baseline"} :
            pc' = [pc EXCEPT ![p] = s] /\ table' \in [Process -> Table]
      BY <1>0, <2>1 DEF NextTable, Goto, Table
    <2> HIDE DEF d
    <2>6. 8 \notin db.versions =>
            New(d) = {} /\ d.legacy["lead_attachments"].rows \cap NewRow = {}
      BY <2>4 DEF OpenInv
    <2>7. /\ s \in {"off", "ready"} \cup Opening
          /\ s # "commit" /\ s # "ready" /\ s \notin Eighth
      BY <1>a, <1>b
    <2>. QED  BY <2>1, <2>2, <2>3, <2>4, <2>5, <2>6, <2>7, OpenWrites
  <1>2. CASE Baseline(p)
    <2>1. /\ writer = Nobody /\ db' = WithBaseline(db)
          /\ UNCHANGED <<tx, writer, applied, table, origin, overlap>>
          /\ pc' = [pc EXCEPT ![p] = "registry"]
      BY <1>2 DEF Baseline, Autocommit, NoTx, Fixed, Goto
    <2>2. /\ WithBaseline(db) \in Db /\ WithBaseline(db).raw = db.raw
          /\ WithBaseline(db).leads = db.leads
          /\ WithBaseline(db).versions = db.versions
          /\ WithBaseline(db).legacy = db.legacy
          /\ New(WithBaseline(db)) \subseteq New(db)
      BY <1>0, BaselineEffect DEF New
    <2>. QED  BY <1>0, <1>a, <1>b, <2>1, <2>2, OpenWrites DEF OpenInv
  <1>3. ASSUME NEW s \in {"create_links", "records"},
               DropLinks(p) \/ CreateLinks(p), pc' = [pc EXCEPT ![p] = s]
        PROVE  OpenInv' /\ New(db') \subseteq New(db)
    <2>1. /\ writer = Nobody /\ pc[p] \in Eighth
          /\ UNCHANGED <<tx, writer, applied, table, origin, overlap>>
      BY <1>3, <1>b DEF DropLinks, CreateLinks, Autocommit, NoTx, Fixed
    <2>3. /\ db' \in Db /\ db'.raw = db.raw /\ db'.leads = db.leads
          /\ db'.versions = db.versions
          /\ db'.now = db.now /\ db'.legacy = db.legacy
      <3>1. CASE DropLinks(p)
        <4>1. PICK v \in {"v1", "v2", "lost"} : db' = [db EXCEPT !.links = "none", !.lineage = v]
          BY <1>0, <3>1 DEF DropLinks, Autocommit, Db
        <4>. QED  BY <1>0, <4>1 DEF Db, Shape
      <3>2. CASE CreateLinks(p)
        <4>1. PICK l \in Shape : db' = [db EXCEPT !.links = l]
          BY <1>0, <3>2 DEF CreateLinks, Autocommit, Db, Shape
        <4>. QED  BY <1>0, <4>1 DEF Db
      <3>. QED  BY <1>3, <3>1, <3>2
    <2>4. 8 \notin db.versions =>
            New(db') = {} /\ db'.legacy["lead_attachments"].rows \cap NewRow = {}
      BY <2>3 DEF OpenInv, New
    <2>5. s \in {"off", "ready"} \cup Opening /\ s # "commit" /\ s # "ready"
      BY <1>a
    <2>. QED  BY <1>0, <1>3, <2>1, <2>3, <2>4, <2>5, OpenWrites DEF New
  <1>4. CASE DropUnmappable(p)
    <2> DEFINE d == [db EXCEPT !.legacy["lead_attachments"] = Absent]
    <2>1. /\ writer = Nobody /\ db' = d
          /\ UNCHANGED <<tx, writer, applied, table, origin, overlap>>
          /\ pc' = [pc EXCEPT ![p] = "register"]
      BY <1>4 DEF DropUnmappable, Autocommit, NoTx, Fixed, Goto
    <2>2. /\ d.legacy = [db.legacy EXCEPT !["lead_attachments"] = Absent]
          /\ d.now = db.now
          /\ d.raw = db.raw /\ d.leads = db.leads /\ d.versions = db.versions
      BY <1>0 DEF Db
    <2>3. d \in Db
      BY <1>0, <2>2 DEF Db
    <2>4. New(d) = New(db) /\ d.legacy["lead_attachments"].rows \cap NewRow = {}
      BY <1>0, <2>2 DEF New
    <2> HIDE DEF d
    <2>. QED  BY <1>0, <1>a, <1>b, <2>1, <2>2, <2>3, <2>4, OpenWrites DEF OpenInv
  <1>5. CASE AddColumns(p)
    <2>1. /\ writer = Nobody /\ db' = [db EXCEPT !.columns = TRUE]
          /\ UNCHANGED <<tx, writer, applied, table, origin, overlap>>
          /\ pc' = [pc EXCEPT ![p] = "register"]
      BY <1>5 DEF AddColumns, Autocommit, NoTx, Fixed, Goto
    <2>2. /\ db' \in Db /\ db'.raw = db.raw /\ db'.leads = db.leads
          /\ db'.versions = db.versions
          /\ db'.now = db.now /\ db'.legacy = db.legacy
      BY <1>0, <2>1 DEF Db
    <2>. QED  BY <1>0, <1>a, <1>b, <2>1, <2>2, OpenWrites DEF OpenInv, New
  <1>6. CASE DropLinks(p)
    BY <1>3, <1>6 DEF DropLinks, Goto
  <1>7. CASE CreateLinks(p)
    BY <1>3, <1>7 DEF CreateLinks, Goto
  <1>. QED  BY <1>1, <1>2, <1>4, <1>5, <1>6, <1>7

\* The rows of a running program.  An attachment needs a process whose
\* database is open, and then migration 8 is recorded.
LEMMA OpenRows ==
  ASSUME OpenInv, NEW p \in Process, NEW t \in Table, NEW r \in Row,
         AddRow(p, t, r) \/ DeleteRow(p, t, r)
  PROVE  /\ OpenInv'
         /\ db'.legacy = db.legacy /\ db'.raw = db.raw /\ db'.leads = db.leads
         /\ 8 \in db.versions /\ db'.versions = db.versions
         /\ \A u \in Table : u # t => db'.now[u] = db.now[u]
         /\ db'.now[t].shape = db.now[t].shape
         /\ db'.now[t].rows \in {db.now[t].rows \cup {r}, db.now[t].rows \ {r}}
         /\ AddRow(p, t, r) => db.now[t].shape = "v2"
         /\ DeleteRow(p, t, r) => db'.now[t].rows = db.now[t].rows \ {r}
  <1>0. /\ db \in Db /\ db.now \in [Table -> Tab] /\ db.now[t] \in Tab
        /\ pc \in [Process -> {"off", "ready"} \cup Opening]
        /\ table \in [Process -> Table]
    BY DEF OpenInv, OpenType, Db
  <1>1. /\ pc[p] = "ready" /\ writer = Nobody
        /\ UNCHANGED <<tx, writer, pc, table, applied, origin, overlap>>
    BY DEF AddRow, DeleteRow, Autocommit, NoTx, Fixed
  <1>2. 8 \in db.versions
    BY <1>1 DEF OpenInv, Versions
  <1>3. PICK new \in SUBSET Row :
          /\ db' = [db EXCEPT !.now[t].rows = new]
          /\ new \in {db.now[t].rows \cup {r}, db.now[t].rows \ {r}}
          /\ DeleteRow(p, t, r) => new = db.now[t].rows \ {r}
    <2>1. db.now[t].rows \subseteq Row
      BY <1>0 DEF Tab
    <2>2. CASE AddRow(p, t, r)
      <3>1. db' = [db EXCEPT !.now[t].rows = db.now[t].rows \cup {r}]
        BY <2>2, <1>0 DEF AddRow, Autocommit, Db
      <3>2. DeleteRow(p, t, r) => db' = [db EXCEPT !.now[t].rows = db.now[t].rows \ {r}]
        BY <1>0 DEF DeleteRow, Autocommit, Db
      <3>. QED  BY <2>1, <3>1, <3>2, ZenonT(60)
    <2>3. CASE DeleteRow(p, t, r)
      <3>1. db' = [db EXCEPT !.now[t].rows = db.now[t].rows \ {r}]
        BY <2>3, <1>0 DEF DeleteRow, Autocommit, Db
      <3>. QED  BY <2>1, <3>1
    <2>. QED  BY <2>2, <2>3
  <1> DEFINE tab == [db.now[t] EXCEPT !.rows = new]
  <1>4. tab \in Tab /\ tab.shape = db.now[t].shape /\ tab.rows = new
    BY <1>0, <1>3 DEF Tab
  <1>5. db' = [db EXCEPT !.now = [@ EXCEPT ![t] = tab]]
    BY <1>3
  <1> HIDE DEF tab
  <1>6. /\ db'.now = [db.now EXCEPT ![t] = tab] /\ db'.legacy = db.legacy
        /\ db'.raw = db.raw /\ db'.leads = db.leads /\ db'.versions = db.versions
    BY <1>0, <1>5 DEF Db
  <1>7. db' \in Db
    BY <1>0, <1>4, <1>5, <1>6 DEF Db
  <1>8. OpenInv'
    <2>1. pc' = [pc EXCEPT ![p] = pc[p]] /\ pc[p] \in {"off", "ready"} \cup Opening
      BY <1>0, <1>1
    <2>2. "ready" \notin Eighth
      BY DEF Eighth
    <2>. QED  BY <1>0, <1>1, <1>2, <1>6, <1>7, <2>1, <2>2, OpenWrites
  <1>9. AddRow(p, t, r) => db.now[t].shape = "v2"
    BY DEF AddRow
  <1>. QED  BY <1>0, <1>2, <1>3, <1>4, <1>6, <1>8, <1>9

\* The transactions: what Copy and Register will commit.
Prepared(p, d) ==
  \/ /\ 8 \notin db.versions /\ db.raw
     /\ d = Registered(Consolidated(db), applied[p])
  \/ /\ 8 \notin db.versions /\ 8 \notin applied[p] /\ pc[p] = "register"
     /\ d = Registered(Folded(db, "discovery_campaigns"), applied[p])
  \/ /\ 8 \in db.versions
     /\ d = Registered(db, applied[p])

LEMMA CopyPrepares ==
  ASSUME OpenInv, NEW p \in Process, Copy(p) \/ Register(p)
  PROVE  \E d \in Db :
           /\ Begin(p, d) /\ Prepared(p, d)
           /\ KeptIn(d) /\ d.versions = Versions /\ New(d) \subseteq New(db)
  <1>1. /\ db \in Db /\ applied[p] \in SUBSET Versions /\ applied[p] \subseteq db.versions
        /\ db.versions \in SUBSET Versions
        /\ "lead_attachments" \in Table /\ "discovery_campaigns" \in Table
        /\ "lead_attachments" # "discovery_campaigns"
    BY DEF OpenInv, OpenType, Db, Table
  <1>2. db.versions \cup (Versions \ applied[p]) = Versions
    BY <1>1
  <1>3. ASSUME NEW d \in Db, d.versions = db.versions,
               Begin(p, Registered(d, applied[p])),
               Prepared(p, Registered(d, applied[p])),
               KeptIn(d), New(d) \subseteq New(db)
        PROVE  \E e \in Db :
                 /\ Begin(p, e) /\ Prepared(p, e)
                 /\ KeptIn(e) /\ e.versions = Versions /\ New(e) \subseteq New(db)
    <2>1. LET e == Registered(d, applied[p])
          IN  e \in Db /\ KeptIn(e) /\ e.versions = Versions /\ New(e) \subseteq New(db)
      BY <1>1, <1>2, <1>3, RegisteredEffect DEF KeptIn, New
    <2>. QED  BY <1>3, <2>1
  <1>4. CASE Copy(p)
    <2>1. /\ Begin(p, Registered(Consolidated(db), applied[p]))
          /\ pc[p] = "copy" /\ db.raw /\ ~Clash(p)
      BY <1>4 DEF Copy
    <2>2. 8 \notin db.versions
      BY <2>1 DEF OpenInv, Eighth, Clash
    <2>3. /\ Consolidated(db) \in Db /\ Consolidated(db).versions = db.versions
          /\ KeptIn(Consolidated(db)) /\ New(Consolidated(db)) = {}
      BY <1>1, <2>2, ConsolidatedEffect, ZenonT(60) DEF KeptIn, New, OpenInv
    <2>. QED  BY <1>3, <2>1, <2>2, <2>3 DEF Prepared
  <1>5. CASE Register(p)
    <2>1. Begin(p, Registered(IF 8 \in applied[p] THEN db
                              ELSE Folded(db, "discovery_campaigns"), applied[p]))
          /\ pc[p] = "register" /\ (8 \notin applied[p] => 8 \notin db.versions)
      BY <1>5 DEF Register, Clash
    <2>2. CASE 8 \in applied[p]
      BY <1>1, <1>3, <2>1, <2>2 DEF Prepared, OpenInv
    <2>3. CASE 8 \notin applied[p]
      <3> DEFINE d == Folded(db, "discovery_campaigns")
      <3>1. /\ d \in Db /\ d.versions = db.versions
            /\ KeptIn(d) /\ New(d) \subseteq New(db)
        BY <1>1, FoldedEffect DEF KeptIn, New, OpenInv
      <3>. QED  BY <1>3, <2>1, <2>3, <3>1 DEF Prepared
    <2>. QED  BY <2>2, <2>3
  <1>. QED  BY <1>4, <1>5

\* The steps that only read, or end a process.
LEMMA OpenOthers ==
  ASSUME OpenInv, NEW p \in Process,
         \/ Start(p) \/ Look(p) \/ ReadRegistry(p) \/ LookAtLinks(p)
         \/ LookForRecords(p) \/ LookAtColumns(p) \/ NothingToDo(p)
         \/ StartFails(p) \/ Crash(p) \/ Exit(p)
  PROVE  /\ OpenInv'
         /\ UNCHANGED <<db, tx, origin, overlap>>
  <1>0. /\ table \in [Process -> Table] /\ applied \in [Process -> SUBSET Versions]
        /\ applied = [applied EXCEPT ![p] = applied[p]]
        /\ applied[p] \subseteq db.versions /\ db.versions \subseteq Versions
        /\ pc[p] \in Eighth => 8 \notin applied[p]
    BY DEF OpenInv, OpenType, Db
  <1>1. /\ {"off", "ready", "look", "rename", "baseline", "links", "columns", "register",
            "drop_links", "create_links", "copy", "no_records", "records",
            "add_columns"} \subseteq {"off", "ready"} \cup Opening
        /\ {"look", "rename", "baseline", "off", "ready", "register", "columns",
            "add_columns"} \cap Eighth = {}
        /\ {"links", "records"} \subseteq Eighth
    BY DEF Opening, Reconciling, Migrating, Eighth
  <1>2. UNCHANGED <<db, tx, origin, overlap>>
    BY DEF Start, Look, ReadRegistry, LookAtLinks, LookForRecords, LookAtColumns,
           NothingToDo, StartFails, Crash, Exit, NoTx, Fixed
  <1>3. writer' = writer \/ (writer' = Nobody /\ writer = p)
    BY DEF Start, Look, ReadRegistry, LookAtLinks, LookForRecords, LookAtColumns,
           NothingToDo, StartFails, Crash, Exit, NoTx
  <1>4. CASE Start(p)
    <2>1. /\ pc' = [pc EXCEPT ![p] = "look"] /\ applied' = [applied EXCEPT ![p] = {}]
          /\ table' \in [Process -> Table]
      BY <1>0, <1>4 DEF Start, Goto, Table
    <2>. QED  BY <1>1, <1>2, <1>3, <2>1, OpenReads
  <1>5. CASE Look(p)
    <2>1. PICK s \in {"look", "rename", "baseline"} :
            pc' = [pc EXCEPT ![p] = s] /\ applied' = applied /\ table' \in [Process -> Table]
      BY <1>0, <1>5 DEF Look, NextTable, Goto, Table
    <2>. QED  BY <1>0, <1>1, <1>2, <1>3, <2>1, OpenReads
  <1>6. CASE ReadRegistry(p)
    <2>1. PICK s \in {"links", "columns", "register"} :
            /\ pc' = [pc EXCEPT ![p] = s] /\ applied' = [applied EXCEPT ![p] = db.versions]
            /\ table' = table /\ (s = "links" => 8 \notin db.versions)
      BY <1>6 DEF ReadRegistry, Goto
    <2>2. applied'[p] = db.versions
      BY <1>0, <2>1
    <2>. QED  BY <1>0, <1>1, <1>2, <1>3, <2>1, <2>2, OpenReads
  <1>7. CASE LookAtLinks(p) \/ LookForRecords(p)
    <2>1. PICK s \in {"drop_links", "create_links", "copy", "no_records"} :
            /\ pc' = [pc EXCEPT ![p] = s] /\ UNCHANGED <<table, applied>>
            /\ pc[p] \in {"links", "records"}
      BY <1>7 DEF LookAtLinks, LookForRecords, Goto
    <2>. QED  BY <1>0, <1>1, <1>2, <1>3, <2>1, OpenReads
  <1>8. CASE LookAtColumns(p)
    <2>1. PICK s \in {"register", "add_columns"} :
            pc' = [pc EXCEPT ![p] = s] /\ UNCHANGED <<table, applied>>
      BY <1>8 DEF LookAtColumns, Goto
    <2>. QED  BY <1>0, <1>1, <1>2, <1>3, <2>1, OpenReads
  <1>9. CASE NothingToDo(p)
    <2>1. /\ pc' = [pc EXCEPT ![p] = "ready"] /\ UNCHANGED <<table, applied>>
          /\ Versions \subseteq applied[p]
      BY <1>9 DEF NothingToDo, Goto, Versions
    <2>2. db.versions = Versions
      BY <1>0, <2>1
    <2>. QED  BY <1>0, <1>1, <1>2, <1>3, <2>1, <2>2, OpenReads
  <1>10. CASE StartFails(p) \/ Crash(p) \/ Exit(p)
    <2>1. pc' = [pc EXCEPT ![p] = "off"] /\ UNCHANGED <<table, applied>>
      BY <1>10 DEF StartFails, Crash, Exit, Goto
    <2>. QED  BY <1>0, <1>1, <1>2, <1>3, <2>1, OpenReads
  <1>. QED  BY <1>2, <1>4, <1>5, <1>6, <1>7, <1>8, <1>9, <1>10

LEMMA OpenStutters == OpenInv /\ UNCHANGED vars => OpenInv'
  BY DEF OpenInv, OpenType, KeptIn, New, vars

LEMMA OpenInvStep ==
  ASSUME OpenInv, [DbNext]_vars
  PROVE  OpenInv'
  <1>1. ASSUME OpenInv, NEW p \in Process, Open(p) PROVE OpenInv'
    <2>1. CASE Copy(p) \/ Register(p)
      BY <1>1, <2>1, CopyPrepares, OpenBegins
    <2>. QED  BY <1>1, <2>1, OpenCommits, OpenAutocommits, OpenOthers DEF Open
  <1>2. ASSUME OpenInv, NEW p \in Process, Start(p) \/ StartFails(p) \/ Crash(p) \/ Exit(p)
        PROVE  OpenInv'
    BY <1>2, OpenOthers
  <1>. QED  BY <1>1, <1>2, OpenRows, OpenStutters DEF DbNext

LEMMA OpenStart == Init => OpenInv
  <1> SUFFICES ASSUME Init PROVE OpenInv
    OBVIOUS
  <1>1. db = OriginDb(origin) /\ tx = db /\ writer = Nobody /\ origin \in Origin
    BY StartupAssumption DEF Init
  <1>2. /\ db \in Db
        /\ 8 \notin db.versions => \A t \in Table : db.now[t].rows \cap NewRow = {}
                                   /\ db.legacy[t].rows = {}
    BY <1>1, StartupAssumption
    DEF OriginDb, Db, Old, Tab, Shape, Row, Absent, Empty, Origin, Versions
  <1>3. KeptIn(db) /\ KeptIn(tx)
    BY <1>1 DEF KeptIn, OriginDb, Origin
  <1>4. OpenType
    BY <1>1, <1>2, StartupAssumption DEF Init, OpenType, Table
  <1>. QED
    BY <1>1, <1>2, <1>3, <1>4 DEF OpenInv, Init, New, Table, Eighth

\* Whatever an opening of the database does, it brings no attachment back.
LEMMA OpeningAddsNoAttachment ==
  ASSUME OpenInv, Next
  PROVE  New(db') \subseteq New(db)
  <1>1. PICK p \in Process :
          Start(p) \/ Open(p) \/ StartFails(p) \/ Crash(p) \/ Exit(p) \/ CreateCampaign(p)
    BY DEF Next
  <1>2. CASE Copy(p) \/ Register(p)
    <2>1. db' = db
      BY <1>2 DEF Copy, Register, Begin
    <2>. QED  BY <2>1 DEF New
  <1>3. CASE Commit(p)
    BY <1>3, StartupAssumption DEF Commit, OpenInv, New
  <1>4. CASE CreateCampaign(p)
    <2>1. PICK r \in NewRow : AddRow(p, "discovery_campaigns", r)
      BY <1>4 DEF CreateCampaign
    <2>2. db'.now["lead_attachments"] = db.now["lead_attachments"]
      BY <2>1, OpenRows DEF Row, Table
    <2>. QED  BY <2>2 DEF New
  <1>5. CASE \/ Start(p) \/ Look(p) \/ ReadRegistry(p) \/ LookAtLinks(p)
             \/ LookForRecords(p) \/ LookAtColumns(p) \/ NothingToDo(p)
             \/ StartFails(p) \/ Crash(p) \/ Exit(p)
    <2>1. db' = db
      BY <1>5, OpenOthers
    <2>. QED  BY <2>1 DEF New
  <1>6. CASE \/ Rename(p) \/ Baseline(p) \/ DropLinks(p) \/ CreateLinks(p)
             \/ DropUnmappable(p) \/ AddColumns(p)
    BY <1>6, OpenAutocommits
  <1>. QED  BY <1>1, <1>2, <1>3, <1>4, <1>5, <1>6 DEF Open

-----------------------------------------------------------------------------
\* FileInv.

LEMMA Orders ==
  /\ UploadOrder # <<"row">> /\ Head(UploadOrder) = "file" /\ Len(UploadOrder) = 2
  /\ Tail(UploadOrder) = <<"row">>
  /\ DeletionOrder # <<"file">> /\ Head(DeletionOrder) = "row" /\ Len(DeletionOrder) = 2
  /\ Tail(DeletionOrder) = <<"file">>
  /\ \A x : Head(<<x>>) = x /\ Len(<<x>>) = 1
  BY DEF UploadOrder, DeletionOrder

\* The fields of a request, and of what is left of it after a step.
LEMMA RequestFields ==
  ASSUME NEW r \in RequestType
  PROVE  /\ r.by \in Process /\ r.of \in Row
         /\ \/ r.does = "upload" /\ r.of \in NewRow /\ r.left \in {UploadOrder, <<"row">>}
            \/ r.does = "delete" /\ r.left \in {DeletionOrder, <<"file">>}
  BY DEF RequestType, Row

\* A fresh name has neither a row nor a request.
LEMMA UploadBegins ==
  ASSUME FileInv, NEW p \in Process, NEW a \in NewRow, BeginUpload(p, a)
  PROVE  FileInv'
  <1> USE DEF FileInv
  <1> DEFINE r == Request(p, a, "upload", UploadOrder)
  <1>1. /\ pc[p] = "ready" /\ a \notin named /\ named' = named \cup {a}
        /\ requests' = requests \cup {r} /\ files' = files
        /\ db' = db /\ pc' = pc
    BY DEF BeginUpload, vars
  <1>2. /\ r \in RequestType /\ r.by = p /\ r.of = a /\ r.does = "upload"
        /\ r.left = UploadOrder
    BY DEF Request, RequestType
  <1> HIDE DEF r
  <1>3. New(db)' = New(db) /\ a \notin New(db)
    BY <1>1 DEF New
  <1>4. \A s \in requests : s.of # a
    BY <1>1
  <1>5. requests' \subseteq RequestType
    BY <1>1, <1>2
  <1>6. ASSUME NEW s \in requests'
        PROVE  /\ pc'[s.by] = "ready"
               /\ s.of \in NewRow => s.of \in named'
               /\ s.does = "upload" => s.of \notin New(db)'
               /\ s.does = "upload" /\ s.left = <<"row">> => s.of \in files'
               /\ s.does = "delete" /\ s.left = <<"file">> => s.of \notin New(db)'
    <2>1. CASE s = r
      BY <1>1, <1>2, <1>3, <2>1, Orders
    <2>2. CASE s \in requests
      BY <1>1, <1>3, <2>2
    <2>. QED  BY <1>1, <2>1, <2>2
  <1>7. \A s, u \in requests' : s.does = "upload" /\ u.of = s.of => u = s
    BY <1>1, <1>2, <1>4
  <1>. QED  BY <1>1, <1>3, <1>5, <1>6, <1>7

\* What is to be deleted has a row, so that nothing uploads it.
LEMMA DeletionBegins ==
  ASSUME OpenInv, FileInv, NEW p \in Process, NEW a \in Row, BeginDeletion(p, a)
  PROVE  FileInv'
  <1> USE DEF FileInv
  <1> DEFINE r == Request(p, a, "delete", DeletionOrder)
  <1>1. /\ pc[p] = "ready" /\ named' = named
        /\ requests' = requests \cup {r} /\ files' = files
        /\ db' = db /\ pc' = pc
        /\ a \in NewRow => a \in New(db)
    BY DEF BeginDeletion, vars, New, Rows
  <1>2. /\ r \in RequestType /\ r.by = p /\ r.of = a /\ r.does = "delete"
        /\ r.left = DeletionOrder
    BY DEF Request, RequestType
  <1> HIDE DEF r
  <1>3. New(db)' = New(db)
    BY <1>1 DEF New
  <1>4. \A s \in requests : s.does = "upload" => s.of # a
    BY <1>1, RequestFields
  <1>5. requests' \subseteq RequestType
    BY <1>1, <1>2
  <1>6. ASSUME NEW s \in requests'
        PROVE  /\ pc'[s.by] = "ready"
               /\ s.of \in NewRow => s.of \in named'
               /\ s.does = "upload" => s.of \notin New(db)'
               /\ s.does = "upload" /\ s.left = <<"row">> => s.of \in files'
               /\ s.does = "delete" /\ s.left = <<"file">> => s.of \notin New(db)'
    <2>1. CASE s = r
      BY <1>1, <1>2, <1>3, <2>1, Orders
    <2>2. CASE s \in requests
      BY <1>1, <1>3, <2>2
    <2>. QED  BY <1>1, <2>1, <2>2
  <1>7. \A s, u \in requests' : s.does = "upload" /\ u.of = s.of => u = s
    BY <1>1, <1>2, <1>4
  <1>. QED  BY <1>1, <1>3, <1>5, <1>6, <1>7

\* A request that is dropped or answered leaves the others as they were; so do
\* the requests of a process that ends.
LEMMA RequestsEnd ==
  ASSUME FileInv, requests' \subseteq requests, files' = files, named' = named,
         New(db') \subseteq New(db), \A r \in requests' : pc'[r.by] = "ready"
  PROVE  FileInv'
  <1>1. New(db)' \subseteq New(db)
    BY DEF New
  <1>. QED  BY <1>1 DEF FileInv

\* The two statements of an upload.
LEMMA UploadProceeds ==
  ASSUME OpenInv, FileInv, NEW r \in requests, r.does = "upload", Proceed(r)
  PROVE  FileInv'
  <1> USE DEF FileInv
  <1>0. /\ r.by \in Process /\ r.of \in NewRow /\ r.of \in Row
        /\ r.left \in {UploadOrder, <<"row">>}
        /\ r.of \in named /\ r.of \notin New(db)
        /\ named' = named
    BY RequestFields DEF Proceed
  <1>1. CASE r.left = UploadOrder
    <2> DEFINE s == [r EXCEPT !.left = <<"row">>]
    <2>1. /\ requests' = (requests \ {r}) \cup {s}
          /\ files' = files \cup {r.of} /\ db' = db /\ pc' = pc
      <3> HIDE DEF FileInv
      <3>1. /\ Head(r.left) = "file" /\ Len(r.left) = 2
            /\ [r EXCEPT !.left = Tail(@)] = s
        BY <1>1, Orders
      <3>. QED  BY <3>1 DEF Proceed, vars
    <2>2. /\ s \in RequestType /\ s.by = r.by /\ s.of = r.of /\ s.does = "upload"
          /\ s.left = <<"row">>
      BY <1>0 DEF RequestType
    <2> HIDE DEF s
    <2>3. New(db)' = New(db)
      BY <2>1 DEF New
    <2>4. \A u \in requests : u.of = r.of => u = r
      OBVIOUS
    <2>5. ASSUME NEW u \in requests'
          PROVE  /\ pc'[u.by] = "ready"
                 /\ u.of \in NewRow => u.of \in named'
                 /\ u.does = "upload" => u.of \notin New(db)'
                 /\ u.does = "upload" /\ u.left = <<"row">> => u.of \in files'
                 /\ u.does = "delete" /\ u.left = <<"file">> => u.of \notin New(db)'
      <3>1. CASE u = s
        BY <1>0, <2>1, <2>2, <2>3, <3>1
      <3>2. CASE u \in requests
        BY <1>0, <2>1, <2>3, <3>2
      <3>. QED  BY <2>1, <3>1, <3>2
    <2>6. \A u, v \in requests' : u.does = "upload" /\ v.of = u.of => v = u
      BY <2>1, <2>2, <2>4
    <2>7. requests' \subseteq RequestType /\ New(db)' \subseteq files' \cap named'
      BY <1>0, <2>1, <2>2, <2>3
    <2>. QED  BY <2>5, <2>6, <2>7
  <1>2. CASE r.left = <<"row">>
    <2>1. /\ requests' = requests \ {r} /\ files' = files
          /\ AddRow(r.by, "lead_attachments", r.of)
      BY <1>2, Orders, SMTT(30) DEF Proceed
    <2>2. /\ db'.now["lead_attachments"].rows \in
               {db.now["lead_attachments"].rows \cup {r.of},
                db.now["lead_attachments"].rows \ {r.of}}
          /\ pc' = pc
      BY <1>0, <2>1, OpenRows DEF Table, AddRow
    <2>3. New(db)' \subseteq New(db) \cup {r.of}
      BY <2>2 DEF New
    <2>4. r.of \in files /\ \A u \in requests' : u.of # r.of /\ u \in requests
      BY <1>2, <2>1
    <2>5. ASSUME NEW u \in requests'
          PROVE  /\ pc'[u.by] = "ready"
                 /\ u.of \in NewRow => u.of \in named'
                 /\ u.does = "upload" => u.of \notin New(db)'
                 /\ u.does = "upload" /\ u.left = <<"row">> => u.of \in files'
                 /\ u.does = "delete" /\ u.left = <<"file">> => u.of \notin New(db)'
      BY <1>0, <2>1, <2>2, <2>3, <2>4
    <2>. QED  BY <1>0, <2>1, <2>3, <2>4, <2>5
  <1>. QED  BY <1>0, <1>1, <1>2

\* The two statements of a deletion.
LEMMA DeletionProceeds ==
  ASSUME OpenInv, FileInv, NEW r \in requests, r.does = "delete", Proceed(r)
  PROVE  FileInv'
  <1> USE DEF FileInv
  <1>0. /\ r.by \in Process /\ r.of \in Row
        /\ r.left \in {DeletionOrder, <<"file">>}
        /\ named' = named
    BY RequestFields DEF Proceed
  <1>1. \A u \in requests : u.does = "upload" => u.of # r.of
    OBVIOUS
  <1>2. CASE r.left = DeletionOrder
    <2> DEFINE s == [r EXCEPT !.left = <<"file">>]
    <2>1. /\ requests' = (requests \ {r}) \cup {s} /\ files' = files
          /\ DeleteRow(r.by, "lead_attachments", r.of)
      <3> HIDE DEF FileInv
      <3>1. /\ Head(r.left) = "row" /\ Len(r.left) = 2
            /\ [r EXCEPT !.left = Tail(@)] = s
        BY <1>2, Orders
      <3>. QED  BY <3>1 DEF Proceed
    <2>2. /\ s \in RequestType /\ s.by = r.by /\ s.of = r.of /\ s.does = "delete"
          /\ s.left = <<"file">>
      BY <1>0 DEF RequestType
    <2> HIDE DEF s
    <2>3. /\ db'.now["lead_attachments"].rows = db.now["lead_attachments"].rows \ {r.of}
          /\ pc' = pc
      BY <1>0, <2>1, OpenRows DEF Table, DeleteRow
    <2>4. New(db)' = New(db) \ {r.of}
      BY <2>3 DEF New
    <2>5. ASSUME NEW u \in requests'
          PROVE  /\ pc'[u.by] = "ready"
                 /\ u.of \in NewRow => u.of \in named'
                 /\ u.does = "upload" => u.of \notin New(db)'
                 /\ u.does = "upload" /\ u.left = <<"row">> => u.of \in files'
                 /\ u.does = "delete" /\ u.left = <<"file">> => u.of \notin New(db)'
      <3>1. CASE u = s
        BY <1>0, <2>1, <2>2, <2>3, <2>4, <3>1
      <3>2. CASE u \in requests
        BY <1>0, <2>1, <2>3, <2>4, <3>2
      <3>. QED  BY <2>1, <3>1, <3>2
    <2>6. \A u, v \in requests' : u.does = "upload" /\ v.of = u.of => v = u
      BY <1>1, <2>1, <2>2
    <2>7. requests' \subseteq RequestType /\ New(db)' \subseteq files' \cap named'
      BY <1>0, <2>1, <2>2, <2>4
    <2>. QED  BY <2>5, <2>6, <2>7
  <1>3. CASE r.left = <<"file">>
    <2>1. /\ requests' = requests \ {r} /\ files' = files \ {r.of}
          /\ db' = db /\ pc' = pc
      BY <1>3, Orders DEF Proceed, vars
    <2>2. r.of \notin New(db) /\ New(db)' = New(db)
      BY <1>3, <2>1 DEF New
    <2>. QED  BY <1>0, <1>1, <2>1, <2>2
  <1>. QED  BY <1>0, <1>2, <1>3

LEMMA FileStep ==
  ASSUME OpenInv, FileInv, [StoreNext]_allVars
  PROVE  FileInv'
  <1>1. CASE OpenStep
    <2>1. requests' \subseteq requests /\ \A r \in requests' : pc'[r.by] = "ready"
      BY <1>1 DEF OpenStep
    <2>. QED  BY <1>1, <2>1, RequestsEnd, OpeningAddsNoAttachment DEF OpenStep
  <1>2. ASSUME NEW p \in Process, NEW a \in LegacyRow \cup NewRow,
               (a \in NewRow /\ BeginUpload(p, a)) \/ BeginDeletion(p, a)
        PROVE  FileInv'
    BY <1>2, UploadBegins, DeletionBegins DEF Row
  <1>3. ASSUME NEW r \in requests, Proceed(r) PROVE FileInv'
    <2>1. r \in RequestType
      BY DEF FileInv
    <2>. QED  BY <1>3, <2>1, RequestFields, UploadProceeds, DeletionProceeds
  <1>4. ASSUME NEW r \in requests, Fails(r) PROVE FileInv'
    BY <1>4, RequestsEnd DEF Fails, vars, FileInv
  <1>5. CASE UNCHANGED allVars
    BY <1>5, RequestsEnd DEF allVars, vars, FileInv
  <1>. QED  BY <1>1, <1>2, <1>3, <1>4, <1>5 DEF StoreNext

\* Every step of the store is, for the file, one of DbNext.
LEMMA StoreStepsOnFile ==
  ASSUME FileInv, [StoreNext]_allVars
  PROVE  [DbNext]_vars
  <1>1. ASSUME NEW r \in requests, Proceed(r) PROVE [DbNext]_vars
    <2>1. r.by \in Process /\ r.of \in Row
      BY RequestFields DEF FileInv
    <2>2. \/ AddRow(r.by, "lead_attachments", r.of)
          \/ DeleteRow(r.by, "lead_attachments", r.of)
          \/ UNCHANGED vars
      BY <1>1 DEF Proceed
    <2>. QED  BY <2>1, <2>2 DEF DbNext, Table
  <1>. QED
    BY <1>1, NextIsDbNext
    DEF StoreNext, OpenStep, BeginUpload, BeginDeletion, Fails, allVars

-----------------------------------------------------------------------------
LEMMA StoreStarts ==
  ASSUME StoreInit
  PROVE  OpenInv /\ FileInv
  <1>1. OpenInv /\ requests = {}
    BY OpenStart DEF StoreInit
  <1>2. New(db) = {}
    BY StartupAssumption
    DEF StoreInit, Init, OriginDb, New, Table, Absent, Empty, Origin
  <1>. QED  BY <1>1, <1>2 DEF FileInv

\* What the steps of opening and the requests maintain together.
LEMMA StoreInvariant == StoreSpec => [](OpenInv /\ FileInv)
  <1>1. StoreInit => OpenInv /\ FileInv
    BY StoreStarts
  <1>2. OpenInv /\ FileInv /\ [StoreNext]_allVars => (OpenInv /\ FileInv)'
    BY OpenInvStep, FileStep, StoreStepsOnFile
  <1>. QED  BY <1>1, <1>2, PTL DEF StoreSpec

\* _migrate_v1_to_v2 drops raw_records only in the transaction that has copied
\* them: every v1 record is in one of the two tables, wherever processes die.
THEOREM RecordsAreKept == StoreSpec => []RecordsKept
  <1>1. OpenInv => RecordsKept
    BY DEF OpenInv, KeptIn, RecordsKept
  <1>. QED  BY <1>1, StoreInvariant, PTL

\* upload_attachment writes the file before the row and delete_attachment
\* removes the row before the file: a row of the running program has its file.
THEOREM RowsHaveFiles == StoreSpec => []RowHasFile
  <1>1. FileInv => RowHasFile
    BY DEF FileInv, RowHasFile, Rows, New
  <1>. QED  BY <1>1, StoreInvariant, PTL

-----------------------------------------------------------------------------
\* AloneInv, and what each step does to what the program finds.

SameSeen(d, e) ==
  /\ LeadsSeen(d) = LeadsSeen(e)
  /\ \A t \in Table : TableSeen(d, t) = TableSeen(e, t)
  /\ 8 \in e.versions => 8 \in d.versions

\* Only the process that moves has a place to look after.
LEMMA AlonePlaces ==
  ASSUME OpenInv, AloneInv, NEW p \in Process, NEW s,
         pc' = [pc EXCEPT ![p] = s],
         UNCHANGED table \/ \E t : table' = [table EXCEPT ![p] = t],
         UNCHANGED applied \/ \E v : applied' = [applied EXCEPT ![p] = v],
         pc[p] \in Opening \/ \A q \in Process : pc[q] \notin Opening,
         PlaceAlone(p)'
  PROVE  OneOpens' /\ \A q \in Process : PlaceAlone(q)'
  <1>1. \A q \in Process : q # p => pc[q] \notin Opening /\ pc'[q] = pc[q]
    BY DEF AloneInv, OneOpens, OpenInv, OpenType
  <1>2. {"rename", "look", "baseline", "no_records", "register", "columns",
         "add_columns"} \cup Migrating \subseteq Opening
    BY DEF Opening, Reconciling, Migrating, Eighth
  <1>3. OneOpens'
    BY <1>1 DEF OneOpens
  <1>4. ASSUME NEW q \in Process, q # p PROVE PlaceAlone(q)'
    BY <1>1, <1>2, <1>4 DEF PlaceAlone
  <1>. QED  BY <1>3, <1>4

LEMMA AloneReads ==
  ASSUME OpenInv, AloneInv, ~overlap, NEW p \in Process,
         \/ Start(p) \/ Look(p) \/ ReadRegistry(p) \/ LookAtLinks(p)
         \/ LookForRecords(p) \/ LookAtColumns(p) \/ NothingToDo(p)
         \/ StartFails(p) \/ Crash(p) \/ Exit(p)
  PROVE  AloneInv'
  <1>0. /\ UNCHANGED <<db, tx>>
        /\ pc \in [Process -> {"off", "ready"} \cup Opening]
        /\ table \in [Process -> Table]
        /\ applied \in [Process -> SUBSET Versions]
        /\ db \in Db
    BY OpenOthers DEF OpenInv, OpenType
  <1>1. writer' = writer \/ writer' = Nobody
    BY DEF Start, Look, ReadRegistry, LookAtLinks, LookForRecords, LookAtColumns,
           NothingToDo, StartFails, Crash, Exit, NoTx
  <1>2. TablesAlone' /\ TxAlone'
    BY <1>0, <1>1 DEF AloneInv, TablesAlone, TxAlone, LeadsSeen, TableSeen
  <1>3. Migrating \subseteq Opening /\ {"look", "rename", "baseline"} \subseteq Opening
        /\ {"registry", "links", "records", "columns", "register"} \subseteq Migrating
        /\ {"look", "rename", "baseline", "off", "ready"} \cap Migrating = {}
    BY DEF Opening, Reconciling, Migrating, Eighth
  <1>4. PlaceAlone(p)
    BY DEF AloneInv
  <1>5. ASSUME NEW s, pc' = [pc EXCEPT ![p] = s],
               UNCHANGED table \/ \E t : table' = [table EXCEPT ![p] = t],
               UNCHANGED applied \/ \E v : applied' = [applied EXCEPT ![p] = v],
               pc[p] \in Opening \/ \A q \in Process : pc[q] \notin Opening,
               PlaceAlone(p)'
        PROVE  AloneInv'
    BY <1>2, <1>5, AlonePlaces DEF AloneInv
  <1>6. CASE Start(p)
    <2>1. /\ pc' = [pc EXCEPT ![p] = "look"]
          /\ table' = [table EXCEPT ![p] = "lead_attachments"]
          /\ applied' = [applied EXCEPT ![p] = {}]
      BY <1>6 DEF Start, Goto
    <2>2. \A q \in Process : pc[q] \notin Opening
      BY <1>6, <1>0 DEF Start, Opening, Reconciling, Migrating, Eighth
    <2>3. PlaceAlone(p)'
      BY <1>0, <1>3, <2>1 DEF PlaceAlone
    <2>. QED  BY <1>5, <2>1, <2>2, <2>3
  <1>7. CASE Look(p)
    <2>1. pc[p] = "look" /\ applied' = applied
      BY <1>7 DEF Look
    <2>2. CASE db.now[table[p]].shape = "v1"
      <3>1. pc' = [pc EXCEPT ![p] = "rename"] /\ table' = table
        BY <1>7, <2>2 DEF Look, Collides, Goto
      <3>2. PlaceAlone(p)'
        BY <1>0, <1>3, <1>4, <2>1, <2>2, <3>1 DEF PlaceAlone
      <3>. QED  BY <1>3, <1>5, <2>1, <3>1, <3>2
    <2>3. CASE db.now[table[p]].shape # "v1"
      <3>1. NextTable(p)
        BY <1>7, <2>3 DEF Look, Collides
      <3>2. CASE table[p] = "lead_attachments"
        <4>1. /\ pc' = [pc EXCEPT ![p] = "look"]
              /\ table' = [table EXCEPT ![p] = "discovery_campaigns"]
          BY <3>1, <3>2 DEF NextTable, Goto
        <4>2. PlaceAlone(p)'
          BY <1>0, <1>3, <2>3, <3>2, <4>1 DEF PlaceAlone
        <4>. QED  BY <1>3, <1>5, <2>1, <4>1, <4>2
      <3>3. CASE table[p] # "lead_attachments"
        <4>1. pc' = [pc EXCEPT ![p] = "baseline"] /\ table' = table
              /\ table[p] = "discovery_campaigns"
          BY <1>0, <3>1, <3>3 DEF NextTable, Goto, Table
        <4>2. \A t \in Table : db.now[t].shape # "v1"
          BY <1>4, <2>1, <2>3, <4>1 DEF PlaceAlone, Table
        <4>3. PlaceAlone(p)'
          BY <1>0, <1>3, <4>1, <4>2 DEF PlaceAlone
        <4>. QED  BY <1>3, <1>5, <2>1, <4>1, <4>3
      <3>. QED  BY <3>2, <3>3
    <2>. QED  BY <2>2, <2>3
  <1>8. CASE ReadRegistry(p)
    <2>1. /\ pc[p] = "registry" /\ table' = table
          /\ applied' = [applied EXCEPT ![p] = db.versions]
      BY <1>8 DEF ReadRegistry
    <2>2. PICK s \in {"links", "columns", "register"} :
            /\ pc' = [pc EXCEPT ![p] = s]
            /\ s \in {"columns", "register"} => 8 \in db.versions
      BY <1>8 DEF ReadRegistry, Goto
    <2>3. PlaceAlone(p)'
      BY <1>0, <1>3, <1>4, <2>1, <2>2 DEF PlaceAlone
    <2>. QED  BY <1>3, <1>5, <2>1, <2>2, <2>3
  <1>9. CASE LookAtLinks(p) \/ LookForRecords(p) \/ LookAtColumns(p)
    <2>1. /\ pc[p] \in {"links", "records", "columns"} /\ UNCHANGED <<table, applied>>
      BY <1>9 DEF LookAtLinks, LookForRecords, LookAtColumns
    <2>2. PICK s \in {"drop_links", "create_links", "copy", "no_records", "register",
                      "add_columns"} :
            /\ pc' = [pc EXCEPT ![p] = s]
            /\ s = "no_records" => ~db.raw
            /\ s \in {"register", "add_columns"} => pc[p] = "columns"
      BY <1>9 DEF LookAtLinks, LookForRecords, LookAtColumns, Goto
    <2>3. PlaceAlone(p)'
      BY <1>0, <1>3, <1>4, <2>1, <2>2 DEF PlaceAlone
    <2>. QED  BY <1>3, <1>5, <2>1, <2>2, <2>3
  <1>10. CASE NothingToDo(p) \/ StartFails(p) \/ Crash(p) \/ Exit(p)
    <2>1. PICK s \in {"ready", "off"} : pc' = [pc EXCEPT ![p] = s] /\ UNCHANGED <<table, applied>>
      BY <1>10 DEF NothingToDo, StartFails, Crash, Exit, Goto
    <2>2. s \notin Opening /\ "off" \notin Opening /\ "ready" \notin Opening
      BY DEF Opening, Reconciling, Migrating, Eighth
    <2>3. PlaceAlone(p)'
      BY <1>0, <1>3, <2>1, <2>2 DEF PlaceAlone
    <2>4. OneOpens' /\ \A q \in Process : PlaceAlone(q)'
      <3>1. \A q \in Process : pc'[q] = IF q = p THEN s ELSE pc[q]
        BY <1>0, <2>1
      <3>2. OneOpens'
        BY <2>2, <3>1 DEF AloneInv, OneOpens
      <3>3. ASSUME NEW q \in Process, q # p PROVE PlaceAlone(q)'
        BY <1>0, <2>1, <3>1, <3>3 DEF AloneInv, PlaceAlone
      <3>. QED  BY <2>3, <3>2, <3>3
    <2>. QED  BY <1>2, <2>4 DEF AloneInv
  <1>. QED  BY <1>6, <1>7, <1>8, <1>9, <1>10

LEMMA AloneAutocommits ==
  ASSUME OpenInv, AloneInv, ~overlap, NEW p \in Process,
         \/ Rename(p) \/ Baseline(p) \/ DropLinks(p) \/ CreateLinks(p)
         \/ DropUnmappable(p) \/ AddColumns(p)
  PROVE  AloneInv' /\ SameSeen(db', db)
  <1>0. /\ pc \in [Process -> {"off", "ready"} \cup Opening]
        /\ table \in [Process -> Table] /\ table[p] \in Table
        /\ db \in Db /\ db.now \in [Table -> Tab] /\ db.legacy \in [Table -> Old]
        /\ PlaceAlone(p) /\ TablesAlone
        /\ \A t \in Table : db.legacy[t].shape = "none" => db.legacy[t].rows = {}
    BY DEF OpenInv, OpenType, AloneInv, Db, Old
  <1>1. writer = Nobody /\ UNCHANGED <<writer, tx, applied>>
    BY DEF Rename, Baseline, DropLinks, CreateLinks, DropUnmappable, AddColumns,
           Autocommit, NoTx
  <1>2. Migrating \subseteq Opening /\ {"look", "rename", "baseline"} \subseteq Opening
        /\ {"registry", "links", "drop_links", "create_links", "records", "no_records",
            "columns", "add_columns", "register"} \subseteq Migrating
        /\ {"look", "rename", "baseline"} \cap Migrating = {}
    BY DEF Opening, Reconciling, Migrating, Eighth
  <1>3. ASSUME NEW s, pc' = [pc EXCEPT ![p] = s],
               UNCHANGED table \/ \E t : table' = [table EXCEPT ![p] = t],
               pc[p] \in Opening, PlaceAlone(p)', TablesAlone'
        PROVE  AloneInv'
    BY <1>1, <1>3, AlonePlaces DEF AloneInv, TxAlone
  <1>4. CASE Rename(p)
    <2> DEFINE t == table[p]
    <2>1. /\ pc[p] = "rename" /\ NextTable(p)
          /\ db' = [db EXCEPT !.legacy[t] = db.now[t], !.now[t] = Absent]
          /\ db.legacy[t].shape = "none"
      BY <1>4 DEF Rename, Autocommit, CanRename
    <2>2. /\ db'.now = [db.now EXCEPT ![t] = Absent]
          /\ db'.legacy = [db.legacy EXCEPT ![t] = db.now[t]]
          /\ db'.raw = db.raw /\ db'.leads = db.leads /\ db'.versions = db.versions
      BY <1>0, <2>1 DEF Db
    <2>3. db.now[t].shape = "v1" /\ 8 \notin db.versions /\ db.legacy[t].rows = {}
      BY <1>0, <2>1 DEF PlaceAlone, TablesAlone
    <2>4. /\ db'.now[t].shape = "none" /\ db'.now[t].rows = {}
          /\ db'.legacy[t].rows = db.now[t].rows
          /\ \A u \in Table : u # t => db'.now[u] = db.now[u] /\ db'.legacy[u] = db.legacy[u]
      BY <1>0, <2>2 DEF Absent
    <2>5. TablesAlone'
      BY <1>0, <2>2, <2>3, <2>4 DEF TablesAlone
    <2>6. SameSeen(db', db)
      BY <1>0, <2>2, <2>3, <2>4 DEF SameSeen, LeadsSeen, TableSeen
    <2>7. PICK s \in {"look", "baseline"} :
            /\ pc' = [pc EXCEPT ![p] = s]
            /\ UNCHANGED table \/ \E u : table' = [table EXCEPT ![p] = u]
            /\ s = "look" => t = "lead_attachments"
            /\ s = "baseline" => t = "discovery_campaigns"
      BY <1>0, <2>1 DEF NextTable, Goto, Table
    <2>8. PlaceAlone(p)'
      <3>1. s = "baseline" => \A u \in Table : db'.now[u].shape # "v1"
        BY <1>0, <2>1, <2>4, <2>7 DEF PlaceAlone, Table
      <3>2. s = "look" => db'.now["lead_attachments"].shape # "v1"
        BY <2>4, <2>7
      <3>. QED  BY <1>0, <1>2, <2>7, <3>1, <3>2 DEF PlaceAlone
    <2>. QED  BY <1>2, <1>3, <2>1, <2>5, <2>6, <2>7, <2>8
  <1>5. CASE Baseline(p)
    <2>1. /\ pc[p] = "baseline" /\ pc' = [pc EXCEPT ![p] = "registry"]
          /\ table' = table /\ db' = WithBaseline(db)
      BY <1>5 DEF Baseline, Autocommit, Goto
    <2>2. /\ db'.raw = db.raw /\ db'.leads = db.leads /\ db'.legacy = db.legacy
          /\ db'.versions = db.versions
          /\ \A t \in Table : /\ db'.now[t].shape = "v2"
                              /\ db'.now[t].rows = db.now[t].rows
      <3>1. \A t \in Table : db.now[t].shape \in {"none", "v2"}
                             /\ (db.now[t].shape = "none" => db.now[t].rows = {})
        BY <1>0, <2>1 DEF PlaceAlone, TablesAlone, Tab, Shape
      <3>2. /\ WithBaseline(db).raw = db.raw /\ WithBaseline(db).leads = db.leads
            /\ WithBaseline(db).legacy = db.legacy
            /\ WithBaseline(db).versions = db.versions
            /\ \A t \in Table :
                 WithBaseline(db).now[t] = IF db.now[t].shape = "none" THEN Empty ELSE db.now[t]
        BY <1>0, BaselineEffect
      <3>3. Empty.shape = "v2" /\ Empty.rows = {}
        BY DEF Empty
      <3>4. ASSUME NEW t \in Table
            PROVE  db'.now[t].shape = "v2" /\ db'.now[t].rows = db.now[t].rows
        <4>1. CASE db.now[t].shape = "none"
          BY <2>1, <3>1, <3>2, <3>3, <4>1
        <4>2. CASE db.now[t].shape # "none"
          BY <2>1, <3>1, <3>2, <4>2
        <4>. QED  BY <4>1, <4>2
      <3>. QED  BY <2>1, <3>2, <3>4
    <2>3. 8 \notin db.versions => \A t \in Table : db.now[t].rows = {}
      BY <1>0, <2>1 DEF PlaceAlone, TablesAlone, Tab, Shape
    <2>4. TablesAlone'
      BY <1>0, <2>2, <2>3 DEF TablesAlone
    <2>5. SameSeen(db', db)
      BY <2>2 DEF SameSeen, LeadsSeen, TableSeen
    <2>6. PlaceAlone(p)'
      BY <1>0, <1>2, <2>1, <2>2 DEF PlaceAlone
    <2>. QED  BY <1>2, <1>3, <2>1, <2>4, <2>5, <2>6
  <1>6. CASE DropLinks(p) \/ CreateLinks(p) \/ AddColumns(p)
    <2>1. /\ pc[p] \in {"drop_links", "create_links", "add_columns"} /\ table' = table
          /\ db'.raw = db.raw /\ db'.leads = db.leads /\ db'.versions = db.versions
          /\ db'.now = db.now /\ db'.legacy = db.legacy
      <3>1. CASE DropLinks(p)
        BY <1>0, <3>1 DEF DropLinks, Autocommit, Db
      <3>2. CASE CreateLinks(p)
        <4>1. PICK l : db' = [db EXCEPT !.links = l]
          BY <1>0, <3>2 DEF CreateLinks, Autocommit
        <4>. QED  BY <1>0, <3>2, <4>1 DEF CreateLinks, Db
      <3>3. CASE AddColumns(p)
        BY <1>0, <3>3 DEF AddColumns, Autocommit, Db
      <3>. QED  BY <1>6, <3>1, <3>2, <3>3
    <2>2. PICK s \in {"create_links", "records", "register"} :
            /\ pc' = [pc EXCEPT ![p] = s]
            /\ s = "register" => pc[p] = "add_columns"
      BY <1>6 DEF DropLinks, CreateLinks, AddColumns, Goto
    <2>3. TablesAlone' /\ SameSeen(db', db)
      BY <1>0, <2>1 DEF TablesAlone, SameSeen, LeadsSeen, TableSeen
    <2>4. PlaceAlone(p)'
      BY <1>0, <1>1, <1>2, <2>1, <2>2 DEF PlaceAlone
    <2>. QED  BY <1>2, <1>3, <2>1, <2>2, <2>3, <2>4
  <1>7. CASE DropUnmappable(p)
    <2>1. /\ pc[p] = "no_records" /\ pc' = [pc EXCEPT ![p] = "register"]
          /\ table' = table
          /\ db' = [db EXCEPT !.legacy["lead_attachments"] = Absent]
      BY <1>7 DEF DropUnmappable, Autocommit, Goto
    <2>2. /\ db'.raw = db.raw /\ db'.leads = db.leads /\ db'.versions = db.versions
          /\ db'.now = db.now
          /\ \A t \in Table : db'.legacy[t].rows = db.legacy[t].rows
                              \/ db'.legacy[t].rows = {}
      BY <1>0, <2>1 DEF Db, Absent
    <2>3. ~db.raw
      BY <1>0, <2>1 DEF PlaceAlone
    <2>4. TablesAlone' /\ SameSeen(db', db)
      BY <1>0, <2>2, <2>3 DEF TablesAlone, SameSeen, LeadsSeen, TableSeen
    <2>5. PlaceAlone(p)'
      BY <1>0, <1>2, <2>1, <2>2, <2>3 DEF PlaceAlone
    <2>. QED  BY <1>2, <1>3, <2>1, <2>4, <2>5
  <1>. QED  BY <1>4, <1>5, <1>6, <1>7

\* What a transaction will commit shows the program the rows it would have
\* found: v1 records as leads, legacy rows in the tables of their names.
LEMMA PreparedShowsTheSame ==
  ASSUME OpenInv, AloneInv, NEW p \in Process, pc[p] \in Migrating,
         NEW d \in Db, Prepared(p, d), d.versions = Versions
  PROVE  /\ SameSeen(d, db)
         /\ \A t \in Table : d.now[t].shape = "v2"
  <1>0. /\ db \in Db /\ applied[p] \in SUBSET Versions
        /\ TablesAlone /\ PlaceAlone(p) /\ 8 \in d.versions
        /\ \A t \in Table : db.now[t].shape = "v2"
        /\ "discovery_campaigns" \in Table
    BY DEF OpenInv, OpenType, AloneInv, PlaceAlone, Versions, Table
  <1>1. CASE 8 \notin db.versions /\ db.raw /\ d = Registered(Consolidated(db), applied[p])
    <2> DEFINE c == Consolidated(db)
    <2>1. /\ c \in Db /\ c.raw = FALSE /\ c.leads = Record
          /\ \A t \in Table : /\ c.now[t].shape = db.now[t].shape
                              /\ c.now[t].rows = db.now[t].rows \cup
                                                   (db.legacy[t].rows \ Unmappable(t))
      BY <1>0, ConsolidatedEffect
    <2> HIDE DEF c
    <2>2. d.raw = c.raw /\ d.leads = c.leads /\ d.now = c.now
      BY <1>0, <1>1, <2>1, RegisteredEffect DEF c
    <2>3. \A t \in Table : db.now[t].rows = {}
      BY <1>0, <1>1 DEF TablesAlone
    <2>. QED  BY <1>0, <1>1, <2>1, <2>2, <2>3 DEF SameSeen, LeadsSeen, TableSeen
  <1>2. CASE /\ 8 \notin db.versions /\ 8 \notin applied[p] /\ pc[p] = "register"
             /\ d = Registered(Folded(db, "discovery_campaigns"), applied[p])
    <2>1. ~db.raw
      BY <1>0, <1>2 DEF PlaceAlone
    <2>2. \A t \in Table : db.now[t].rows = {} /\ db.legacy[t].rows = {}
      BY <1>0, <1>2, <2>1 DEF TablesAlone
    <2>3. /\ d.raw = db.raw /\ d.leads = db.leads
          /\ \A t \in Table : d.now[t].shape = "v2" /\ d.now[t].rows = {}
      <3> DEFINE f == Folded(db, "discovery_campaigns")
      <3>1. /\ f \in Db /\ f.raw = db.raw /\ f.leads = db.leads
            /\ \A t \in Table :
                 /\ f.now[t].shape = db.now[t].shape
                 /\ f.now[t].rows = db.now[t].rows \cup
                      IF t = "discovery_campaigns"
                      THEN db.legacy["discovery_campaigns"].rows
                             \ Unmappable("discovery_campaigns")
                      ELSE {}
        BY <1>0, FoldedEffect
      <3> HIDE DEF f
      <3>2. d.raw = f.raw /\ d.leads = f.leads /\ d.now = f.now
        BY <1>0, <1>2, <3>1, RegisteredEffect DEF f
      <3>. QED  BY <1>0, <2>2, <3>1, <3>2
    <2>. QED  BY <1>0, <2>1, <2>2, <2>3 DEF SameSeen, LeadsSeen, TableSeen
  <1>3. CASE 8 \in db.versions /\ d = Registered(db, applied[p])
    BY <1>0, <1>3, RegisteredEffect DEF SameSeen, LeadsSeen, TableSeen
  <1>. QED  BY <1>1, <1>2, <1>3 DEF Prepared

LEMMA AloneBegins ==
  ASSUME OpenInv, AloneInv, NEW p \in Process, Copy(p) \/ Register(p)
  PROVE  AloneInv' /\ db' = db
  <1>1. PICK d \in Db : Begin(p, d) /\ Prepared(p, d) /\ d.versions = Versions
    BY CopyPrepares
  <1>2. /\ pc' = [pc EXCEPT ![p] = "commit"] /\ tx' = d
        /\ UNCHANGED <<db, table, applied>>
    BY <1>1 DEF Begin, Goto
  <1>3. /\ pc[p] \in Migrating /\ Migrating \subseteq Opening /\ "commit" \in Migrating
        /\ "baseline" \notin Migrating
    BY DEF Copy, Register, Opening, Migrating, Eighth
  <1>4. SameSeen(d, db) /\ \A t \in Table : d.now[t].shape = "v2"
    BY <1>1, <1>3, PreparedShowsTheSame
  <1>5. TxAlone' /\ TablesAlone'
    BY <1>2, <1>4 DEF TxAlone, TablesAlone, AloneInv, SameSeen, LeadsSeen, TableSeen
  <1>6. PlaceAlone(p)'
    BY <1>2, <1>3 DEF AloneInv, PlaceAlone, OpenInv, OpenType
  <1>. QED  BY <1>2, <1>3, <1>5, <1>6, AlonePlaces DEF AloneInv

LEMMA AloneCommits ==
  ASSUME OpenInv, AloneInv, NEW p \in Process, Commit(p)
  PROVE  AloneInv' /\ SameSeen(db', db)
  <1>1. /\ db' = tx /\ writer # Nobody /\ writer' = Nobody
        /\ pc[p] = "commit" /\ pc' = [pc EXCEPT ![p] = "ready"]
        /\ UNCHANGED <<table, applied>>
        /\ tx.versions = Versions
    BY StartupAssumption DEF Commit, Goto, OpenInv
  <1>2. 8 \in db'.versions
    BY <1>1 DEF Versions
  <1>3. /\ LeadsSeen(tx) = LeadsSeen(db)
        /\ \A t \in Table : tx.now[t].shape = "v2" /\ TableSeen(tx, t) = TableSeen(db, t)
    BY <1>1 DEF AloneInv, TxAlone
  <1>4. TablesAlone' /\ TxAlone' /\ SameSeen(db', db)
    BY <1>1, <1>2, <1>3 DEF TablesAlone, TxAlone, SameSeen
  <1>5. "commit" \in Opening /\ "ready" \notin Opening /\ "ready" \notin Migrating
    BY DEF Opening, Reconciling, Migrating, Eighth
  <1>6. PlaceAlone(p)'
    BY <1>1, <1>5 DEF PlaceAlone, OpenInv, OpenType
  <1>. QED  BY <1>1, <1>4, <1>5, <1>6, AlonePlaces DEF AloneInv

LEMMA AloneRows ==
  ASSUME OpenInv, AloneInv, NEW p \in Process, NEW t \in Table, NEW r \in Row,
         AddRow(p, t, r) \/ DeleteRow(p, t, r)
  PROVE  AloneInv'
  <1>1. /\ db'.legacy = db.legacy /\ db'.raw = db.raw /\ db'.leads = db.leads
        /\ 8 \in db.versions /\ db'.versions = db.versions
        /\ \A u \in Table : db'.now[u].shape = db.now[u].shape
    BY OpenRows
  <1>2. writer = Nobody /\ UNCHANGED <<writer, tx, pc, table, applied>>
    BY DEF AddRow, DeleteRow, Autocommit, NoTx
  <1>3. TablesAlone' /\ TxAlone' /\ OneOpens'
    BY <1>1, <1>2 DEF TablesAlone, TxAlone, OneOpens, AloneInv
  <1>4. ASSUME NEW q \in Process PROVE PlaceAlone(q)'
    BY <1>1, <1>2 DEF AloneInv, PlaceAlone, OpenInv, OpenType, Table
  <1>. QED  BY <1>3, <1>4 DEF AloneInv

LEMMA AloneStep ==
  ASSUME OpenInv, AloneInv, ~overlap, [DbNext]_vars
  PROVE  AloneInv'
  <1>1. ASSUME NEW p \in Process, Open(p) PROVE AloneInv'
    BY <1>1, AloneReads, AloneAutocommits, AloneBegins, AloneCommits DEF Open
  <1>2. ASSUME NEW p \in Process, Start(p) \/ StartFails(p) \/ Crash(p) \/ Exit(p)
        PROVE  AloneInv'
    BY <1>2, AloneReads
  <1>3. CASE UNCHANGED vars
    BY <1>3 DEF vars, AloneInv, OneOpens, TablesAlone, TxAlone, PlaceAlone, LeadsSeen,
                TableSeen
  <1>. QED  BY <1>1, <1>2, <1>3, AloneRows DEF DbNext

LEMMA AloneStart == Init => AloneInv
  <1> SUFFICES ASSUME Init PROVE AloneInv
    OBVIOUS
  <1>1. \A p \in Process : pc[p] = "off"
    BY DEF Init
  <1>2. OneOpens /\ TxAlone /\ \A p \in Process : PlaceAlone(p)
    BY <1>1 DEF Init, OneOpens, TxAlone, PlaceAlone, Opening, Reconciling, Migrating, Eighth
  <1>3. TablesAlone
    BY StartupAssumption DEF Init, OriginDb, TablesAlone, Absent, Empty, Origin
  <1>. QED  BY <1>2, <1>3 DEF AloneInv

-----------------------------------------------------------------------------
\* The refinement of SchemaUpgrade.

\* What is visible is made of the two functions above.
LEMMA VisibleIsSeen ==
  ASSUME ~overlap
  PROVE  /\ Era = IF 8 \in db.versions THEN "new" ELSE "old"
         /\ Visible = ({"leads"} \X LeadsSeen(db)) \cup
                      UNION {{t} \X TableSeen(db, t) : t \in Table}
  <1>1. Era = IF 8 \in db.versions THEN "new" ELSE "old"
    BY DEF Era
  <1>2. \A t \in Table :
          TableSeen(db, t) = VisibleRows(t)
    BY <1>1 DEF TableSeen, VisibleRows
  <1>. QED  BY <1>1, <1>2 DEF Visible, LeadsSeen

\* A step that changes nothing of what is found is the upgrade, or a stutter.
LEMMA SameSeenMaps ==
  ASSUME ~overlap, overlap' = overlap, SameSeen(db', db)
  PROVE  [Abstract!Upgrade \/ Abstract!Write]_<<Era, Visible>>
  <1>1. LeadsSeen(db)' = LeadsSeen(db) /\ \A t \in Table : TableSeen(db, t)' = TableSeen(db, t)
    BY DEF SameSeen, LeadsSeen, TableSeen
  <1>2. /\ Era = IF 8 \in db.versions THEN "new" ELSE "old"
        /\ Visible = ({"leads"} \X LeadsSeen(db)) \cup
                     UNION {{t} \X TableSeen(db, t) : t \in Table}
    BY VisibleIsSeen
  <1>3. /\ Era' = IF 8 \in db'.versions THEN "new" ELSE "old"
        /\ Visible' = ({"leads"} \X LeadsSeen(db)') \cup
                      UNION {{t} \X TableSeen(db, t)' : t \in Table}
    <2>1. Era' = IF 8 \in db'.versions THEN "new" ELSE "old"
      BY DEF Era
    <2>2. \A t \in Table :
            TableSeen(db, t)' = VisibleRows(t)'
      BY <2>1 DEF TableSeen, VisibleRows
    <2>3. LeadsSeen(db)' = IF db'.raw THEN Record ELSE db'.leads
      BY DEF LeadsSeen
    <2>. QED  BY <2>1, <2>2, <2>3 DEF Visible
  <1>4. Visible' = Visible
    BY <1>1, <1>2, <1>3
  <1>. QED  BY <1>2, <1>3, <1>4 DEF Abstract!Upgrade, SameSeen

\* A step on the file that neither adds nor deletes a row.
LEMMA OpeningMaps ==
  ASSUME OpenInv, AloneInv, ~overlap, overlap' = overlap, NEW p \in Process,
         Start(p) \/ Open(p) \/ StartFails(p) \/ Crash(p) \/ Exit(p)
  PROVE  [Abstract!Upgrade \/ Abstract!Write]_<<Era, Visible>>
  <1>1. CASE db' = db
    <2>1. SameSeen(db', db)
      BY <1>1 DEF SameSeen
    <2>. QED  BY <2>1, SameSeenMaps
  <1>2. CASE SameSeen(db', db)
    BY <1>2, SameSeenMaps, SMTT(30)
  <1>. QED
    BY <1>1, <1>2, OpenOthers, AloneAutocommits, AloneBegins, AloneCommits DEF Open

\* How the file is opened is chosen once.
LEMMA OverlapFixed == ASSUME [DbNext]_vars PROVE overlap' = overlap
  BY ZenonT(60) DEF DbNext, vars, Fixed, Start, Open, StartFails, Crash, Exit, AddRow, DeleteRow, Look,
         Rename, Baseline, ReadRegistry, LookAtLinks, DropLinks, CreateLinks,
         LookForRecords, DropUnmappable, LookAtColumns, AddColumns, Copy, Register,
         Begin, NothingToDo, Commit

\* Rows tagged with the name of their table.
Tagged(T, L, g) == ({"leads"} \X L) \cup UNION {{u} \X g[u] : u \in T}

\* A row added or deleted is one write.
LEMMA RowsMap ==
  ASSUME OpenInv, ~overlap, overlap' = overlap,
         NEW p \in Process, NEW t \in Table, NEW r \in Row,
         AddRow(p, t, r) \/ DeleteRow(p, t, r)
  PROVE  [Abstract!Upgrade \/ Abstract!Write]_<<Era, Visible>>
  <1>1. /\ db'.raw = db.raw /\ db'.leads = db.leads
        /\ 8 \in db.versions /\ db'.versions = db.versions
        /\ \A u \in Table : u # t => db'.now[u] = db.now[u]
        /\ db'.now[t].rows \in {db.now[t].rows \cup {r}, db.now[t].rows \ {r}}
    BY OpenRows
  <1>2. Era = "new" /\ Era' = "new"
    BY <1>1 DEF Era
  <1> DEFINE g == [u \in Table |-> db.now[u].rows]
             h == [u \in Table |-> db'.now[u].rows]
  <1>4. Visible = Tagged(Table, LeadsSeen(db), g)
    BY <1>2 DEF Visible, VisibleRows, LeadsSeen, Tagged
  <1>5. Visible' = Tagged(Table, LeadsSeen(db), h)
    <2>1. LeadsSeen(db) = IF db'.raw THEN Record ELSE db'.leads
      BY <1>1 DEF LeadsSeen
    <2>. QED  BY <1>2, <2>1 DEF Visible, VisibleRows, Tagged
  <1>6. /\ \A u \in Table : u # t => h[u] = g[u]
        /\ h[t] \in {g[t] \cup {r}, g[t] \ {r}}
        /\ "leads" \notin Table
    BY <1>1 DEF Table
  <1> HIDE DEF g, h
  <1>7. Visible' \in {Visible \cup {<<t, r>>}, Visible \ {<<t, r>>}}
    <2> DEFINE L == LeadsSeen(db)
    <2> HIDE DEF L
    <2>1. Visible = Tagged(Table, L, g) /\ Visible' = Tagged(Table, L, h)
      BY <1>4, <1>5 DEF L
    <2>2. ASSUME NEW e
          PROVE  /\ e \in Visible  <=> \/ \E x \in L : e = <<"leads", x>>
                                       \/ \E u \in Table : \E x \in g[u] : e = <<u, x>>
                 /\ e \in Visible' <=> \/ \E x \in L : e = <<"leads", x>>
                                       \/ \E u \in Table : \E x \in h[u] : e = <<u, x>>
      BY <2>1 DEF Tagged
    <2>3. CASE h[t] = g[t] \cup {r}
      <3>1. ASSUME NEW e PROVE e \in Visible' <=> e \in Visible \cup {<<t, r>>}
        <4>1. (\E u \in Table : \E x \in h[u] : e = <<u, x>>) <=>
                (\E u \in Table : \E x \in g[u] : e = <<u, x>>) \/ e = <<t, r>>
          BY <1>6, <2>3
        <4>. QED  BY <2>2, <4>1
      <3>. QED  BY <3>1
    <2>4. CASE h[t] = g[t] \ {r}
      <3>1. ASSUME NEW e PROVE e \in Visible' <=> e \in Visible \ {<<t, r>>}
        <4>1. (\E u \in Table : \E x \in h[u] : e = <<u, x>>) <=>
                (\E u \in Table : \E x \in g[u] : e = <<u, x>>) /\ e # <<t, r>>
          BY <1>6, <2>4
        <4>2. (\E x \in L : e = <<"leads", x>>) => e # <<t, r>>
          BY <1>6
        <4>. QED  BY <2>2, <4>1, <4>2
      <3>. QED  BY <3>1
    <2>. QED  BY <1>6, <2>3, <2>4
  <1>8. <<t, r>> \in ({"leads"} \cup Table) \X (Record \cup LegacyRow \cup NewRow)
    BY DEF Row
  <1>. QED  BY <1>2, <1>7, <1>8 DEF Abstract!Write

LEMMA DbStepMaps ==
  ASSUME OpenInv, AloneInv, ~overlap, [DbNext]_vars
  PROVE  [Abstract!Upgrade \/ Abstract!Write]_<<Era, Visible>>
  <1>1. overlap' = overlap
    BY OverlapFixed
  <1>2. CASE UNCHANGED vars
    BY <1>2 DEF vars, Era, Visible, VisibleRows
  <1>. QED  BY <1>1, <1>2, OpeningMaps, RowsMap DEF DbNext

\* _reconcile_legacy_tables, the baseline, the folds and the migrations, with a
\* crash and a restart at any step: when one process starts at a time, together
\* they are one upgrade, which keeps every record, every campaign and the
\* attachments whose record exists, drops the orphans and adds no row.
THEOREM OpeningIsOneUpgrade == StoreSpec => UpgradeIsAtomic
  <1>1. StoreInit => StoreInv
    BY StoreStarts, AloneStart DEF StoreInit, StoreInv
  <1>2. ASSUME StoreInv, [StoreNext]_allVars PROVE StoreInv'
    <2>1. [DbNext]_vars /\ OpenInv' /\ FileInv'
      BY <1>2, OpenInvStep, FileStep, StoreStepsOnFile DEF StoreInv
    <2>2. overlap' = overlap
      BY <2>1, OverlapFixed
    <2>. QED  BY <1>2, <2>1, <2>2, AloneStep DEF StoreInv
  <1>3. StoreInit => Abstract!Init
    <2> SUFFICES ASSUME Init PROVE Abstract!Init
      BY DEF StoreInit
    <2>1. Era \in {"old", "new"}
      BY DEF Era
    <2>2. db \in Db
      BY OpenStart DEF OpenInv, OpenType
    <2>3. LeadsSeen(db) \subseteq Record
      BY <2>2 DEF LeadsSeen, Db
    <2>4. \A t \in Table : TableSeen(db, t) \subseteq Row
      BY <2>2 DEF TableSeen, Db, Old, Tab
    <2>5. Visible \subseteq ({"leads"} \cup Table) \X (Record \cup LegacyRow \cup NewRow)
      <3>1. CASE overlap
        BY <3>1 DEF Visible
      <3>2. CASE ~overlap
        BY <2>3, <2>4, <3>2, VisibleIsSeen DEF Row
      <3>. QED  BY <3>1, <3>2
    <2>. QED  BY <2>1, <2>5 DEF Abstract!Init
  <1>4. ASSUME StoreInv, [StoreNext]_allVars
        PROVE  [Abstract!Upgrade \/ Abstract!Write]_<<Era, Visible>>
    <2>1. [DbNext]_vars /\ overlap' = overlap
      BY <1>4, StoreStepsOnFile, OverlapFixed DEF StoreInv
    <2>2. CASE overlap
      BY <2>1, <2>2 DEF Era, Visible
    <2>3. CASE ~overlap
      BY <1>4, <2>1, <2>3, DbStepMaps DEF StoreInv
    <2>. QED  BY <2>2, <2>3
  <1>5. StoreSpec => []StoreInv
    BY <1>1, <1>2, PTL DEF StoreSpec
  <1>. QED
    BY <1>3, <1>4, <1>5, PTL DEF StoreSpec, UpgradeIsAtomic, Abstract!Spec, Abstract!UpgradeVars
=============================================================================
