---------------------------- MODULE AttachmentStore ----------------------------
(***************************************************************************)
(* The attachments of leads (api/routes/leads.py, lead_repo.py) on top of  *)
(* the opened database (Startup): each is a file in the attachments        *)
(* directory and a row of lead_attachments.  An upload writes the file,    *)
(* then the row; a deletion removes the row, then the file.  Both await in *)
(* between, so other requests, an error or the end of the process may come *)
(* there.  The stored name is fresh (uuid4), so that a row and its file    *)
(* are one attachment.  The rows of a legacy file came without files.      *)
(***************************************************************************)
EXTENDS Startup, Sequences

VARIABLES files,      \* attachments whose file is on disk
          named,      \* names that were given out
          requests    \* uploads and deletions under way: who, what, what is left

allVars == <<vars, files, named, requests>>

Rows == db.now["lead_attachments"].rows

\* Mutant of UploadOrder: the row first.
UploadRowFirst == <<"row", "file">>

\* upload_attachment: dest.write_bytes, then add_attachment.
UploadOrder == <<"file", "row">>

\* delete_attachment of the route: the row, then _silent_unlink.
DeletionOrder == <<"row", "file">>

StoreInit ==
  /\ Init
  /\ files = {}
  /\ named = {}
  /\ requests = {}

Request(p, a, does, left) == [by |-> p, of |-> a, does |-> does, left |-> left]

\* The lead exists, the content is neither empty nor too large.
BeginUpload(p, a) ==
  /\ pc[p] = "ready"
  /\ a \notin named
  /\ named' = named \cup {a}
  /\ requests' = requests \cup {Request(p, a, "upload", UploadOrder)}
  /\ UNCHANGED <<vars, files>>

\* get_attachment finds the row; two clients may delete one attachment.
BeginDeletion(p, a) ==
  /\ pc[p] = "ready"
  /\ a \in Rows
  /\ requests' = requests \cup {Request(p, a, "delete", DeletionOrder)}
  /\ UNCHANGED <<vars, files, named>>

\* A request's next statement on the table or the directory.
Proceed(r) ==
  /\ r.left # <<>>
  /\ requests' = (requests \ {r}) \cup
                 (IF Len(r.left) = 1 THEN {} ELSE {[r EXCEPT !.left = Tail(@)]})
  /\ \/ /\ Head(r.left) = "row"
        /\ \/ r.does = "upload" /\ AddRow(r.by, "lead_attachments", r.of)
           \/ r.does = "delete" /\ DeleteRow(r.by, "lead_attachments", r.of)
        /\ UNCHANGED files
     \/ /\ Head(r.left) = "file"
        /\ files' = IF r.does = "upload" THEN files \cup {r.of} ELSE files \ {r.of}
        /\ UNCHANGED vars
  /\ UNCHANGED named

\* A full disk, a locked database; an unlink that fails is ignored.
Fails(r) ==
  /\ requests' = requests \ {r}
  /\ UNCHANGED <<vars, files, named>>

\* The database layer's own steps; a process that ends drops its requests.
OpenStep ==
  /\ Next
  /\ requests' = {r \in requests : pc'[r.by] = "ready"}
  /\ UNCHANGED <<files, named>>

StoreNext ==
  \/ OpenStep
  \/ \E p \in Process, a \in LegacyRow \cup NewRow :
       \/ a \in NewRow /\ BeginUpload(p, a)
       \/ BeginDeletion(p, a)
  \/ \E r \in requests : Proceed(r) \/ Fails(r)

StoreSpec == StoreInit /\ [][StoreNext]_allVars

\* As in Startup: a process that has begun goes on, and is started again.
StoreFairness ==
  \A p \in Process :
    /\ WF_vars(Open(p))
    /\ WF_vars(Start(p))

StoreFairSpec == StoreSpec /\ StoreFairness

-----------------------------------------------------------------------------
\* A listed attachment can be downloaded: its row never outlives or precedes
\* its file, whatever requests overlap, fail or die half-way.
RowHasFile == Rows \cap NewRow \subseteq files
=============================================================================
