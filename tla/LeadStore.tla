------------------------------- MODULE LeadStore -------------------------------
(***************************************************************************)
(* The leads table (infrastructure/storage/lead_repo.py) under everything  *)
(* that writes it: campaigns and manual entry, the CRM routes, and the     *)
(* audit and scoring routes (api/routes/leads.py), which read whole leads, *)
(* work on the copies, and upsert them one by one.  Every repository call  *)
(* is awaited and is one transaction: the calls interleave in between, and *)
(* a copy may be as old as the call that holds it.                         *)
(*                                                                         *)
(* A lead is abstracted to the two halves of its identity (what an upsert  *)
(* keeps and what it fills in), whether it carries a digital score, an     *)
(* audit and a priority, and its CRM status.                               *)
(***************************************************************************)
EXTENDS Integers, Sequences, FiniteSets

CONSTANTS Who,       \* name and wilaya
          Reach,     \* phone and website
          Call,      \* concurrent calls of the audit and scoring routes
          Limit,     \* how many leads such a call loads
          Saved,     \* bound: the identities that are ever discovered
          MaxEdits   \* bound: edits in a behaviour, at most one of each row

Blank == "blank"     \* no phone and no website

ASSUME LeadStoreAssumption ==
  /\ Limit \in Nat \ {0}
  /\ Saved \subseteq Who \X (Reach \cup {Blank})
  /\ MaxEdits \in Nat
  /\ Blank \notin Reach

VARIABLES rows,     \* leads, by id: rows are never deleted
          batch,    \* the leads each call has still to write
          said,     \* row -> the CRM fields as they were created or as a human
                    \* last set them
          edited    \* rows whose contact data a human has edited

vars == <<rows, batch, said, edited>>

Status == {"discovered", "contacted", "rejected"}

Lead == [who : Who, reach : Reach \cup {Blank}, digital : BOOLEAN,
         audited : BOOLEAN, scored : BOOLEAN, status : Status]

Fingerprints == Who \X (Reach \cup {Blank})

\* Lead.fingerprint.
Fingerprint(l) == <<l.who, l.reach>>

\* A row is a lead with the fingerprint it was inserted under.
Stored == [fp : Fingerprints, lead : Lead]

\* What a call makes of the copy of a row.
Result == [id : Nat \ {0}, lead : Lead]

Ids == 1..Len(rows)

Init ==
  /\ rows = <<>>
  /\ batch = [p \in Call |-> {}]
  /\ said = <<>>
  /\ edited = {}

-----------------------------------------------------------------------------
\* upsert.

\* Mutants of Merged: the upsert writes the CRM fields, replaces the results, or
\* treats them like CRM fields.
MergedWithStatus(old, l)  == [old EXCEPT !.status = l.status, !.digital = @ \/ l.digital]
MergedReplacing(old, l)   == [old EXCEPT !.digital = l.digital, !.audited = l.audited]
MergedWithoutAudit(old, l) == [old EXCEPT !.reach = IF l.reach # Blank THEN l.reach ELSE @]

\* ON CONFLICT DO UPDATE: COALESCE of what may be missing, MAX of the priority;
\* name, wilaya and the CRM fields stay.
Merged(old, l) ==
  [old EXCEPT !.reach   = IF l.reach # Blank THEN l.reach ELSE @,
              !.digital = @ \/ l.digital,
              !.audited = @ \/ l.audited,
              !.scored  = @ \/ l.scored]

\* Mutant: rows are looked up by their present fields.
HoldingNow(l) == {r \in Ids : Fingerprint(rows[r].lead) = Fingerprint(l)}

\* The row that conflicts on the fingerprint: the stored column decides, not what
\* the row's present fields would give.
Holding(l) == {r \in Ids : rows[r].fp = Fingerprint(l)}

Upsert(l) ==
  \/ /\ \E r \in Holding(l) : rows' = [rows EXCEPT ![r].lead = Merged(@, l)]
     /\ said' = said
  \/ /\ Holding(l) = {}
     /\ rows' = Append(rows, [fp |-> Fingerprint(l), lead |-> l])
     /\ said' = Append(said, [who |-> l.who, status |-> l.status])

-----------------------------------------------------------------------------
\* A campaign saves a lead that it has audited and scored, or a user enters
\* one by hand.
Discovered(done) ==
  {l \in Lead : l.status = "discovered" /\ l.digital = done /\ l.audited = done
                                        /\ l.scored = done}

Save ==
  /\ \E done \in BOOLEAN : \E l \in Discovered(done) :
       Fingerprint(l) \in Saved /\ Upsert(l)
  /\ UNCHANGED <<batch, edited>>

\* The edit route: update_fields leaves the fingerprint column alone.
Edit(r) ==
  /\ r \notin edited /\ Cardinality(edited) < MaxEdits      \* the bound
  /\ \E w \in Who : \E c \in Reach \cup {Blank} :
       /\ rows' = [rows EXCEPT ![r].lead.who = w, ![r].lead.reach = c]
       /\ said' = [said EXCEPT ![r].who = w]
  /\ edited' = edited \cup {r}
  /\ batch' = batch

\* set_status, set_bulk_status.
SetStatus(r) ==
  /\ \E s \in Status :
       /\ rows' = [rows EXCEPT ![r].lead.status = s]
       /\ said' = [said EXCEPT ![r].status = s]
  /\ UNCHANGED <<batch, edited>>

\* set_contact(True); the flag itself is data.
SetContact(r) ==
  /\ rows[r].lead.status = "discovered"
  /\ rows' = [rows EXCEPT ![r].lead.status = "contacted"]
  /\ said' = [said EXCEPT ![r].status = "contacted"]
  /\ UNCHANGED <<batch, edited>>

-----------------------------------------------------------------------------
\* The audit and scoring calls.

\* LeadScorer.score sets the priority and the digital score.
Scored(l) == [l EXCEPT !.digital = TRUE, !.scored = TRUE]

\* The audit, then the score.
Audited(l) == [Scored(l) EXCEPT !.audited = TRUE]

\* The newest Limit rows of S (ids follow the discovery time).
Newest(S) == {r \in S : Cardinality({q \in S : q > r}) < Limit}

\* A call reads leads and works on them: the results depend on the copies alone,
\* and are kept here in their place.
Load(p, results) ==
  /\ batch[p] = {}
  /\ results # {}
  /\ batch' = [batch EXCEPT ![p] = results]
  /\ UNCHANGED <<rows, said, edited>>

\* analyze: get, one lead.
Analyze(p, r) == Load(p, {[id |-> r, lead |-> Audited(rows[r].lead)]})

\* list_unanalyzed: digital_score IS NULL.
Unanalyzed == {r \in Ids : ~rows[r].lead.digital}

AnalyzePending(p) ==
  Load(p, {[id |-> r, lead |-> Audited(rows[r].lead)] : r \in Newest(Unanalyzed)})

\* list_unscored: no priority, and not rejected.
Unscored == {r \in Ids : ~rows[r].lead.scored /\ rows[r].lead.status # "rejected"}

ScoreAll(p) ==
  Load(p, {[id |-> r, lead |-> Scored(rows[r].lead)] : r \in Newest(Unscored)})

\* One iteration of the loop, newest lead first: the result is upserted, the
\* row it was made from is not read again.
Write(p) ==
  /\ \E b \in batch[p] :
       /\ \A c \in batch[p] : c.id <= b.id
       /\ Upsert(b.lead)
       /\ batch' = [batch EXCEPT ![p] = @ \ {b}]
  /\ edited' = edited

Next ==
  \/ Save
  \/ \E r \in Ids : Edit(r) \/ SetStatus(r) \/ SetContact(r)
  \/ \E p \in Call :
       \/ \E r \in Ids : Analyze(p, r)
       \/ AnalyzePending(p)
       \/ ScoreAll(p)
       \/ Write(p)

Spec == Init /\ [][Next]_vars

\* A call that has begun goes on, and somebody calls analyze-pending again and
\* again while it finds something to do.
Fairness ==
  /\ \A p \in Call : WF_vars(Write(p))
  /\ SF_vars(\E p \in Call : AnalyzePending(p))

FairSpec == Spec /\ Fairness

-----------------------------------------------------------------------------
\* Type invariant.
TypeOK ==
  /\ rows \in Seq(Stored)
  /\ batch \in [Call -> SUBSET Result]
  /\ said \in Seq([who : Who, status : Status])
  /\ Len(said) = Len(rows)
  /\ edited \subseteq Ids

\* "CRM state is never clobbered by a re-scrape": name, wilaya and status of
\* every row are what a human last said, although audits and scores write back
\* copies that are older than it.
CrmKept ==
  \A r \in Ids : said[r] = [who |-> rows[r].lead.who, status |-> rows[r].lead.status]

\* UNIQUE(fingerprint) under concurrent upserts of stale copies, and a row that
\* nobody edited is still found by the fingerprint of its fields.
IdentityStable ==
  /\ \A q, r \in Ids : rows[q].fp = rows[r].fp => q = r
  /\ \A r \in Ids \ edited : rows[r].fp = Fingerprint(rows[r].lead)

\* "Richer values win": no re-scrape and no stale copy takes an audit, a digital
\* score or a priority away from a row.
ResultsKept ==
  [][\A r \in Ids :
       /\ rows[r].lead.digital => rows'[r].lead.digital
       /\ rows[r].lead.audited => rows'[r].lead.audited
       /\ rows[r].lead.scored  => rows'[r].lead.scored]_vars

\* analyze-pending works its list off: as long as nobody edits contact data,
\* every lead leaves list_unanalyzed.
PendingDrains ==
  \A id \in 1..Cardinality(Fingerprints) :
    (id \in Unanalyzed) ~> (id \in Ids \ Unanalyzed \/ edited # {})
=============================================================================
