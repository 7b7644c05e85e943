---------------------------- MODULE LeadStore_proofs ----------------------------
(***************************************************************************)
(* Proofs about the rows of the leads and checkpoints tables.  LeadStore:  *)
(* what upserts of stale copies may never do to a row, for any leads,      *)
(* calls, limits and bounds.  Checkpoints: where a row says it is, for any *)
(* boundaries, callers, coordinates and number of rows.                    *)
(***************************************************************************)
EXTENDS LeadStore, Checkpoints, SequenceTheorems, WellFoundedInduction,
        NaturalsInduction, TLAPS

\* The inductive invariant: each part needs only itself and the types.
LeadInvariant == TypeOK /\ CrmKept /\ IdentityStable

-----------------------------------------------------------------------------
\* The merge policy of the upsert's ON CONFLICT clause: the result is a lead, CRM
\* fields stay, results only accumulate.
LEMMA MergeKeeps ==
  ASSUME NEW old \in Lead, NEW l \in Lead
  PROVE  /\ Merged(old, l) \in Lead
         /\ Merged(old, l).who = old.who
         /\ Merged(old, l).status = old.status
         /\ Merged(old, l).reach = IF l.reach # Blank THEN l.reach ELSE old.reach
         /\ old.digital => Merged(old, l).digital
         /\ old.audited => Merged(old, l).audited
         /\ old.scored  => Merged(old, l).scored
  BY ZenonT(60) DEF Merged, Lead

\* What the audit and scoring routes make of a lead is a lead.
LEMMA WorkIsTyped ==
  ASSUME NEW l \in Lead
  PROVE  Scored(l) \in Lead /\ Audited(l) \in Lead
  BY DEF Scored, Audited, Lead

\* An upsert of any lead, however old the copy it was made from, keeps the
\* invariant of the tables and takes no result away.
LEMMA UpsertStep ==
  ASSUME LeadInvariant, NEW l \in Lead, Upsert(l)
  PROVE  /\ rows' \in Seq(Stored)
         /\ said' \in Seq([who : Who, status : Status])
         /\ Len(said') = Len(rows')
         /\ Len(rows') >= Len(rows)
         /\ CrmKept'
         /\ (edited' = edited) => IdentityStable'
         /\ \A r \in Ids : /\ rows[r].lead.digital => rows'[r].lead.digital
                           /\ rows[r].lead.audited => rows'[r].lead.audited
                           /\ rows[r].lead.scored  => rows'[r].lead.scored
<1> USE DEF Ids, Stored
<1>0. /\ rows \in Seq(Stored) /\ said \in Seq([who : Who, status : Status])
      /\ Len(said) = Len(rows) /\ edited \subseteq Ids
  BY DEF LeadInvariant, TypeOK
<1>1. CASE /\ \E r \in Holding(l) : rows' = [rows EXCEPT ![r].lead = Merged(@, l)]
           /\ said' = said
  <2>1. PICK r \in Holding(l) : rows' = [rows EXCEPT ![r].lead = Merged(@, l)]
    BY <1>1
  <2>2. /\ r \in Ids /\ rows[r].fp = Fingerprint(l)
        /\ rows[r] \in Stored /\ rows[r].lead \in Lead
    <3>1. r \in Ids /\ rows[r].fp = Fingerprint(l)
      BY DEF Holding
    <3>2. rows[r] \in Stored
      BY <1>0, <3>1, ElementOfSeq
    <3> QED BY <3>1, <3>2
  <2> DEFINE new == Merged(rows[r].lead, l)
  <2>3. /\ new \in Lead /\ new.who = rows[r].lead.who /\ new.status = rows[r].lead.status
        /\ new.reach = IF l.reach # Blank THEN l.reach ELSE rows[r].lead.reach
        /\ rows[r].lead.digital => new.digital
        /\ rows[r].lead.audited => new.audited
        /\ rows[r].lead.scored  => new.scored
    BY <2>2, MergeKeeps
  <2> HIDE DEF new
  <2>4. rows' = [rows EXCEPT ![r] = [rows[r] EXCEPT !.lead = new]]
    BY <2>1, <2>2, <1>0 DEF new
  <2>5. /\ rows' \in Seq(Stored) /\ Len(rows') = Len(rows)
        /\ \A q \in Ids : /\ rows'[q].fp = rows[q].fp
                          /\ q # r => rows'[q] = rows[q]
        /\ rows'[r].lead = new
    <3>1. DOMAIN rows = Ids /\ Len(rows) \in Nat /\ \A q \in Ids : rows[q] \in Stored
      <4>1. DOMAIN rows = Ids /\ Len(rows) \in Nat
        BY <1>0
      <4>2. ASSUME NEW q \in Ids PROVE rows[q] \in Stored
        BY <1>0, ElementOfSeq
      <4> QED BY <4>1, <4>2
    <3>2. [rows[r] EXCEPT !.lead = new] \in Stored
      BY <2>2, <2>3
    <3>3. rows' = [q \in Ids |-> IF q = r THEN [rows[r] EXCEPT !.lead = new] ELSE rows[q]]
      BY <2>4, <3>1, <1>0
    <3>4. rows' \in Seq(Stored) /\ Len(rows') = Len(rows)
      BY <3>1, <3>2, <3>3
    <3>5. rows'[r] = [rows[r] EXCEPT !.lead = new]
      BY <2>2, <3>3
    <3>6. rows'[r].lead = new /\ rows'[r].fp = rows[r].fp
      BY <2>2, <3>5
    <3> QED BY <3>3, <3>4, <3>6
  <2>6. CrmKept'
    BY <1>1, <2>3, <2>5 DEF LeadInvariant, CrmKept
  <2>7. ASSUME edited' = edited PROVE IdentityStable'
    <3>1. \A q, s \in Ids : rows[q].fp = rows[s].fp => q = s
      BY DEF LeadInvariant, IdentityStable
    <3>2. ASSUME NEW q \in Ids, q \notin edited
          PROVE  rows'[q].fp = Fingerprint(rows'[q].lead)
      <4>1. rows[q].fp = Fingerprint(rows[q].lead)
        BY <3>2 DEF LeadInvariant, IdentityStable
      <4>2. CASE q # r
        BY <4>1, <4>2, <2>5
      <4>3. CASE q = r
        BY <4>1, <4>3, <2>2, <2>3, <2>5 DEF Fingerprint
      <4> QED BY <4>2, <4>3
    <3> QED BY <2>5, <2>7, <3>1, <3>2 DEF IdentityStable
  <2> QED BY <1>0, <1>1, <2>3, <2>5, <2>6, <2>7
<1>2. CASE /\ Holding(l) = {}
           /\ rows' = Append(rows, [fp |-> Fingerprint(l), lead |-> l])
           /\ said' = Append(said, [who |-> l.who, status |-> l.status])
  <2>1. /\ Fingerprint(l) \in Fingerprints
        /\ l.who \in Who /\ l.status \in Status
    BY DEF Fingerprint, Fingerprints, Lead
  <2>2. /\ rows' \in Seq(Stored) /\ Len(rows') = Len(rows) + 1
        /\ \A q \in Ids : rows'[q] = rows[q]
        /\ rows'[Len(rows) + 1] = [fp |-> Fingerprint(l), lead |-> l]
    BY <1>0, <1>2, <2>1
  <2>3. /\ said' \in Seq([who : Who, status : Status]) /\ Len(said') = Len(said) + 1
        /\ \A q \in Ids : said'[q] = said[q]
        /\ said'[Len(said) + 1] = [who |-> l.who, status |-> l.status]
    BY <1>0, <1>2, <2>1
  <2>4. CrmKept'
    <3>1. \A q \in Ids : said[q] = [who |-> rows[q].lead.who, status |-> rows[q].lead.status]
      BY DEF LeadInvariant, CrmKept
    <3>2. \A q \in 1..Len(rows') : q \in Ids \/ q = Len(rows) + 1
      BY <1>0, <2>2
    <3>3. rows'[Len(rows) + 1].lead = l
      BY <2>2
    <3>4. ASSUME NEW q \in 1..Len(rows')
          PROVE  said'[q] = [who |-> rows'[q].lead.who, status |-> rows'[q].lead.status]
      <4>1. CASE q \in Ids
        BY <4>1, <1>0, <2>2, <2>3, <3>1
      <4>2. CASE q = Len(rows) + 1
        BY <4>2, <1>0, <2>3, <3>3
      <4> QED BY <3>2, <4>1, <4>2
    <3> QED BY <3>4 DEF CrmKept
  <2>5. ASSUME edited' = edited PROVE IdentityStable'
    <3>1. \A q \in Ids : rows[q].fp # Fingerprint(l)
      BY <1>2 DEF Holding
    <3>2. /\ \A q, s \in Ids : rows[q].fp = rows[s].fp => q = s
          /\ \A q \in Ids \ edited : rows[q].fp = Fingerprint(rows[q].lead)
      BY DEF LeadInvariant, IdentityStable
    <3>3. \A q \in 1..Len(rows') : q \in Ids \/ q = Len(rows) + 1
      BY <1>0, <2>2
    <3>4. rows'[Len(rows) + 1].lead = l /\ rows'[Len(rows) + 1].fp = Fingerprint(l)
      BY <2>2
    <3>5. \A q, s \in 1..Len(rows') : rows'[q].fp = rows'[s].fp => q = s
      BY <2>2, <3>1, <3>2, <3>3, <3>4
    <3>6. ASSUME NEW q \in 1..Len(rows'), q \notin edited
          PROVE  rows'[q].fp = Fingerprint(rows'[q].lead)
      <4>1. CASE q \in Ids
        BY <4>1, <2>2, <3>2, <3>6
      <4>2. CASE q = Len(rows) + 1
        BY <4>2, <3>4
      <4> QED BY <3>3, <4>1, <4>2
    <3> QED BY <2>5, <3>5, <3>6 DEF IdentityStable
  <2> QED BY <1>0, <2>2, <2>3, <2>4, <2>5
<1> QED BY <1>1, <1>2 DEF Upsert

\* Loading copies of rows leaves the tables alone; what is made of the copies is
\* made of leads.
LEMMA LoadStep ==
  ASSUME LeadInvariant, NEW p \in Call,
         \/ \E r \in Ids : Analyze(p, r)
         \/ AnalyzePending(p)
         \/ ScoreAll(p)
  PROVE  /\ UNCHANGED <<rows, said, edited>>
         /\ batch' \in [Call -> SUBSET Result]
<1>1. /\ rows \in Seq(Stored) /\ batch \in [Call -> SUBSET Result]
  BY DEF LeadInvariant, TypeOK
<1>2. \A r \in Ids : r \in Nat \ {0} /\ rows[r].lead \in Lead
  <2>1. ASSUME NEW r \in Ids PROVE rows[r] \in Stored
    BY <1>1, ElementOfSeq DEF Ids
  <2>2. Ids \subseteq Nat \ {0}
    BY <1>1 DEF Ids
  <2> QED BY <2>1, <2>2 DEF Stored
<1>3. \A S \in SUBSET Ids : Newest(S) \subseteq Ids
  BY DEF Newest
<1>4. \A r \in Ids : Scored(rows[r].lead) \in Lead /\ Audited(rows[r].lead) \in Lead
  BY <1>2, WorkIsTyped
<1>5. \A S \in SUBSET Ids :
        /\ {[id |-> r, lead |-> Audited(rows[r].lead)] : r \in Newest(S)} \in SUBSET Result
        /\ {[id |-> r, lead |-> Scored(rows[r].lead)] : r \in Newest(S)} \in SUBSET Result
  <2>1. \A r \in Ids : /\ [id |-> r, lead |-> Audited(rows[r].lead)] \in Result
                       /\ [id |-> r, lead |-> Scored(rows[r].lead)] \in Result
    BY <1>2, <1>4 DEF Result
  <2> QED BY <2>1, <1>3
<1>6. CASE \E r \in Ids : Analyze(p, r)
  BY <1>1, <1>2, <1>4, <1>6 DEF Analyze, Load, Result
<1>7. CASE AnalyzePending(p)
  BY <1>1, <1>5, <1>7 DEF AnalyzePending, Unanalyzed, Load
<1>8. CASE ScoreAll(p)
  BY <1>1, <1>5, <1>8 DEF ScoreAll, Unscored, Load
<1> QED BY <1>6, <1>7, <1>8

\* A CRM or edit call updates the columns of one row and leaves the fingerprint.
LEMMA UpdateStep ==
  ASSUME LeadInvariant, NEW r \in Ids, Edit(r) \/ SetStatus(r) \/ SetContact(r)
  PROVE  /\ LeadInvariant'
         /\ \A q \in Ids : /\ rows'[q].lead.digital = rows[q].lead.digital
                           /\ rows'[q].lead.audited = rows[q].lead.audited
                           /\ rows'[q].lead.scored  = rows[q].lead.scored
<1>1. /\ rows \in Seq(Stored) /\ said \in Seq([who : Who, status : Status])
      /\ batch \in [Call -> SUBSET Result]
      /\ Len(said) = Len(rows) /\ edited \subseteq Ids /\ r \in 1..Len(rows)
  BY DEF LeadInvariant, TypeOK, Ids
<1>2. /\ \A q \in Ids : rows[q] \in Stored
      /\ \A q \in Ids : said[q] \in [who : Who, status : Status]
  BY <1>1, ElementOfSeq DEF Ids
<1>3. \A q \in Ids : said[q] = [who |-> rows[q].lead.who, status |-> rows[q].lead.status]
  BY DEF LeadInvariant, CrmKept
<1>4. /\ \A q, s \in Ids : rows[q].fp = rows[s].fp => q = s
      /\ \A q \in Ids \ edited : rows[q].fp = Fingerprint(rows[q].lead)
  BY DEF LeadInvariant, IdentityStable
<1>5. CASE Edit(r)
  <2>1. PICK w \in Who, c \in Reach \cup {Blank} :
          /\ rows' = [rows EXCEPT ![r].lead.who = w, ![r].lead.reach = c]
          /\ said' = [said EXCEPT ![r].who = w]
    BY <1>5 DEF Edit
  <2>2. edited' = edited \cup {r} /\ batch' = batch
    BY <1>5 DEF Edit
  <2> DEFINE new == [rows[r].lead EXCEPT !.who = w, !.reach = c]
  <2>3. new \in Lead /\ new.digital = rows[r].lead.digital
        /\ new.audited = rows[r].lead.audited /\ new.scored = rows[r].lead.scored
        /\ new.who = w /\ new.status = rows[r].lead.status
    BY <1>2 DEF Stored, Lead
  <2>4. rows' = [rows EXCEPT ![r] = [rows[r] EXCEPT !.lead = new]]
    BY <2>1, <1>1, <1>2 DEF Stored, Lead
  <2>5. said' = [said EXCEPT ![r] = [said[r] EXCEPT !.who = w]]
    BY <2>1, <1>1
  <2> HIDE DEF new
  <2>6. [rows[r] EXCEPT !.lead = new] \in Stored
        /\ [said[r] EXCEPT !.who = w] \in [who : Who, status : Status]
    BY <1>2, <2>3 DEF Stored
  <2>7. /\ rows' \in Seq(Stored) /\ said' \in Seq([who : Who, status : Status])
        /\ Len(rows') = Len(rows) /\ Len(said') = Len(said)
    BY <1>1, <2>4, <2>5, <2>6
  <2>8. /\ \A q \in Ids : q # r => rows'[q] = rows[q] /\ said'[q] = said[q]
        /\ rows'[r].lead = new /\ rows'[r].fp = rows[r].fp
        /\ said'[r] = [said[r] EXCEPT !.who = w]
    BY <1>1, <1>2, <2>4, <2>5 DEF Ids, Stored
  <2>9. said'[r] = [who |-> new.who, status |-> new.status]
    <3>1. said[r] = [who |-> rows[r].lead.who, status |-> rows[r].lead.status]
      BY <1>3
    <3>2. [said[r] EXCEPT !.who = w] = [who |-> new.who, status |-> new.status]
      BY <2>3, <3>1
    <3> QED BY <2>8, <3>2
  <2>10. TypeOK'
    BY <1>1, <2>2, <2>7 DEF TypeOK, Ids
  <2>11. CrmKept'
    BY <1>1, <1>3, <2>7, <2>8, <2>9 DEF CrmKept, Ids
  <2>12. IdentityStable'
    BY <1>4, <2>2, <2>7, <2>8 DEF IdentityStable, Ids
  <2> QED BY <2>3, <2>8, <2>10, <2>11, <2>12 DEF LeadInvariant
<1>6. CASE SetStatus(r) \/ SetContact(r)
  <2>1. PICK s \in Status :
          /\ rows' = [rows EXCEPT ![r].lead.status = s]
          /\ said' = [said EXCEPT ![r].status = s]
          /\ UNCHANGED <<batch, edited>>
    BY <1>6 DEF SetStatus, SetContact, Status
  <2> DEFINE new == [rows[r].lead EXCEPT !.status = s]
  <2>3. new \in Lead /\ new.digital = rows[r].lead.digital
        /\ new.audited = rows[r].lead.audited /\ new.scored = rows[r].lead.scored
        /\ new.who = rows[r].lead.who /\ new.reach = rows[r].lead.reach /\ new.status = s
    BY <1>2 DEF Stored, Lead
  <2>4. rows' = [rows EXCEPT ![r] = [rows[r] EXCEPT !.lead = new]]
    BY <2>1, <1>1, <1>2 DEF Stored, Lead
  <2>5. said' = [said EXCEPT ![r] = [said[r] EXCEPT !.status = s]]
    BY <2>1, <1>1
  <2> HIDE DEF new
  <2>6. [rows[r] EXCEPT !.lead = new] \in Stored
        /\ [said[r] EXCEPT !.status = s] \in [who : Who, status : Status]
    BY <1>2, <2>3 DEF Stored
  <2>7. /\ rows' \in Seq(Stored) /\ said' \in Seq([who : Who, status : Status])
        /\ Len(rows') = Len(rows) /\ Len(said') = Len(said)
    BY <1>1, <2>4, <2>5, <2>6
  <2>8. /\ \A q \in Ids : q # r => rows'[q] = rows[q] /\ said'[q] = said[q]
        /\ rows'[r].lead = new /\ rows'[r].fp = rows[r].fp
        /\ said'[r] = [said[r] EXCEPT !.status = s]
    BY <1>1, <1>2, <2>4, <2>5, SMTT(30) DEF Ids, Stored
  <2>9. said'[r] = [who |-> new.who, status |-> new.status]
    <3>1. said[r] = [who |-> rows[r].lead.who, status |-> rows[r].lead.status]
      BY <1>3
    <3>2. [said[r] EXCEPT !.status = s] = [who |-> new.who, status |-> new.status]
      BY <2>3, <3>1
    <3> QED BY <2>8, <3>2
  <2>10. TypeOK'
    BY <1>1, <2>1, <2>7 DEF TypeOK, Ids
  <2>11. CrmKept'
    BY <1>1, <1>3, <2>7, <2>8, <2>9 DEF CrmKept, Ids
  <2>12. IdentityStable'
    <3>1. Fingerprint(new) = Fingerprint(rows[r].lead)
      BY <2>3 DEF Fingerprint
    <3>2. \A q \in Ids : rows'[q].fp = rows[q].fp
      BY <2>8
    <3>3. \A q \in Ids \ edited : rows'[q].fp = Fingerprint(rows'[q].lead)
      BY <1>4, <2>8, <3>1
    <3> QED BY <1>4, <2>1, <2>7, <3>2, <3>3, ZenonT(60) DEF IdentityStable, Ids
  <2> QED BY <2>3, <2>8, <2>10, <2>11, <2>12 DEF LeadInvariant
<1> QED BY <1>5, <1>6

-----------------------------------------------------------------------------
\* The empty tables satisfy the invariant.
LEMMA LeadInit == Init => LeadInvariant
  BY DEF Init, LeadInvariant, TypeOK, CrmKept, IdentityStable, Ids

\* Every step keeps the invariant and every result.
LEMMA LeadStep ==
  ASSUME LeadInvariant, [Next]_vars
  PROVE  /\ LeadInvariant'
         /\ \A r \in Ids : /\ rows[r].lead.digital => rows'[r].lead.digital
                           /\ rows[r].lead.audited => rows'[r].lead.audited
                           /\ rows[r].lead.scored  => rows'[r].lead.scored
<1>0. batch \in [Call -> SUBSET Result] /\ edited \subseteq Ids /\ Len(rows) \in Nat
  BY DEF LeadInvariant, TypeOK
<1>1. CASE Save
  <2>1. PICK l \in Lead : Upsert(l)
    BY <1>1 DEF Save, Discovered
  <2>2. batch' = batch /\ edited' = edited
    BY <1>1 DEF Save
  <2>3. /\ rows' \in Seq(Stored) /\ said' \in Seq([who : Who, status : Status])
        /\ Len(said') = Len(rows') /\ Len(rows') >= Len(rows)
        /\ CrmKept' /\ IdentityStable'
        /\ \A r \in Ids : /\ rows[r].lead.digital => rows'[r].lead.digital
                          /\ rows[r].lead.audited => rows'[r].lead.audited
                          /\ rows[r].lead.scored  => rows'[r].lead.scored
    BY <2>1, <2>2, UpsertStep
  <2>4. edited' \subseteq 1..Len(rows')
    BY <1>0, <2>2, <2>3 DEF Ids
  <2>5. TypeOK'
    BY <1>0, <2>2, <2>3, <2>4 DEF TypeOK, Ids
  <2> QED BY <2>3, <2>5 DEF LeadInvariant
<1>2. CASE \E r \in Ids : Edit(r) \/ SetStatus(r) \/ SetContact(r)
  BY <1>2, UpdateStep
<1>3. ASSUME NEW p \in Call, (\E r \in Ids : Analyze(p, r)) \/ AnalyzePending(p) \/ ScoreAll(p)
      PROVE  LeadInvariant' /\ rows' = rows
  <2>1. UNCHANGED <<rows, said, edited>> /\ batch' \in [Call -> SUBSET Result]
    BY <1>3, LoadStep
  <2> QED BY <2>1 DEF LeadInvariant, TypeOK, CrmKept, IdentityStable, Ids
<1>4. ASSUME NEW p \in Call, Write(p)
      PROVE  /\ LeadInvariant'
             /\ \A r \in Ids : /\ rows[r].lead.digital => rows'[r].lead.digital
                               /\ rows[r].lead.audited => rows'[r].lead.audited
                               /\ rows[r].lead.scored  => rows'[r].lead.scored
  <2>1. PICK b \in batch[p] : Upsert(b.lead) /\ batch' = [batch EXCEPT ![p] = @ \ {b}]
    BY <1>4 DEF Write
  <2>2. b.lead \in Lead /\ batch' \in [Call -> SUBSET Result]
    BY <1>0, <2>1 DEF Result
  <2>3. edited' = edited
    BY <1>4 DEF Write
  <2>4. /\ rows' \in Seq(Stored) /\ said' \in Seq([who : Who, status : Status])
        /\ Len(said') = Len(rows') /\ Len(rows') >= Len(rows)
        /\ CrmKept' /\ IdentityStable'
        /\ \A r \in Ids : /\ rows[r].lead.digital => rows'[r].lead.digital
                          /\ rows[r].lead.audited => rows'[r].lead.audited
                          /\ rows[r].lead.scored  => rows'[r].lead.scored
    BY <2>1, <2>2, <2>3, UpsertStep
  <2>5. edited' \subseteq 1..Len(rows')
    BY <1>0, <2>3, <2>4 DEF Ids
  <2>6. TypeOK'
    BY <1>0, <2>2, <2>4, <2>5 DEF TypeOK, Ids
  <2> QED BY <2>4, <2>6 DEF LeadInvariant
<1>5. CASE UNCHANGED vars
  BY <1>5 DEF vars, LeadInvariant, TypeOK, CrmKept, IdentityStable, Ids
<1> QED BY <1>1, <1>2, <1>3, <1>4, <1>5 DEF Next

-----------------------------------------------------------------------------
\* The invariant holds of every behaviour.
THEOREM LeadInvariance == Spec => []LeadInvariant
<1>1. LeadInvariant /\ [Next]_vars => LeadInvariant'
  BY LeadStep
<1> QED BY LeadInit, <1>1, PTL DEF Spec

\* Rows, loaded results and the history keep their types; there is one history
\* entry per row.
THEOREM LeadTypeOK == Spec => []TypeOK
<1>1. LeadInvariant => TypeOK
  BY DEF LeadInvariant
<1> QED BY LeadInvariance, <1>1, PTL

\* Whatever stale copies the audit and scoring routes write, and however often a
\* lead is found again, name, wilaya and status stay what a human last said.
THEOREM CrmStaysKept == Spec => []CrmKept
<1>1. LeadInvariant => CrmKept
  BY DEF LeadInvariant
<1> QED BY LeadInvariance, <1>1, PTL

\* No two rows share a fingerprint, and an unedited row is found by its fields'.
THEOREM IdentitiesAreStable == Spec => []IdentityStable
<1>1. LeadInvariant => IdentityStable
  BY DEF LeadInvariant
<1> QED BY LeadInvariance, <1>1, PTL

\* No step takes a digital score, an audit or a priority away from a row.
THEOREM ResultsAccumulate == Spec => ResultsKept
<1>1. LeadInvariant /\ [Next]_vars =>
        [\A r \in Ids :
           /\ rows[r].lead.digital => rows'[r].lead.digital
           /\ rows[r].lead.audited => rows'[r].lead.audited
           /\ rows[r].lead.scored  => rows'[r].lead.scored]_vars
  BY LeadStep
<1> QED BY LeadInvariance, <1>1, PTL DEF Spec, ResultsKept

-----------------------------------------------------------------------------
\* The geographic engine.

\* A side counts alike whichever way its ring runs along it, so of two wilayas
\* on either side of it a point on the border crosses it for both or neither.
LEMMA SharedSideCountsAlike ==
  ASSUME NEW a \in [lon : Int, lat : Int], NEW b \in [lon : Int, lat : Int],
         NEW p \in [lon : Int, lat : Int]
  PROVE  Crosses(a, b, p) <=> Crosses(b, a, p)
  <1>. DEFINE rise == b.lat - a.lat
              turn == (b.lon - a.lon) * (p.lat - a.lat) - (p.lon - a.lon) * rise
              back == (a.lon - b.lon) * (p.lat - b.lat) - (p.lon - b.lon) * (a.lat - b.lat)
  <1>1. back = 0 - turn /\ a.lat - b.lat = 0 - rise /\ rise \in Int /\ turn \in Int
    OBVIOUS
  <1>2. Crosses(a, b, p) <=> Spans(a, b, p.lat) /\ IF rise > 0 THEN turn > 0 ELSE turn < 0
    BY DEF Crosses
  <1>3. Crosses(b, a, p) <=>
          Spans(b, a, p.lat) /\ IF a.lat - b.lat > 0 THEN back > 0 ELSE back < 0
    BY DEF Crosses
  <1>4. Spans(a, b, p.lat) <=> Spans(b, a, p.lat)
    BY DEF Spans
  <1>5. Spans(a, b, p.lat) => rise # 0
    BY DEF Spans
  <1>. HIDE DEF rise, turn, back
  <1>. QED  BY <1>1, <1>2, <1>3, <1>4, <1>5

\* lookup answers with a wilaya that contains the point, if one does.
LEMMA LookupContains ==
  ASSUME NEW p
  PROVE  /\ Lookup(p) # Nowhere => Lookup(p) \in Wilaya /\ Contains(Lookup(p), p)
         /\ (\E w \in Wilaya : Contains(w, p)) => Lookup(p) # Nowhere
  <1>. DEFINE hits == {i \in DOMAIN Catalogue : Contains(Catalogue[i], p)}
  <1>1. DOMAIN Catalogue \subseteq Nat /\ \A i \in DOMAIN Catalogue : Catalogue[i] \in Wilaya
    BY GeographyAssumption
  <1>2. CASE hits = {}
    BY <1>1, <1>2, GeographyAssumption DEF Lookup
  <1>3. CASE hits # {}
    <2>1. PICK i \in hits : \A j \in hits : <<j, i>> \notin OpToRel(<, Nat)
      BY <1>1, <1>3, WFMin, NatLessThanWellFounded, Zenon
    <2>2. \A j \in hits : i \in Nat /\ j \in Nat /\ ~(j < i)
      BY <1>1, <2>1, Zenon DEF OpToRel
    <2>3. \A j \in hits : i <= j
      BY <2>2
    <2>4. (CHOOSE k \in hits : \A j \in hits : k <= j) \in hits
      BY <2>3
    <2>. QED  BY <1>1, <1>3, <2>4, GeographyAssumption DEF Lookup
  <1>. QED  BY <1>2, <1>3

-----------------------------------------------------------------------------
\* Checkpoints.

Places == [lon : Lon, lat : Lat]

\* Whatever a row may come to say; outside every boundary a new one says which
\* wilaya is nearest.
Names == Wilaya \cup {Unknown} \cup {NearestWilaya(p) : p \in Places}

Checkpoint == [place : Places, wilaya : Names]

Progress == {"write", "done", "refused"}

Creating == [op : {"create"}, place : Places, stage : Progress]
Patching == [op : {"patch"}, id : Id, fields : Payload, existing : Checkpoint,
             stage : Progress]
Deleting == [op : {"delete"}, id : Id, stage : Progress]

CheckpointTypeOK ==
  /\ checkpoints \in [Id -> Checkpoint \cup {Free, Gone}]
  /\ request \in [Caller -> Creating \cup Patching \cup Deleting \cup {None}]

\* Where the code does not let it diverge, the wilaya is that of the place.
RowPlaced(id) ==
  Live(id) /\ id \notin excused /\ Lookup(checkpoints[id].place) # Nowhere =>
    checkpoints[id].wilaya = Lookup(checkpoints[id].place)

CheckpointInv == CheckpointTypeOK /\ \A id \in Id : RowPlaced(id)

LEMMA PayloadFields ==
  ASSUME NEW fields \in Payload
  PROVE  /\ "lon" \in DOMAIN fields => fields["lon"] \in Lon
         /\ "lat" \in DOMAIN fields => fields["lat"] \in Lat
         /\ "wilaya" \in DOMAIN fields => fields["wilaya"] \in Wilaya \cup {Unknown}
  <1>1. CASE fields \in [{"lon"} -> Lon]
    BY <1>1
  <1>2. CASE fields \in [{"lat"} -> Lat]
    BY <1>2
  <1>3. CASE fields \in {[lon |-> x, lat |-> y] : x \in Lon, y \in Lat}
    BY <1>3
  <1>4. CASE fields \in [{"wilaya"} -> Wilaya \cup {Unknown}]
    BY <1>4
  <1>5. CASE fields = <<>>
    <2>1. DOMAIN fields = {}
      BY <1>5
    <2>. QED  BY <2>1
  <1>. QED  BY <1>1, <1>2, <1>3, <1>4, <1>5 DEF Payload

LEMMA FieldPlaces ==
  ASSUME NEW fields \in Payload, NEW place \in Places
  PROVE  Point(Field(fields, "lon", place.lon), Field(fields, "lat", place.lat)) \in Places
  BY PayloadFields DEF Point, Field, Places

\* A payload without coordinates leaves a checkpoint where it is.
LEMMA StaysPut ==
  ASSUME NEW fields \in Payload, NEW place \in Places, ~Moves(fields)
  PROVE  Point(Field(fields, "lon", place.lon), Field(fields, "lat", place.lat)) = place
  BY DEF Point, Field, Places, Moves

\* What an UPDATE makes of a row is a row, and it says where it is unless it is
\* one of the cases the code does not look at.
LEMMA PatchPlaces ==
  ASSUME NEW q \in Patching, NEW row \in Checkpoint
  PROVE  /\ Patched(q, row) \in Checkpoint
         /\ ~Diverges(q, row) /\ Moves(q.fields) =>
              Patched(q, row).wilaya = Lookup(Patched(q, row).place)
         /\ ~Diverges(q, row) /\ ~Moves(q.fields) => Patched(q, row) = row
  <1>. DEFINE place == Point(Field(q.fields, "lon", row.place.lon),
                             Field(q.fields, "lat", row.place.lat))
              says  == PatchedWilaya(q.existing, q.fields, row)
  <1>1. /\ q.fields \in Payload /\ q.existing \in Checkpoint
        /\ row.place \in Places /\ q.existing.place \in Places /\ row.wilaya \in Names
    BY DEF Patching, Checkpoint
  <1>2. Patched(q, row) = [place |-> place, wilaya |-> says]
    BY DEF Patched
  <1>3. place \in Places
    BY <1>1, FieldPlaces
  <1>4. Lookup(Target(q.existing, q.fields)) # Nowhere
          => Lookup(Target(q.existing, q.fields)) \in Names
    BY LookupContains DEF Names
  <1>5. Field(q.fields, "wilaya", row.wilaya) \in Names
    BY <1>1, PayloadFields DEF Field, Names
  <1>6. says \in Names
    BY <1>4, <1>5 DEF PatchedWilaya
  <1>7. ASSUME ~Diverges(q, row), Moves(q.fields)  PROVE says = Lookup(place)
    <2>1. row.place = q.existing.place /\ Lookup(Target(q.existing, q.fields)) # Nowhere
      BY <1>7 DEF Diverges
    <2>2. place = Target(q.existing, q.fields)
      BY <2>1 DEF Target
    <2>. QED  BY <1>7, <2>1, <2>2 DEF PatchedWilaya
  <1>8. ASSUME ~Diverges(q, row), ~Moves(q.fields)
        PROVE  place = row.place /\ says = row.wilaya
    BY <1>1, <1>8, StaysPut DEF PatchedWilaya, Field, Diverges
  <1>. HIDE DEF place, says
  <1>9. [place |-> place, wilaya |-> says] \in Checkpoint
    BY <1>3, <1>6 DEF Checkpoint
  <1>10. [place |-> row.place, wilaya |-> row.wilaya] = row
    BY DEF Checkpoint
  <1>. QED  BY <1>2, <1>7, <1>8, <1>9, <1>10

\* A request at its next stage is a request.
LEMMA RequestGoesOn ==
  ASSUME CheckpointTypeOK, NEW c \in Caller, request[c] # None, NEW stage \in Progress
  PROVE  [request EXCEPT ![c].stage = stage]
           \in [Caller -> Creating \cup Patching \cup Deleting \cup {None}]
  <1>1. [request[c] EXCEPT !.stage = stage] \in Creating \cup Patching \cup Deleting
    <2>1. CASE request[c] \in Creating
      BY <2>1 DEF Creating
    <2>2. CASE request[c] \in Patching
      BY <2>2 DEF Patching
    <2>3. CASE request[c] \in Deleting
      BY <2>3 DEF Deleting
    <2>. QED  BY <2>1, <2>2, <2>3 DEF CheckpointTypeOK
  <1>. QED  BY <1>1 DEF CheckpointTypeOK

LEMMA AcceptStep ==
  ASSUME CheckpointInv, NEW c \in Caller, Accept(c)
  PROVE  CheckpointInv'
  <1>1. UNCHANGED <<checkpoints, excused>>
    BY DEF Accept, AcceptCreate, AcceptPatch, AcceptDelete
  <1>2. ASSUME NEW x \in Lon, NEW y \in Lat, NEW named, AcceptCreate(c, Point(x, y), named)
        PROVE  CheckpointTypeOK'
    <2>1. [op |-> "create", place |-> Point(x, y), stage |-> "write"] \in Creating
      BY DEF Creating, Places, Point, Progress
    <2>. QED
      BY <1>1, <1>2, <2>1 DEF AcceptCreate, CheckpointInv, CheckpointTypeOK
  <1>3. ASSUME NEW id \in Id, NEW fields \in Payload, AcceptPatch(c, id, fields)
        PROVE  CheckpointTypeOK'
    <2>1. checkpoints[id] \in Checkpoint
      BY <1>3 DEF AcceptPatch, Live, CheckpointInv, CheckpointTypeOK
    <2>2. [op |-> "patch", id |-> id, fields |-> fields, existing |-> checkpoints[id],
           stage |-> "write"] \in Patching
      BY <2>1 DEF Patching, Progress
    <2>. QED
      BY <1>1, <1>3, <2>2 DEF AcceptPatch, CheckpointInv, CheckpointTypeOK
  <1>4. ASSUME NEW id \in Id, AcceptDelete(c, id)
        PROVE  CheckpointTypeOK'
    <2>1. [op |-> "delete", id |-> id, stage |-> "write"] \in Deleting
      BY DEF Deleting, Progress
    <2>. QED
      BY <1>1, <1>4, <2>1 DEF AcceptDelete, CheckpointInv, CheckpointTypeOK
  <1>5. CheckpointTypeOK'
    BY <1>2, <1>3, <1>4 DEF Accept
  <1>. QED  BY <1>1, <1>5 DEF CheckpointInv, RowPlaced, Live

\* A row is inserted with the wilaya of its geometry.
LEMMA InsertStep ==
  ASSUME CheckpointInv, NEW c \in Caller, Insert(c)
  PROVE  CheckpointInv'
  <1>. DEFINE new == CHOOSE id \in Id : checkpoints[id] = Free
              row == [place |-> request[c].place, wilaya |-> Derived(request[c].place)]
  <1>1. /\ request[c].op = "create" /\ excused' = excused
        /\ checkpoints' = [checkpoints EXCEPT ![new] = row]
        /\ request' = [request EXCEPT ![c].stage = "done"]
    BY DEF Insert
  <1>2. request[c] \in Creating
    BY <1>1 DEF CheckpointInv, CheckpointTypeOK, Creating, Patching, Deleting, None
  <1>3. request[c].place \in Places /\ request[c] # None
    BY <1>1, <1>2 DEF Creating, None
  <1>4. Derived(request[c].place) \in Names
    BY <1>3, LookupContains DEF Derived, Names
  <1>5. row \in Checkpoint
    BY <1>3, <1>4 DEF Checkpoint
  <1>6. Lookup(row.place) # Nowhere => row.wilaya = Lookup(row.place)
    BY DEF Derived
  <1>. HIDE DEF new, row
  <1>7. CheckpointTypeOK'
    BY <1>1, <1>3, <1>5, RequestGoesOn DEF CheckpointInv, CheckpointTypeOK, Progress
  <1>8. ASSUME NEW id \in Id  PROVE RowPlaced(id)'
    <2>1. checkpoints'[id] = IF id = new THEN row ELSE checkpoints[id]
      BY <1>1 DEF CheckpointInv, CheckpointTypeOK
    <2>. QED  BY <1>1, <1>6, <2>1 DEF CheckpointInv, RowPlaced, Live
  <1>. QED  BY <1>7, <1>8 DEF CheckpointInv

\* A row is updated by a request that read it earlier.
LEMMA PatchStep ==
  ASSUME CheckpointInv, NEW c \in Caller, Update(c)
  PROVE  CheckpointInv'
  <1>. DEFINE q == request[c]
  <1>1. q.op = "patch"
    BY DEF Update
  <1>2. q \in Patching /\ q # None
    BY <1>1 DEF CheckpointInv, CheckpointTypeOK, Creating, Patching, Deleting, None
  <1>3. q.id \in Id
    BY <1>2 DEF Patching
  <1>4. CASE ~Live(q.id)
    <2>1. /\ request' = [request EXCEPT ![c].stage = "refused"]
          /\ UNCHANGED <<checkpoints, excused>>
      BY <1>4 DEF Update
    <2>2. CheckpointTypeOK'
      BY <1>2, <2>1, RequestGoesOn DEF CheckpointInv, CheckpointTypeOK, Progress
    <2>. QED  BY <2>1, <2>2 DEF CheckpointInv, RowPlaced, Live
  <1>5. CASE Live(q.id)
    <2>. DEFINE row == checkpoints[q.id]
    <2>1. /\ checkpoints' = [checkpoints EXCEPT ![q.id] = Patched(q, row)]
          /\ excused' = IF Diverges(q, row) THEN excused \cup {q.id}
                        ELSE IF Moves(q.fields) THEN excused \ {q.id} ELSE excused
          /\ request' = [request EXCEPT ![c].stage = "done"]
      BY <1>5 DEF Update
    <2>2. row \in Checkpoint
      BY <1>3, <1>5 DEF Live, CheckpointInv, CheckpointTypeOK
    <2>3. /\ Patched(q, row) \in Checkpoint
          /\ ~Diverges(q, row) /\ Moves(q.fields) =>
               Patched(q, row).wilaya = Lookup(Patched(q, row).place)
          /\ ~Diverges(q, row) /\ ~Moves(q.fields) => Patched(q, row) = row
      BY <1>2, <2>2, PatchPlaces
    <2>4. CheckpointTypeOK'
      BY <1>2, <1>3, <2>1, <2>3, RequestGoesOn DEF CheckpointInv, CheckpointTypeOK, Progress
    <2>5. ASSUME NEW id \in Id  PROVE RowPlaced(id)'
      <3>1. RowPlaced(id)
        BY DEF CheckpointInv
      <3>2. checkpoints'[id] = IF id = q.id THEN Patched(q, row) ELSE checkpoints[id]
        BY <2>1 DEF CheckpointInv, CheckpointTypeOK
      <3>3. CASE id # q.id
        <4>1. id \in excused' <=> id \in excused
          BY <2>1, <3>3
        <4>. QED  BY <3>1, <3>2, <3>3, <4>1 DEF RowPlaced, Live
      <3>4. CASE id = q.id
        <4>1. CASE Diverges(q, row)
          BY <2>1, <3>4, <4>1 DEF RowPlaced
        <4>2. CASE ~Diverges(q, row) /\ Moves(q.fields)
          BY <2>3, <3>2, <3>4, <4>2 DEF RowPlaced
        <4>3. CASE ~Diverges(q, row) /\ ~Moves(q.fields)
          <5>1. checkpoints'[id] = checkpoints[id] /\ excused' = excused
            BY <2>1, <2>3, <3>2, <3>4, <4>3
          <5>. QED  BY <3>1, <5>1 DEF RowPlaced, Live
        <4>. QED  BY <4>1, <4>2, <4>3
      <3>. QED  BY <3>3, <3>4
    <2>. QED  BY <2>4, <2>5 DEF CheckpointInv
  <1>. QED  BY <1>4, <1>5

LEMMA DeleteStep ==
  ASSUME CheckpointInv, NEW c \in Caller, Delete(c)
  PROVE  CheckpointInv'
  <1>1. /\ request[c].op = "delete" /\ excused' = excused
        /\ checkpoints' = [checkpoints EXCEPT ![request[c].id] = Gone]
        /\ \E stage \in Progress : request' = [request EXCEPT ![c].stage = stage]
    BY DEF Delete, Progress
  <1>2. request[c] # None
    BY <1>1 DEF None
  <1>3. request' \in [Caller -> Creating \cup Patching \cup Deleting \cup {None}]
    BY <1>1, <1>2, RequestGoesOn DEF CheckpointInv
  <1>4. CheckpointTypeOK'
    BY <1>1, <1>3 DEF CheckpointInv, CheckpointTypeOK
  <1>5. ASSUME NEW id \in Id  PROVE RowPlaced(id)'
    <2>1. checkpoints'[id] = Gone \/ checkpoints'[id] = checkpoints[id]
      BY <1>1 DEF CheckpointInv, CheckpointTypeOK
    <2>. QED  BY <1>1, <2>1 DEF CheckpointInv, RowPlaced, Live
  <1>. QED  BY <1>4, <1>5 DEF CheckpointInv

LEMMA RespondStep ==
  ASSUME CheckpointInv, NEW c \in Caller, Respond(c)
  PROVE  CheckpointInv'
  <1>1. UNCHANGED <<checkpoints, excused>> /\ request' = [request EXCEPT ![c] = None]
    BY DEF Respond
  <1>2. CheckpointTypeOK'
    BY <1>1 DEF CheckpointInv, CheckpointTypeOK
  <1>. QED  BY <1>1, <1>2 DEF CheckpointInv, RowPlaced, Live

\* The inductive invariant of the checkpoints.
THEOREM CheckpointInvariant == CheckpointSpec => []CheckpointInv
  <1>1. CheckpointInit => CheckpointInv
    BY DEF CheckpointInit, CheckpointInv, CheckpointTypeOK, RowPlaced, Live
  <1>2. CheckpointInv /\ [CheckpointNext]_checkpointVars => CheckpointInv'
    <2>. SUFFICES ASSUME CheckpointInv, [CheckpointNext]_checkpointVars
                  PROVE  CheckpointInv'
      OBVIOUS
    <2>1. CASE UNCHANGED checkpointVars
      BY <2>1 DEF checkpointVars, CheckpointInv, CheckpointTypeOK, RowPlaced, Live
    <2>. QED
      BY <2>1, AcceptStep, InsertStep, PatchStep, DeleteStep, RespondStep
         DEF CheckpointNext
  <1>. QED  BY <1>1, <1>2, PTL DEF CheckpointSpec

\* No two boundaries overlap at a place a payload may name.
BoundariesDisjoint == \A x \in Lon, y \in Lat : \A v, w \in Wilaya :
              Contains(v, Point(x, y)) /\ Contains(w, Point(x, y)) => v = w

\* Whatever requests overlap, a checkpoint inside the boundaries names the one
\* wilaya that contains it, outside the cases the code does not look at; the
\* boundaries are taken not to overlap, as those of the dataset.
THEOREM CheckpointsPlaced == BoundariesDisjoint => (CheckpointSpec => []PlacedWhereItSays)
  <1>. SUFFICES ASSUME BoundariesDisjoint
                PROVE  CheckpointSpec => []PlacedWhereItSays
    OBVIOUS
  <1>1. CheckpointInv => PlacedWhereItSays
    <2>. SUFFICES ASSUME CheckpointInv, NEW id \in Id, Live(id), id \notin excused,
                         Lookup(checkpoints[id].place) # Nowhere
                  PROVE  {w \in Wilaya : Contains(w, checkpoints[id].place)}
                           = {checkpoints[id].wilaya}
      BY DEF PlacedWhereItSays
    <2>1. checkpoints[id].wilaya = Lookup(checkpoints[id].place)
      BY DEF CheckpointInv, RowPlaced
    <2>2. checkpoints[id].place \in Places
      BY DEF CheckpointInv, CheckpointTypeOK, Live, Checkpoint
    <2>3. PICK x \in Lon, y \in Lat : checkpoints[id].place = Point(x, y)
      BY <2>2 DEF Places, Point
    <2>4. /\ checkpoints[id].wilaya \in Wilaya
          /\ Contains(checkpoints[id].wilaya, checkpoints[id].place)
      BY <2>1, LookupContains
    <2>. QED  BY <2>3, <2>4 DEF BoundariesDisjoint
  <1>. QED  BY <1>1, CheckpointInvariant, PTL
=============================================================================
