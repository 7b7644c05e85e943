------------------------------- MODULE Workspace -------------------------------
(***************************************************************************)
(* The Streamlit UI over the engine (ui/api_client.py).  Every session is  *)
(* a script thread of one server process; its reads go through caches all  *)
(* sessions share (st.cache_data: a TTL, an explicit clear), its mutations *)
(* go to the engine and clear the caches afterwards.  Other API clients,   *)
(* the campaign pumps and the crawler write the same tables and clear      *)
(* nothing.  Of what a read returns only its age is kept: the edition of   *)
(* each table it has seen.                                                 *)
(***************************************************************************)
EXTENDS Integers, Sequences, FiniteSets, Functions

CONSTANTS Session,    \* sessions of the UI
          Panels,     \* the reads they make
          Forms,      \* the mutations they make
          MaxWrites,  \* bound: the writes of a behaviour
          MaxAdrift   \* bound: mutations given up on and still under way

VARIABLES edition,  \* table -> how often it was written
          cache,    \* read -> its cached answer, or Nothing
          thread,   \* session -> what its script does
          adrift,   \* mutation -> how many the engine still works on unwaited for
          promised  \* ghost, table -> the edition later reads have to show

vars == <<edition, cache, thread, adrift, promised>>

Table == {"leads", "checkpoints", "attachments", "campaigns", "entities", "crawler"}
Nothing == [age |-> 0, seen |-> <<>>, raced |-> FALSE]
Idle == [does |-> "nothing"]

-----------------------------------------------------------------------------
\* The cached reads.

\* The tables a read goes to, one query after another.
Reads == [stats           |-> <<"leads">>,
          leads           |-> <<"leads">>,
          lead            |-> <<"leads">>,
          tags            |-> <<"leads">>,
          campaigns       |-> <<"campaigns">>,
          wilayas         |-> <<"leads", "checkpoints">>,
          geo_overview    |-> <<"leads", "checkpoints">>,
          checkpoints     |-> <<"checkpoints">>,
          crawler_status  |-> <<"crawler">>,
          entities_stats  |-> <<"entities">>,
          attachments     |-> <<"attachments">>]

\* @st.cache_data(ttl=..), in units of five seconds, rounded up.
TTL == [stats |-> 2, leads |-> 2, lead |-> 0, tags |-> 12, campaigns |-> 1,
        wilayas |-> 6, geo_overview |-> 2, checkpoints |-> 2,
        crawler_status |-> 3, entities_stats |-> 3, attachments |-> 1]

\* Mutant of Kept: an entry's TTL starts anew whenever the entry is looked at.
KeptForever(entry, read) == [entry EXCEPT !.age = 0]

\* What is left of an entry: one that reached its TTL is recomputed.
Kept(entry, read) == IF entry # Nothing /\ entry.age >= TTL[read] THEN Nothing ELSE entry

\* A session reads on a miss.  The compute lock admits one session per read; a
\* clear makes a new lock, so only the sessions it raced compute beside it.
StartRead(s, read) ==
  /\ thread[s] = Idle
  /\ cache[read] = Nothing
  /\ \A t \in Session : thread[t].does = "read" /\ thread[t].read = read => thread[t].raced
  /\ thread' = [thread EXCEPT ![s] = [does |-> "read", read |-> read, seen |-> <<>>, raced |-> FALSE]]
  /\ UNCHANGED <<edition, cache, adrift, promised>>

\* The engine answers a read query by query, each on its own connection.
Query(s) ==
  /\ thread[s].does = "read"
  /\ Len(thread[s].seen) < Len(Reads[thread[s].read])
  /\ LET table == Reads[thread[s].read][Len(thread[s].seen) + 1] IN
       thread' = [thread EXCEPT ![s].seen = Append(@, edition[table])]
  /\ UNCHANGED <<edition, cache, adrift, promised>>

\* The answer is stored whether or not the cache was cleared meanwhile.
StoreRead(s) ==
  LET t == thread[s] IN
  /\ t.does = "read" /\ Len(t.seen) = Len(Reads[t.read])
  /\ cache' = [cache EXCEPT ![t.read] =
                 Kept([age |-> 0, seen |-> t.seen, raced |-> t.raced], t.read)]
  /\ thread' = [thread EXCEPT ![s] = Idle]
  /\ UNCHANGED <<edition, adrift, promised>>

\* EngineUnavailable: a read that fails leaves nothing behind.
FailRead(s) ==
  /\ thread[s].does = "read"
  /\ thread' = [thread EXCEPT ![s] = Idle]
  /\ UNCHANGED <<edition, cache, adrift, promised>>

Tick ==
  /\ cache' = [read \in Panels |->
                 IF cache[read] = Nothing THEN Nothing
                 ELSE Kept([cache[read] EXCEPT !.age = @ + 1], read)]
  /\ UNCHANGED <<edition, thread, adrift, promised>>

-----------------------------------------------------------------------------
\* Mutations.

Mutation == {"lead", "resolve", "discover", "crawl", "upload", "unattach", "checkpoint"}

ASSUME WorkspaceAssumption ==
  /\ Panels \subseteq DOMAIN Reads
  /\ Forms \subseteq Mutation
  /\ {MaxWrites, MaxAdrift} \subseteq Nat

\* The table a mutation writes.
Writes == [lead |-> "leads", resolve |-> "entities", discover |-> "campaigns",
           crawl |-> "crawler", upload |-> "attachments", unattach |-> "attachments",
           checkpoint |-> "checkpoints"]

LeadReads == {"stats", "leads", "lead", "tags", "wilayas", "geo_overview", "entities_stats"}

\* Mutant of Clears: checkpoints=True clears the list and forgets the counts.
ClearsListOnly ==
  [lead |-> LeadReads, resolve |-> LeadReads, crawl |-> LeadReads,
   discover |-> LeadReads \cup {"campaigns"}, upload |-> LeadReads \cup {"attachments"},
   unattach |-> {"attachments"}, checkpoint |-> {"checkpoints"}]

\* The caches a mutation clears once it is answered: invalidate's leads=True is
\* the default; the panel clears the attachments after an upload.
Clears ==
  [lead |-> LeadReads, resolve |-> LeadReads, crawl |-> LeadReads,
   discover |-> LeadReads \cup {"campaigns"}, upload |-> LeadReads \cup {"attachments"},
   unattach |-> {"attachments"},
   checkpoint |-> LeadReads \cup {"checkpoints", "wilayas", "geo_overview"}]

Send(s) ==
  /\ thread[s] = Idle
  /\ \E m \in Forms : thread' = [thread EXCEPT ![s] = [does |-> m, stage |-> "sent"]]
  /\ UNCHANGED <<edition, cache, adrift, promised>>

WritesLeft == FoldFunction(+, 0, edition) < MaxWrites

Written(table) ==
  /\ WritesLeft
  /\ edition' = [edition EXCEPT ![table] = @ + 1]

\* The engine carries out a mutation, or refuses it (404, 409, 422).
Handle(s) ==
  /\ thread[s].does \in Mutation /\ thread[s].stage = "sent"
  /\ \/ Written(Writes[thread[s].does]) /\ thread' = [thread EXCEPT ![s].stage = "written"]
     \/ thread' = [thread EXCEPT ![s].stage = "refused"] /\ UNCHANGED edition
  /\ UNCHANGED <<cache, adrift, promised>>

\* The answer arrives: the session clears the caches; a read in flight does not
\* notice.  From here on what it wrote is promised to every later read.  No
\* clear drops the crawler's status, so starting the crawler promises nothing.
Answer(s) ==
  LET m == thread[s].does IN
  /\ m \in Mutation /\ thread[s].stage = "written"
  /\ cache' = [read \in Panels |-> IF read \in Clears[m] THEN Nothing ELSE cache[read]]
  /\ thread' = [t \in Session |->
                  IF t = s THEN Idle
                  ELSE IF thread[t].does = "read" /\ thread[t].read \in Clears[m]
                       THEN [thread[t] EXCEPT !.raced = TRUE] ELSE thread[t]]
  /\ promised' = IF m = "crawl" THEN promised
                 ELSE [promised EXCEPT ![Writes[m]] = edition[Writes[m]]]
  /\ UNCHANGED <<edition, adrift>>

\* EngineError: an error answer clears nothing.
Refuse(s) ==
  /\ thread[s].does \in Mutation /\ thread[s].stage = "refused"
  /\ thread' = [thread EXCEPT ![s] = Idle]
  /\ UNCHANGED <<edition, cache, adrift, promised>>

\* EngineUnavailable after the timeout: the session gives up and clears
\* nothing; what it sent may still be carried out.
GiveUp(s) ==
  LET m == thread[s].does IN
  /\ m \in Mutation
  /\ thread' = [thread EXCEPT ![s] = Idle]
  /\ IF thread[s].stage = "sent" /\ FoldFunction(+, 0, adrift) < MaxAdrift
     THEN adrift' = [adrift EXCEPT ![m] = @ + 1] ELSE UNCHANGED adrift
  /\ UNCHANGED <<edition, cache, promised>>

HandleAdrift ==
  /\ \E m \in Forms :
       /\ adrift[m] > 0
       /\ adrift' = [adrift EXCEPT ![m] = @ - 1]
       /\ Written(Writes[m])
  /\ UNCHANGED <<cache, thread, promised>>

\* An API client, a campaign or the crawler writes.
Background ==
  /\ \E m \in Forms : Written(Writes[m])
  /\ UNCHANGED <<cache, thread, adrift, promised>>

-----------------------------------------------------------------------------
Init ==
  /\ edition = [t \in Table |-> 0]
  /\ cache = [read \in Panels |-> Nothing]
  /\ thread = [s \in Session |-> Idle]
  /\ adrift = [m \in Forms |-> 0]
  /\ promised = [t \in Table |-> 0]

Next ==
  \/ \E s \in Session :
       \/ \E read \in Panels : StartRead(s, read)
       \/ Query(s) \/ StoreRead(s) \/ FailRead(s)
       \/ Send(s) \/ Handle(s) \/ Answer(s) \/ Refuse(s) \/ GiveUp(s)
  \/ HandleAdrift
  \/ Background
  \/ Tick

\* Clocks do not stop.
FairSpec == Init /\ [][Next]_vars /\ WF_vars(Tick)

-----------------------------------------------------------------------------
Edition(read, i) == edition[Reads[read][i]]

\* "Mutation helpers clear exactly the caches their writes affect": once a
\* mutation is answered, no cached answer is older than what it wrote, in any
\* session.  An answer that was on its way when the caches were cleared may be.
OwnWritesShown ==
  \A read \in Panels : cache[read] # Nothing /\ ~cache[read].raced =>
    \A i \in DOMAIN cache[read].seen : cache[read].seen[i] >= promised[Reads[read][i]]

\* Whatever was missed - a raced answer, a mutation given up on, a write of the
\* background - the TTL makes up for: no read is out of date for good.
StaleHeals ==
  \A read \in Panels :
    []<>(cache[read] = Nothing \/ \A i \in DOMAIN cache[read].seen : cache[read].seen[i] = Edition(read, i))
=============================================================================
