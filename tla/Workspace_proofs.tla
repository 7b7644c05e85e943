---------------------------- MODULE Workspace_proofs ----------------------------
(***************************************************************************)
(* Proof that no session of the UI is shown less than what it wrote, for   *)
(* any sessions, reads and mutations, whatever is timed out, raced or      *)
(* written by others.  The invariant extends the property to the answers   *)
(* on their way: one that no clear has raced is at least as recent as what *)
(* is promised.                                                            *)
(***************************************************************************)
EXTENDS Workspace, SequenceTheorems, TLAPS

-----------------------------------------------------------------------------
ReadThread == [does : {"read"}, read : Panels, seen : Seq(Nat), raced : BOOLEAN]
FormThread == [does : Forms, stage : {"sent", "written", "refused"}]
Entry      == [age : Nat, seen : Seq(Nat), raced : BOOLEAN]

Types ==
  /\ edition \in [Table -> Nat]
  /\ promised \in [Table -> Nat]
  /\ cache \in [Panels -> Entry]
  /\ thread \in [Session -> {Idle} \cup ReadThread \cup FormThread]

\* An answer, or the part of it there is, shows what is due.
Shows(seen, read, due) ==
  /\ Len(seen) <= Len(Reads[read])
  /\ \A i \in DOMAIN seen : seen[i] >= due[Reads[read][i]]

Fresh ==
  /\ \A t \in Table : promised[t] <= edition[t]
  /\ \A read \in Panels : ~cache[read].raced => Shows(cache[read].seen, read, promised)
  /\ \A s \in Session :
       thread[s] \in ReadThread /\ ~thread[s].raced => Shows(thread[s].seen, thread[s].read, promised)

WorkspaceInv == Types /\ Fresh

-----------------------------------------------------------------------------
\* The kinds of thread are told apart by what they do.
LEMMA Threads ==
  ASSUME NEW t \in {Idle} \cup ReadThread \cup FormThread
  PROVE  /\ t \in ReadThread <=> t.does = "read"
         /\ t \in FormThread <=> t.does \in Mutation
         /\ t = Idle => t \notin ReadThread
<1>1. "read" \notin Mutation /\ "nothing" \notin Mutation /\ Forms \subseteq Mutation
  BY WorkspaceAssumption DEF Mutation
<1>2. CASE t = Idle
  BY <1>1, <1>2 DEF Idle, ReadThread, FormThread
<1>3. CASE t \in ReadThread
  BY <1>1, <1>3 DEF Idle, ReadThread, FormThread
<1>4. CASE t \in FormThread
  BY <1>1, <1>4 DEF Idle, ReadThread, FormThread
<1>. QED BY <1>2, <1>3, <1>4

LEMMA TablesOfReads ==
  ASSUME NEW read \in Panels
  PROVE  /\ Len(Reads[read]) \in Nat /\ DOMAIN Reads[read] = 1..Len(Reads[read])
         /\ \A i \in 1..Len(Reads[read]) : Reads[read][i] \in Table
<1>1. read \in DOMAIN Reads
  BY WorkspaceAssumption
<1>2. Reads[read] \in Seq(Table)
  <2>1. Reads[read] \in {<<"leads">>, <<"campaigns">>, <<"leads", "checkpoints">>, <<"checkpoints">>,
                         <<"crawler">>, <<"entities">>, <<"attachments">>}
    BY <1>1 DEF Reads
  <2>2. {<<"leads">>, <<"campaigns">>, <<"leads", "checkpoints">>, <<"checkpoints">>,
         <<"crawler">>, <<"entities">>, <<"attachments">>} \subseteq Seq(Table)
    BY DEF Table
  <2>. QED BY <2>1, <2>2
<1>. QED BY <1>2, LenProperties, ElementOfSeq

\* Every mutation but the crawler's clears every read of the table it writes.
LEMMA ClearsCover ==
  ASSUME NEW m \in Forms, m # "crawl", NEW read \in Panels, read \notin Clears[m],
         NEW i \in 1..Len(Reads[read])
  PROVE  Writes[m] \in Table /\ Reads[read][i] # Writes[m]
<1>1. m \in Mutation /\ read \in DOMAIN Reads
  BY WorkspaceAssumption
<1>2. \A r \in DOMAIN Reads : \A j \in 1..Len(Reads[r]) :
        r \notin Clears[m] => Reads[r][j] # Writes[m]
  BY <1>1, SMTT(30) DEF Mutation, Reads, Writes, Clears, LeadReads
<1>3. Writes[m] \in Table
  BY <1>1 DEF Mutation, Writes, Table
<1>. QED BY <1>1, <1>2, <1>3

-----------------------------------------------------------------------------
\* An entry that is kept, or forgotten, shows what it showed.
LEMMA KeptEntry ==
  ASSUME NEW entry \in Entry, NEW read \in Panels,
         ~entry.raced => Shows(entry.seen, read, promised)
  PROVE  /\ Kept(entry, read) \in Entry
         /\ ~Kept(entry, read).raced => Shows(Kept(entry, read).seen, read, promised)
<1>1. Nothing \in Entry /\ Shows(Nothing.seen, read, promised)
  <2>1. Nothing \in Entry /\ Nothing.seen = <<>>
    BY DEF Nothing, Entry
  <2>. QED BY <2>1, TablesOfReads DEF Shows
<1>2. Kept(entry, read) \in {Nothing, entry}
  BY DEF Kept
<1>. QED BY <1>1, <1>2

\* A step that touches neither promises nor caches, and adds no answer.
LEMMA ThreadStep ==
  ASSUME WorkspaceInv, NEW s \in Session,
         NEW t \in {Idle} \cup FormThread, thread' = [thread EXCEPT ![s] = t],
         \A table \in Table : edition'[table] >= edition[table],
         edition' \in [Table -> Nat], UNCHANGED <<cache, promised>>
  PROVE  WorkspaceInv'
<1> USE DEF WorkspaceInv
<1>1. Types'
  BY DEF Types
<1>2. \A table \in Table : promised'[table] <= edition'[table]
  BY DEF Types, Fresh
<1>3. \A read \in Panels : ~cache'[read].raced => Shows(cache'[read].seen, read, promised')
  BY DEF Fresh
<1>4. ASSUME NEW u \in Session, thread'[u] \in ReadThread, ~thread'[u].raced
      PROVE  Shows(thread'[u].seen, thread'[u].read, promised')
  <2>1. u # s
    <3>1. t \notin ReadThread
      BY Threads, WorkspaceAssumption DEF FormThread, ReadThread, Mutation
    <3>. QED BY <1>4, <3>1 DEF Types
  <2>2. thread'[u] = thread[u]
    BY <2>1 DEF Types
  <2>. QED BY <1>4, <2>2 DEF Fresh
<1>. QED BY <1>1, <1>2, <1>3, <1>4 DEF Fresh

\* The engine carries a mutation out: one table is written once more.
LEMMA WrittenStep ==
  ASSUME Types, NEW m \in Forms, Written(Writes[m])
  PROVE  /\ edition' \in [Table -> Nat]
         /\ \A table \in Table : edition'[table] >= edition[table]
<1>1. Writes[m] \in Table
  BY WorkspaceAssumption DEF Mutation, Writes, Table
<1>. QED BY <1>1 DEF Types, Written

-----------------------------------------------------------------------------
\* The steps of a read.

LEMMA StartReadStep ==
  ASSUME WorkspaceInv, NEW s \in Session, NEW read \in Panels, StartRead(s, read)
  PROVE  WorkspaceInv'
<1> DEFINE t == [does |-> "read", read |-> read, seen |-> <<>>, raced |-> FALSE]
<1> USE DEF WorkspaceInv
<1>1. thread' = [thread EXCEPT ![s] = t] /\ UNCHANGED <<edition, cache, adrift, promised>>
  BY DEF StartRead
<1>2. t \in ReadThread /\ t.read = read /\ t.seen = <<>>
  BY DEF ReadThread
<1>3. Shows(<<>>, read, promised)
  BY TablesOfReads DEF Shows
<1> HIDE DEF t
<1>4. Types'
  BY <1>1, <1>2 DEF Types
<1>. QED BY <1>1, <1>2, <1>3, <1>4 DEF Types, Fresh

\* A query sees the edition of the moment, which is all that may be promised.
LEMMA QueryStep ==
  ASSUME WorkspaceInv, NEW s \in Session, Query(s)
  PROVE  WorkspaceInv'
<1> DEFINE t     == thread[s]
           table == Reads[t.read][Len(t.seen) + 1]
           seen  == Append(t.seen, edition[table])
<1> USE DEF WorkspaceInv
<1>1. t \in ReadThread /\ t.read \in Panels /\ t.seen \in Seq(Nat) /\ t.raced \in BOOLEAN
  <2>1. t \in ReadThread
    BY Threads DEF Query, Types
  <2>. QED BY <2>1 DEF ReadThread
<1>2. /\ Len(t.seen) < Len(Reads[t.read]) /\ thread' = [thread EXCEPT ![s].seen = seen]
      /\ UNCHANGED <<edition, cache, adrift, promised>>
  BY DEF Query
<1>3. table \in Table /\ edition[table] \in Nat /\ promised[table] <= edition[table]
      /\ Len(t.seen) \in Nat /\ Len(t.seen) + 1 <= Len(Reads[t.read])
  <2>1. Len(t.seen) \in Nat /\ Len(Reads[t.read]) \in Nat
    BY <1>1, LenProperties, TablesOfReads
  <2>2. Len(t.seen) + 1 \in 1..Len(Reads[t.read])
    BY <1>2, <2>1
  <2>3. table \in Table
    BY <1>1, <2>2, TablesOfReads
  <2>. QED BY <2>1, <2>2, <2>3 DEF Types, Fresh
<1>4. /\ seen \in Seq(Nat) /\ Len(seen) = Len(t.seen) + 1 /\ DOMAIN seen = 1..Len(seen)
      /\ DOMAIN t.seen = 1..Len(t.seen)
      /\ \A i \in 1..Len(t.seen) : seen[i] = t.seen[i]
      /\ seen[Len(t.seen) + 1] = edition[table]
  <2>1. t.seen \in Seq(Nat) /\ edition[table] \in Nat
    BY <1>1, <1>3
  <2> HIDE DEF t, table
  <2>2. /\ seen \in Seq(Nat) /\ Len(seen) = Len(t.seen) + 1
        /\ \A i \in 1..Len(t.seen) : seen[i] = t.seen[i]
        /\ seen[Len(t.seen) + 1] = edition[table]
    BY <2>1, AppendProperties
  <2> HIDE DEF seen
  <2>. QED BY <2>1, <2>2, LenProperties
<1>5. Shows(t.seen, t.read, promised) => Shows(seen, t.read, promised)
  <2>1. ASSUME Shows(t.seen, t.read, promised), NEW i \in DOMAIN seen
        PROVE  seen[i] >= promised[Reads[t.read][i]]
    <3>1. CASE i \in 1..Len(t.seen)
      <4> HIDE DEF t, table, seen
      <4>1. i \in DOMAIN t.seen /\ seen[i] = t.seen[i]
        BY <1>4, <3>1, Zenon
      <4>2. t.seen[i] >= promised[Reads[t.read][i]]
        BY <2>1, <4>1, Zenon DEF Shows
      <4>. QED BY <4>1, <4>2, Zenon
    <3>2. CASE i = Len(t.seen) + 1
      BY <1>3, <1>4, <3>2 DEF Types
    <3> HIDE DEF t, table, seen
    <3>3. PICK n \in Nat : n = Len(t.seen)
      BY <1>3
    <3>4. DOMAIN seen = 1..(n + 1)
      BY <1>4, <3>3
    <3>5. i \in 1..n \/ i = n + 1
      BY <2>1, <3>4, SMTT(30)
    <3>. QED BY <3>1, <3>2, <3>3, <3>5
  <2>2. Len(seen) <= Len(Reads[t.read])
    BY <1>3, <1>4
  <2>. QED BY <2>1, <2>2, SMTT(30) DEF Shows
<1>6. /\ thread'[s] \in ReadThread /\ thread'[s].seen = seen
      /\ thread'[s].read = t.read /\ thread'[s].raced = t.raced
      /\ \A u \in Session \ {s} : thread'[u] = thread[u]
      /\ thread' \in [Session -> {Idle} \cup ReadThread \cup FormThread]
  <2>1. thread' = [thread EXCEPT ![s] = [t EXCEPT !.seen = seen]]
    BY <1>2 DEF Types
  <2> HIDE DEF t, seen
  <2>2. /\ [t EXCEPT !.seen = seen] \in ReadThread
        /\ [t EXCEPT !.seen = seen].seen = seen /\ [t EXCEPT !.seen = seen].read = t.read
        /\ [t EXCEPT !.seen = seen].raced = t.raced
    BY <1>1, <1>4 DEF ReadThread
  <2>. QED BY <2>1, <2>2 DEF Types
<1> HIDE DEF seen
<1>7. Types'
  BY <1>2, <1>6 DEF Types
<1>8. ASSUME NEW u \in Session, thread'[u] \in ReadThread, ~thread'[u].raced
      PROVE  Shows(thread'[u].seen, thread'[u].read, promised)
  BY <1>1, <1>5, <1>6, <1>8 DEF Fresh
<1>. QED BY <1>2, <1>7, <1>8 DEF Fresh

\* What is stored shows what its thread showed.
LEMMA StoreReadStep ==
  ASSUME WorkspaceInv, NEW s \in Session, StoreRead(s)
  PROVE  WorkspaceInv'
<1> DEFINE t     == thread[s]
           entry == [age |-> 0, seen |-> t.seen, raced |-> t.raced]
<1> USE DEF WorkspaceInv
<1>1. t \in ReadThread /\ t.read \in Panels /\ t.seen \in Seq(Nat) /\ t.raced \in BOOLEAN
  <2>1. t \in ReadThread
    BY Threads DEF StoreRead, Types
  <2>. QED BY <2>1 DEF ReadThread
<1>2. /\ cache' = [cache EXCEPT ![t.read] = Kept(entry, t.read)]
      /\ thread' = [thread EXCEPT ![s] = Idle] /\ UNCHANGED <<edition, adrift, promised>>
  BY DEF StoreRead
<1>3. entry \in Entry /\ (~entry.raced => Shows(entry.seen, t.read, promised))
  BY <1>1 DEF Entry, Fresh
<1> HIDE DEF entry
<1>4. /\ Kept(entry, t.read) \in Entry
      /\ ~Kept(entry, t.read).raced => Shows(Kept(entry, t.read).seen, t.read, promised)
  BY <1>1, <1>3, KeptEntry
<1>5. Types'
  BY <1>1, <1>2, <1>4 DEF Types
<1>6. Idle \notin ReadThread
  BY DEF Idle, ReadThread
<1>. QED BY <1>1, <1>2, <1>4, <1>5, <1>6 DEF Types, Fresh

LEMMA TickStep == ASSUME WorkspaceInv, Tick PROVE WorkspaceInv'
<1> DEFINE older(read) == [cache[read] EXCEPT !.age = @ + 1]
<1> USE DEF WorkspaceInv
<1>1. /\ UNCHANGED <<edition, thread, adrift, promised>>
      /\ cache' = [read \in Panels |-> IF cache[read] = Nothing THEN Nothing ELSE Kept(older(read), read)]
  BY DEF Tick
<1>2. ASSUME NEW read \in Panels
      PROVE  /\ cache'[read] \in Entry
             /\ ~cache'[read].raced => Shows(cache'[read].seen, read, promised)
  <2>1. cache[read] \in Entry /\ (~cache[read].raced => Shows(cache[read].seen, read, promised))
    BY DEF Types, Fresh
  <2>2. /\ older(read) \in Entry /\ older(read).seen = cache[read].seen
        /\ older(read).raced = cache[read].raced
    BY <2>1 DEF Entry
  <2> HIDE DEF older
  <2>3. /\ Kept(older(read), read) \in Entry
        /\ ~Kept(older(read), read).raced => Shows(Kept(older(read), read).seen, read, promised)
    BY <2>1, <2>2, KeptEntry
  <2>4. cache'[read] \in {cache[read], Kept(older(read), read)}
    BY <1>1
  <2>. QED BY <2>1, <2>3, <2>4
<1>3. Types'
  BY <1>1, <1>2 DEF Types
<1>. QED BY <1>1, <1>2, <1>3 DEF Fresh

-----------------------------------------------------------------------------
\* The steps of a mutation.

\* The answer promises what was written; what could show less is cleared, or
\* marked as raced.
LEMMA AnswerStep ==
  ASSUME WorkspaceInv, NEW s \in Session, Answer(s)
  PROVE  WorkspaceInv'
<1> DEFINE m == thread[s].does
<1> USE DEF WorkspaceInv
<1>1. /\ m \in Forms
      /\ cache' = [read \in Panels |-> IF read \in Clears[m] THEN Nothing ELSE cache[read]]
      /\ promised' = IF m = "crawl" THEN promised
                     ELSE [promised EXCEPT ![Writes[m]] = edition[Writes[m]]]
      /\ UNCHANGED <<edition, adrift>>
  <2>1. thread[s] \in FormThread
    BY Threads DEF Answer, Types
  <2>. QED BY <2>1 DEF Answer, FormThread
<1>2. thread' = [u \in Session |->
                   IF u = s THEN Idle
                   ELSE IF thread[u].does = "read" /\ thread[u].read \in Clears[m]
                        THEN [thread[u] EXCEPT !.raced = TRUE] ELSE thread[u]]
  BY DEF Answer
<1> HIDE DEF m
<1>3. Writes[m] \in Table
  BY <1>1, WorkspaceAssumption DEF Mutation, Writes, Table
<1>4. promised' \in [Table -> Nat] /\ \A t \in Table : promised'[t] <= edition'[t]
  BY <1>1, <1>3 DEF Types, Fresh
<1>5. ASSUME NEW read \in Panels, read \notin Clears[m], NEW seen \in Seq(Nat),
             Shows(seen, read, promised)
      PROVE  Shows(seen, read, promised')
  <2>1. DOMAIN seen \subseteq 1..Len(Reads[read])
    BY <1>5, LenProperties, TablesOfReads DEF Shows
  <2>2. \A i \in 1..Len(Reads[read]) : promised'[Reads[read][i]] = promised[Reads[read][i]]
    BY <1>1, <1>5, ClearsCover, TablesOfReads DEF Types
  <2>. QED BY <1>5, <2>1, <2>2 DEF Shows
<1>6. Nothing \in Entry /\ \A read \in Panels : Shows(Nothing.seen, read, promised')
  <2>1. Nothing \in Entry /\ Nothing.seen = <<>>
    BY DEF Nothing, Entry
  <2>. QED BY <2>1, TablesOfReads DEF Shows
<1>7. ASSUME NEW read \in Panels
      PROVE  /\ cache'[read] \in Entry
             /\ ~cache'[read].raced => Shows(cache'[read].seen, read, promised')
  <2>1. CASE read \in Clears[m]
    BY <1>1, <1>6, <2>1
  <2>2. CASE read \notin Clears[m]
    <3>1. cache'[read] = cache[read] /\ cache[read] \in Entry
      BY <1>1, <2>2 DEF Types
    <3>2. cache[read].seen \in Seq(Nat)
      BY <3>1 DEF Entry
    <3>. QED BY <1>5, <2>2, <3>1, <3>2 DEF Fresh
  <2>. QED BY <2>1, <2>2
<1>8. ASSUME NEW u \in Session
      PROVE  /\ thread'[u] \in {Idle} \cup ReadThread \cup FormThread
             /\ thread'[u] \in ReadThread /\ ~thread'[u].raced
                  => Shows(thread'[u].seen, thread'[u].read, promised')
  <2>0. thread[u] \in {Idle} \cup ReadThread \cup FormThread
    BY DEF Types
  <2>1. CASE u = s
    BY <1>2, <2>1 DEF Idle, ReadThread
  <2>2. CASE u # s /\ thread[u].does = "read" /\ thread[u].read \in Clears[m]
    <3>1. thread[u] \in ReadThread
      BY <2>0, <2>2, Threads
    <3>2. thread'[u] = [thread[u] EXCEPT !.raced = TRUE]
      BY <1>2, <2>2
    <3>. QED BY <3>1, <3>2 DEF ReadThread
  <2>3. CASE u # s /\ ~(thread[u].does = "read" /\ thread[u].read \in Clears[m])
    <3>1. thread'[u] = thread[u]
      BY <1>2, <2>3
    <3>2. ASSUME thread[u] \in ReadThread, ~thread[u].raced
          PROVE  Shows(thread[u].seen, thread[u].read, promised')
      <4>1. thread[u].read \in Panels \ Clears[m] /\ thread[u].seen \in Seq(Nat)
        BY <2>3, <3>2 DEF ReadThread
      <4>2. Shows(thread[u].seen, thread[u].read, promised)
        BY <3>2 DEF Fresh
      <4>. QED BY <1>5, <4>1, <4>2
    <3>. QED BY <2>0, <3>1, <3>2
  <2>. QED BY <2>1, <2>2, <2>3
<1>9. Types'
  <2>1. cache' \in [Panels -> Entry]
    BY <1>1, <1>7
  <2>2. thread' \in [Session -> {Idle} \cup ReadThread \cup FormThread]
    BY <1>2, <1>8
  <2>. QED BY <1>1, <1>4, <2>1, <2>2 DEF Types
<1>. QED BY <1>4, <1>7, <1>8, <1>9 DEF Fresh

LEMMA SessionStep ==
  ASSUME WorkspaceInv, NEW s \in Session,
         FailRead(s) \/ Send(s) \/ Handle(s) \/ Refuse(s) \/ GiveUp(s)
  PROVE  WorkspaceInv'
<1>0. edition \in [Table -> Nat] /\ \A table \in Table : edition[table] >= edition[table]
  BY DEF WorkspaceInv, Types
<1>1. CASE FailRead(s) \/ Refuse(s) \/ GiveUp(s)
  BY <1>0, <1>1, ThreadStep DEF FailRead, Refuse, GiveUp
<1>2. CASE Send(s)
  <2>1. PICK m \in Forms : thread' = [thread EXCEPT ![s] = [does |-> m, stage |-> "sent"]]
    BY <1>2 DEF Send
  <2>2. [does |-> m, stage |-> "sent"] \in FormThread
    BY DEF FormThread
  <2>. QED BY <1>0, <1>2, <2>1, <2>2, ThreadStep DEF Send
<1>3. CASE Handle(s)
  <2>1. thread[s] \in FormThread
    BY <1>3, Threads DEF Handle, WorkspaceInv, Types
  <2>2. PICK stage \in {"written", "refused"} : thread' = [thread EXCEPT ![s].stage = stage]
    BY <1>3 DEF Handle
  <2>3. thread' = [thread EXCEPT ![s] = [thread[s] EXCEPT !.stage = stage]]
    BY <2>2 DEF WorkspaceInv, Types
  <2>4. [thread[s] EXCEPT !.stage = stage] \in FormThread /\ thread[s].does \in Forms
    BY <2>1 DEF FormThread
  <2>5. edition' \in [Table -> Nat] /\ \A table \in Table : edition'[table] >= edition[table]
    BY <1>0, <1>3, <2>4, WrittenStep DEF Handle, WorkspaceInv
  <2>. QED BY <1>3, <2>3, <2>4, <2>5, ThreadStep DEF Handle
<1>. QED BY <1>1, <1>2, <1>3

\* Writes no session waits for promise nothing.
LEMMA OthersStep == ASSUME WorkspaceInv, HandleAdrift \/ Background PROVE WorkspaceInv'
<1> USE DEF WorkspaceInv
<1>1. PICK m \in Forms : Written(Writes[m])
  BY DEF HandleAdrift, Background
<1>2. edition' \in [Table -> Nat] /\ \A table \in Table : edition'[table] >= edition[table]
  BY <1>1, WrittenStep
<1>3. UNCHANGED <<cache, thread, promised>>
  BY DEF HandleAdrift, Background
<1>4. Types'
  BY <1>2, <1>3 DEF Types
<1>5. \A table \in Table : promised'[table] <= edition'[table]
  BY <1>2, <1>3 DEF Types, Fresh
<1>. QED BY <1>3, <1>4, <1>5 DEF Fresh

LEMMA WorkspaceStep == WorkspaceInv /\ [Next]_vars => WorkspaceInv'
<1>1. CASE WorkspaceInv /\ UNCHANGED vars
  BY <1>1 DEF vars, WorkspaceInv, Types, Fresh
<1>. QED BY <1>1, StartReadStep, QueryStep, StoreReadStep, AnswerStep, SessionStep, OthersStep,
            TickStep DEF Next

LEMMA WorkspaceInit == Init => WorkspaceInv
<1> SUFFICES ASSUME Init PROVE WorkspaceInv
  OBVIOUS
<1>1. Nothing \in Entry /\ Nothing.seen = <<>>
  BY DEF Nothing, Entry
<1>2. Types
  BY <1>1 DEF Init, Types
<1>3. Idle \notin ReadThread
  BY DEF Idle, ReadThread
<1>. QED BY <1>1, <1>2, <1>3, TablesOfReads DEF Init, WorkspaceInv, Fresh, Shows

\* A session that was told its write succeeded is never shown an older answer,
\* except one that was on its way when the caches were cleared.
THEOREM WritesAreShown == FairSpec => []OwnWritesShown
<1>1. WorkspaceInv => OwnWritesShown
  BY DEF WorkspaceInv, Fresh, Shows, OwnWritesShown
<1>. QED BY <1>1, WorkspaceInit, WorkspaceStep, PTL DEF FairSpec
=============================================================================
