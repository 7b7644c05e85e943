------------------------------ MODULE Checkpoints ------------------------------
(***************************************************************************)
(* Field checkpoints: the routes of api/routes/checkpoints.py over         *)
(* storage/checkpoint_repo.py.  A route is one request of some caller; it  *)
(* awaits the database between what it reads and what it writes, and other *)
(* requests run in between.  Of a row only the geography is kept: every    *)
(* other column is "details".                                              *)
(***************************************************************************)
EXTENDS Geography

CONSTANTS Caller,    \* whoever sends requests, one at a time each
          Id,        \* checkpoint ids; AUTOINCREMENT uses each of them once
          Lon, Lat,  \* the coordinates a payload may carry
          Unknown    \* a wilaya name that is not in the catalogue

VARIABLES checkpoints,  \* the table: id -> row, Free or Gone
          request,      \* caller -> the request the engine works on, or None
          excused       \* ids whose wilaya the code lets diverge from their place

checkpointVars == <<checkpoints, request, excused>>

Free == [place |-> "free"]
Gone == [place |-> "gone"]
None == [op |-> "none"]

Live(id) == checkpoints[id] \notin {Free, Gone}

CheckpointInit ==
  /\ checkpoints = [id \in Id |-> Free]
  /\ request = [c \in Caller |-> None]
  /\ excused = {}

-----------------------------------------------------------------------------
\* POST: the wilaya of the geometry, of the nearest wilaya off every boundary.
Derived(p) == IF Lookup(p) = Nowhere THEN NearestWilaya(p) ELSE Lookup(p)

\* A name of the catalogue that contradicts the geometry is refused (422); an
\* unknown one counts as none.
Accepted(named, p) == named \notin Wilaya \/ named = Derived(p)

\* The handler runs to its INSERT without suspending before it.
AcceptCreate(c, p, named) ==
  /\ request[c] = None
  /\ Accepted(named, p)
  /\ Cardinality({d \in Caller : request[d].op = "create" /\ request[d].stage = "write"})
       < Cardinality({id \in Id : checkpoints[id] = Free})  \* a bound: ids are not reused
  /\ request' = [request EXCEPT ![c] = [op |-> "create", place |-> p, stage |-> "write"]]
  /\ UNCHANGED <<checkpoints, excused>>

Insert(c) ==
  /\ request[c].op = "create" /\ request[c].stage = "write"
  /\ checkpoints' = [checkpoints EXCEPT ![CHOOSE id \in Id : checkpoints[id] = Free] =
                [place |-> request[c].place, wilaya |-> Derived(request[c].place)]]
  /\ request' = [request EXCEPT ![c].stage = "done"]
  /\ UNCHANGED excused

-----------------------------------------------------------------------------
\* PATCH.

\* What a payload may set: some coordinates, a wilaya by name, or details.
Payload ==
  UNION {[{"lon"} -> Lon], [{"lat"} -> Lat],
         {[lon |-> x, lat |-> y] : x \in Lon, y \in Lat},
         [{"wilaya"} -> Wilaya \cup {Unknown}], {<<>>}}

Moves(fields) == DOMAIN fields \cap {"lon", "lat"} # {}

\* repo.get: without a row the answer is 404.
AcceptPatch(c, id, fields) ==
  /\ request[c] = None
  /\ Live(id)
  /\ request' = [request EXCEPT ![c] = [op |-> "patch", id |-> id, fields |-> fields,
                                        existing |-> checkpoints[id], stage |-> "write"]]
  /\ UNCHANGED <<checkpoints, excused>>

Field(fields, name, default) == IF name \in DOMAIN fields THEN fields[name] ELSE default

\* Where the handler believes the checkpoint will be.
Target(existing, fields) ==
  Point(Field(fields, "lon", existing.place.lon), Field(fields, "lat", existing.place.lat))

\* Mutant of PatchedWilaya: moving leaves the wilaya to the payload.
PatchedWilayaAsGiven(existing, fields, row) == Field(fields, "wilaya", row.wilaya)

\* A move inside the boundaries re-derives the wilaya; outside, the column
\* keeps what the payload or the row has.  An unknown name is stored as given.
PatchedWilaya(existing, fields, row) ==
  IF Moves(fields) /\ Lookup(Target(existing, fields)) # Nowhere
  THEN Lookup(Target(existing, fields)) ELSE Field(fields, "wilaya", row.wilaya)

\* What the UPDATE makes of the row it finds.
Patched(q, row) ==
  [place  |-> Point(Field(q.fields, "lon", row.place.lon), Field(q.fields, "lat", row.place.lat)),
   wilaya |-> PatchedWilaya(q.existing, q.fields, row)]

\* The three ways the code has to store a wilaya that is not where the point
\* is: it is named outright, the point lies outside, or the row moved between
\* the read and the UPDATE of another move.
Diverges(q, row) ==
  \/ "wilaya" \in DOMAIN q.fields
  \/ Moves(q.fields) /\ Lookup(Target(q.existing, q.fields)) = Nowhere
  \/ Moves(q.fields) /\ row.place # q.existing.place

\* UPDATE .. WHERE id: a row that went meanwhile is a 404.
Update(c) ==
  LET q == request[c] IN
  /\ q.op = "patch" /\ q.stage = "write"
  /\ IF Live(q.id)
     THEN /\ checkpoints' = [checkpoints EXCEPT ![q.id] = Patched(q, @)]
          /\ excused' = IF Diverges(q, checkpoints[q.id]) THEN excused \cup {q.id}
                        ELSE IF Moves(q.fields) THEN excused \ {q.id} ELSE excused
          /\ request' = [request EXCEPT ![c].stage = "done"]
     ELSE request' = [request EXCEPT ![c].stage = "refused"] /\ UNCHANGED <<checkpoints, excused>>

-----------------------------------------------------------------------------
\* DELETE.
AcceptDelete(c, id) ==
  /\ request[c] = None
  /\ Live(id)
  /\ request' = [request EXCEPT ![c] = [op |-> "delete", id |-> id, stage |-> "write"]]
  /\ UNCHANGED <<checkpoints, excused>>

Delete(c) ==
  LET q == request[c] IN
  /\ q.op = "delete" /\ q.stage = "write"
  /\ checkpoints' = [checkpoints EXCEPT ![q.id] = Gone]
  /\ request' = [request EXCEPT ![c].stage = IF Live(q.id) THEN "done" ELSE "refused"]
  /\ UNCHANGED excused

-----------------------------------------------------------------------------
Accept(c) ==
  \/ \E x \in Lon, y \in Lat, named \in Wilaya \cup {Unknown} : AcceptCreate(c, Point(x, y), named)
  \/ \E id \in Id, fields \in Payload : AcceptPatch(c, id, fields)
  \/ \E id \in Id : AcceptDelete(c, id)

\* The answer leaves.
Respond(c) ==
  /\ request[c] # None /\ request[c].stage # "write"
  /\ request' = [request EXCEPT ![c] = None]
  /\ UNCHANGED <<checkpoints, excused>>

CheckpointNext == \E c \in Caller : Accept(c) \/ Insert(c) \/ Update(c) \/ Delete(c) \/ Respond(c)

CheckpointSpec == CheckpointInit /\ [][CheckpointNext]_checkpointVars

\* "Moving a checkpoint re-derives its wilaya from the new geometry": outside
\* the three excused cases a checkpoint names the one wilaya that contains it,
\* also on a shared border and after any sequence of overlapping requests.
PlacedWhereItSays ==
  \A id \in Id : Live(id) /\ id \notin excused /\ Lookup(checkpoints[id].place) # Nowhere =>
    {w \in Wilaya : Contains(w, checkpoints[id].place)} = {checkpoints[id].wilaya}
=============================================================================
