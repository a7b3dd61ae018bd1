------------------------------ MODULE Registry ------------------------------
(***************************************************************************)
(* Groups, artifacts and their schedules, as the write operations of the   *)
(* API leave them.  Requests overlap; each is one transaction at READ      *)
(* COMMITTED or several statements, and what a registration read before it *)
(* inserts may have changed by then: both inserts are upserts.  Creating   *)
(* the two schedules of an artifact follows the commit, and its errors are *)
(* only logged.                                                            *)
(***************************************************************************)
EXTENDS Naturals, FiniteSets

CONSTANTS Group,     \* maven_id values clients use; each holds one artifact
          Lower,     \* LOWER(maven_id)
          Field,     \* mutable columns of an artifact
          Client,    \* concurrent requests
          Schema,    \* schemas that may be put
          Unset,     \* NULL: no row, no schema
          MaxCalls,  \* bound on requests; a value written is the call's number
          MaxFaults  \* bound on Temporal errors and crashes of the server

Call == 1..MaxCalls

ASSUME RegistryAssumption ==
    /\ DOMAIN Lower = Group
    /\ Unset \notin Schema
    /\ Unset \notin [Field -> Call]
    /\ MaxCalls \in Nat
    /\ MaxFaults \in Nat

VARIABLES groups,     \* maven_ids with a row
          fields,     \* columns of each group's artifact, by who wrote them
          schema,     \* its version_schema
          schedules,  \* its schedules in Temporal
          request,    \* the request each client waits for
          calls,      \* requests so far
          faults,     \* failures so far
          created,    \* history: which calls were told 201, and for what
          raced       \* history: registrations of one thing have overlapped

vars == <<groups, fields, schema, schedules, request, calls, faults, created,
          raced>>

history == <<created, raced>>

Schedule == {"fast", "full"}

Row == [Field -> Call]

Op == {"RegisterGroup", "RegisterArtifact", "PutSchema", "UpdateArtifact"}

Step == {"idle", "check", "artifact", "write", "fast", "full"}

Request == [pc: Step, op: Op, group: Group, call: 0..MaxCalls,
            set: SUBSET Field, schema: Schema \cup {Unset}]

Waiting(g) == [pc |-> "idle", op |-> "RegisterGroup", group |-> g, call |-> 0,
               set |-> {}, schema |-> Unset]

TypeOK == /\ groups \subseteq Group
          /\ fields \in [Group -> Row \cup {Unset}]
          /\ schema \in [Group -> Schema \cup {Unset}]
          /\ schedules \in [Group -> SUBSET Schedule]
          /\ request \in [Client -> Request]
          /\ calls \in 0..MaxCalls
          /\ faults \in 0..MaxFaults
          /\ created \subseteq [op: Op, group: Group, call: Call]
          /\ raced \in BOOLEAN

Init == /\ groups = {}
        /\ fields = [g \in Group |-> Unset]
        /\ schema = [g \in Group |-> Unset]
        /\ schedules = [g \in Group |-> {}]
        /\ \E g \in Group : request = [c \in Client |-> Waiting(g)]
        /\ calls = 0
        /\ faults = 0
        /\ created = {}
        /\ raced = FALSE

database == <<groups, fields, schema>>

At(c, op, step) == request[c].op = op /\ request[c].pc = step
G(c)            == request[c].group
Goto(c, step)   == request' = [request EXCEPT ![c].pc = step]

\* The request is answered with something else than 201.
Answer(c) == Goto(c, "idle") /\ UNCHANGED created

Registering == {"RegisterGroup", "RegisterArtifact"}

\* Another request is registering the same thing.
Overlaps(op, g, c) == \E d \in Client \ {c} :
    /\ request[d].pc # "idle" /\ request[d].op = op
    /\ op \in Registering
    /\ Lower[request[d].group] = Lower[g]

Begin(c, op, g, set, s) ==
    /\ request[c].pc = "idle"
    /\ calls < MaxCalls
    /\ calls' = calls + 1
    /\ request' = [request EXCEPT ![c] =
                     [pc |-> "check", op |-> op, group |-> g, call |-> calls + 1,
                      set |-> set, schema |-> s]]
    /\ raced' = (raced \/ Overlaps(op, g, c))
    /\ UNCHANGED <<database, schedules, faults, created>>

\* A client sends a request.
Send(c, g) == \/ \E op \in Registering : Begin(c, op, g, Field, Unset)
              \/ \E s \in Schema : Begin(c, "PutSchema", g, {}, s)
              \/ \E set \in SUBSET Field \ {{}} : Begin(c, "UpdateArtifact", g, set, Unset)

-----------------------------------------------------------------------------
(* RegisterGroup: look for the name in any case, then upsert by its exact   *)
(* spelling.                                                                *)

\* Mutant: the check compares the spelling.
GroupExists_Exact(g) == g \in groups

GroupExists(g) == \E h \in groups : Lower[h] = Lower[g]

CheckGroup(c) ==
    /\ At(c, "RegisterGroup", "check")
    /\ \/ GroupExists(G(c)) /\ Answer(c)
       \/ ~GroupExists(G(c)) /\ Goto(c, "write") /\ UNCHANGED created
    /\ UNCHANGED <<database, schedules, calls, faults, raced>>

Created(c) == created' = created \cup
    {[op |-> request[c].op, group |-> G(c), call |-> request[c].call]}

CreateGroup(c) ==
    /\ At(c, "RegisterGroup", "write")
    /\ groups' = groups \cup {G(c)}
    /\ Goto(c, "idle")
    /\ Created(c)
    /\ UNCHANGED <<fields, schema, schedules, calls, faults, raced>>

-----------------------------------------------------------------------------
(* RegisterArtifact: the group, by its exact spelling, then the artifact,   *)
(* then an upsert that overwrites every column, version_schema with NULL.   *)

CheckItsGroup(c) ==
    /\ At(c, "RegisterArtifact", "check")
    /\ \/ G(c) \notin groups /\ Answer(c)
       \/ G(c) \in groups /\ Goto(c, "artifact") /\ UNCHANGED created
    /\ UNCHANGED <<database, schedules, calls, faults, raced>>

\* Mutant: registering an artifact again updates it.
CheckArtifact_Upserts(c) ==
    /\ At(c, "RegisterArtifact", "artifact")
    /\ Goto(c, "write") /\ UNCHANGED created
    /\ UNCHANGED <<database, schedules, calls, faults, raced>>

CheckArtifact(c) ==
    /\ At(c, "RegisterArtifact", "artifact")
    /\ \/ fields[G(c)] # Unset /\ Answer(c)
       \/ fields[G(c)] = Unset /\ Goto(c, "write") /\ UNCHANGED created
    /\ UNCHANGED <<database, schedules, calls, faults, raced>>

CreateArtifact(c) ==
    /\ At(c, "RegisterArtifact", "write")
    /\ fields' = [fields EXCEPT ![G(c)] = [f \in Field |-> request[c].call]]
    /\ schema' = [schema EXCEPT ![G(c)] = Unset]
    /\ Goto(c, "fast")
    /\ UNCHANGED <<groups, schedules, calls, faults, created, raced>>

Fault == faults < MaxFaults /\ faults' = faults + 1

\* createDualVersionSyncSchedules: a schedule that is there already and a
\* Temporal error are both logged, and the next one is created.
CreateFast(c) ==
    /\ At(c, "RegisterArtifact", "fast")
    /\ \/ /\ schedules' = [schedules EXCEPT ![G(c)] = @ \cup {"fast"}]
          /\ UNCHANGED faults
       \/ Fault /\ UNCHANGED schedules
    /\ Goto(c, "full")
    /\ UNCHANGED <<database, calls, history>>

\* Mutant: both schedules are given the fast one's ID.
CreateFull_SameID(c) ==
    /\ At(c, "RegisterArtifact", "full")
    /\ \/ schedules' = [schedules EXCEPT ![G(c)] = @ \cup {"fast"}] /\ UNCHANGED faults
       \/ Fault /\ UNCHANGED schedules
    /\ Goto(c, "idle")
    /\ Created(c)
    /\ UNCHANGED <<database, calls, raced>>

CreateFull(c) ==
    /\ At(c, "RegisterArtifact", "full")
    /\ \/ schedules' = [schedules EXCEPT ![G(c)] = @ \cup {"full"}] /\ UNCHANGED faults
       \/ Fault /\ UNCHANGED schedules
    /\ Goto(c, "idle")
    /\ Created(c)
    /\ UNCHANGED <<database, calls, raced>>

-----------------------------------------------------------------------------
(* Updates. *)

\* UpdateVersionSchema looks for the artifact before its transaction.
CheckSchema(c) ==
    /\ At(c, "PutSchema", "check")
    /\ \/ fields[G(c)] = Unset /\ Answer(c)
       \/ fields[G(c)] # Unset /\ Goto(c, "write") /\ UNCHANGED created
    /\ UNCHANGED <<database, schedules, calls, faults, raced>>

StoreSchema(c) ==
    /\ At(c, "PutSchema", "write")
    /\ schema' = [schema EXCEPT ![G(c)] = request[c].schema]
    /\ Answer(c)
    /\ UNCHANGED <<groups, fields, schedules, calls, faults, raced>>

\* Mutant: SET name = $3, without COALESCE.
Merge_Nulls(c, old) == [f \in Field |-> IF f \in request[c].set THEN request[c].call
                                        ELSE Unset]

\* SET name = COALESCE($3, name), ...: one statement.
Merge(c, old) == [f \in Field |-> IF f \in request[c].set THEN request[c].call
                                  ELSE old[f]]

UpdateArtifact(c) ==
    /\ At(c, "UpdateArtifact", "check")
    /\ fields' = IF fields[G(c)] = Unset THEN fields
                 ELSE [fields EXCEPT ![G(c)] = Merge(c, @)]
    /\ Answer(c)
    /\ UNCHANGED <<groups, schema, schedules, calls, faults, raced>>

\* The server crashes: an open transaction is rolled back, what comes after a
\* commit is not done.  Nothing goes on with it when the server is back.
Crash == /\ Fault
         /\ \E c \in Client : request[c].pc # "idle"
         /\ request' = [c \in Client |-> [request[c] EXCEPT !.pc = "idle"]]
         /\ UNCHANGED <<database, schedules, calls, history>>

Serve(c) == \/ CheckGroup(c) \/ CreateGroup(c)
            \/ CheckItsGroup(c) \/ CheckArtifact(c) \/ CreateArtifact(c)
            \/ CreateFast(c) \/ CreateFull(c)
            \/ CheckSchema(c) \/ StoreSchema(c) \/ UpdateArtifact(c)

Next == \/ \E c \in Client, g \in Group : Send(c, g)
        \/ \E c \in Client : Serve(c)
        \/ Crash

Spec == Init /\ [][Next]_vars

-----------------------------------------------------------------------------
(* Properties. *)

\* Of one thing - a group whatever its case, an artifact - one registration is
\* told 201, and no two groups differ in their case only, as long as no two
\* registrations of it overlap.
RegisteredOnce == ~raced =>
    /\ \A a, b \in created : a.op = b.op /\ Lower[a.group] = Lower[b.group]
                               => a.group = b.group /\ a.call = b.call
    /\ \A g, h \in groups : Lower[g] = Lower[h] => g = h

\* A schema that was put is replaced by another, never removed, as long as no
\* two registrations overlap.
SchemaStays == [][~raced' => \A g \in Group :
                    schema[g] # Unset => schema'[g] # Unset]_vars

InFlight(g) == \E c \in Client : /\ G(c) = g
                                 /\ request[c].op = "RegisterArtifact"
                                 /\ request[c].pc \in {"fast", "full"}

\* An artifact is synced by both schedules and only an artifact is: once its
\* registration is through, if nothing failed.
BothSchedules == \A g \in Group :
    /\ fields[g] = Unset => schedules[g] = {}
    /\ fields[g] # Unset /\ ~InFlight(g) /\ faults = 0 => schedules[g] = Schedule
=============================================================================
