-------------------------- MODULE VersionOrdering --------------------------
(***************************************************************************)
(* VersionOrderingWorkflow: read the schema, read Mojang's manifest when   *)
(* the schema asks for it, read all rows and rank them, write the ranks    *)
(* and then the tags, one transaction per batch.  Every version sync runs  *)
(* it as a child of its own; PutArtifactSchema runs it too, terminating    *)
(* only the run an earlier PutArtifactSchema had started.  A transaction   *)
(* whose workflow was terminated, or whose attempt timed out, goes on and  *)
(* commits when it likes.                                                  *)
(***************************************************************************)
EXTENDS Naturals, FiniteSets

CONSTANTS Version,      \* version strings that may ever be published
          Schema,       \* schemas an operator may store
          NoSchema,     \* artifacts.version_schema IS NULL
          Sync,         \* the schedules whose runs order versions
          Put,          \* the ordering run PutArtifactSchema starts
          Manifest,     \* how many editions of the manifest there are, less 1
          UsesManifest, \* schemas with UseMojangManifest
          Weight,       \* Weight[s][m][v]: what CompareVersions orders v by
          Release,      \* Release[s]: versions whose qualifier is a release
          Tagged,       \* Tagged[s]: versions from which s extracts tags
          BatchSize,    \* orderingBatchSize (500 in the code)
          MaxAttempts,  \* attempts of an activity (3 in the code)
          MaxPuts,      \* bound on PutArtifactSchema calls
          MaxFaults     \* bound on failures and timeouts

Parsed == Schema \cup {NoSchema}
Run    == Sync \cup {Put}

ASSUME OrderingAssumption ==
    /\ IsFiniteSet(Version)
    /\ NoSchema \notin Schema
    /\ Put \notin Sync
    /\ Manifest \in Nat
    /\ UsesManifest \subseteq Schema
    /\ Weight \in [Parsed -> [0..Manifest -> [Version -> Nat]]]
    /\ Release \in [Parsed -> SUBSET Version]
    /\ Tagged \in [Parsed -> SUBSET Version]
    /\ Tagged[NoSchema] = {}
    /\ BatchSize \in Nat \ {0}
    /\ MaxAttempts \in Nat \ {0}
    /\ MaxPuts \in Nat
    /\ MaxFaults \in Nat

VARIABLES rows,         \* versions with a row
          order,        \* sort_order of each row, 0 when just inserted
          recommended,  \* rows with the recommended flag
          tags,         \* schemas whose tags a row has (keys differ by schema)
          schema,       \* artifacts.version_schema
          manifest,     \* the edition Mojang serves
          run,          \* local state of each ordering run
          late,         \* transactions nobody waits for any more
          pending,      \* PutArtifactSchema calls between commit and start
          puts,         \* PutArtifactSchema calls so far
          faults,       \* failures so far
          disturbed     \* history: the last run was not alone, or failed

vars == <<rows, order, recommended, tags, schema, manifest, run, late,
          pending, puts, faults, disturbed>>

stored == <<order, recommended, tags>>

\* Ranks of the rows, from 1; 0 for a version that has none.
Ranks == [Version -> 0..Cardinality(Version)]

\* A transaction: the batch, the ranks and the schema they were computed by;
\* for tags, what its DELETE statements can see.
Write == [kind: {"order", "tags"}, batch: SUBSET Version, plan: Ranks,
          schema: Parsed, seen: [Version -> SUBSET Schema]]

Step == {"idle", "schema", "manifest", "compute", "order", "tags", "commit"}

Local == [pc: Step, schema: Parsed, edition: 0..Manifest, plan: Ranks,
          done: 0..Cardinality(Version), seen: [Version -> SUBSET Schema], attempt: 1..MaxAttempts]

NoTags == [v \in Version |-> {}]
NoPlan == [v \in Version |-> 0]

Idle == [pc |-> "idle", schema |-> NoSchema, edition |-> 0, plan |-> NoPlan,
         done |-> 0, seen |-> NoTags, attempt |-> 1]

TypeOK == /\ rows \subseteq Version
          /\ order \in Ranks
          /\ recommended \subseteq Version
          /\ tags \in [Version -> SUBSET Schema]
          /\ schema \in Parsed
          /\ manifest \in 0..Manifest
          /\ run \in [Run -> Local]
          /\ late \subseteq Write
          /\ pending \in 0..MaxPuts
          /\ puts \in 0..MaxPuts
          /\ faults \in 0..MaxFaults
          /\ disturbed \in BOOLEAN

Init == /\ rows = {}
        /\ order = [v \in Version |-> 0]
        /\ recommended = {}
        /\ tags = NoTags
        /\ schema = NoSchema
        /\ manifest = 0
        /\ run = [r \in Run |-> Idle]
        /\ late = {}
        /\ pending = 0
        /\ puts = 0
        /\ faults = 0
        /\ disturbed = FALSE

At(r, step) == run[r].pc = step
Active      == {r \in Run : ~At(r, "idle")}
Move(r, l)  == run' = [run EXCEPT ![r] = l]
Begin(r)    == Move(r, [Idle EXCEPT !.pc = "schema"])

\* The next activity of r, with all its attempts.
Goto(r, l, step) == Move(r, [l EXCEPT !.pc = step, !.attempt = 1])

-----------------------------------------------------------------------------
(* The transactions. *)

\* What r has to write in its current step: every version it ranked, or those
\* of them it extracted tags from.
Listed(r) == {v \in Version : run[r].plan[v] > 0}
Written(r) == IF At(r, "order") THEN Listed(r)
              ELSE Listed(r) \cap Tagged[run[r].schema]

\* The batch a run has got to: both lists are chunked in the order of the plan.
Position(r, v) == Cardinality({w \in Written(r) : run[r].plan[w] <= run[r].plan[v]})

Batch(r) == {v \in Written(r) : /\ run[r].done < Position(r, v)
                                /\ Position(r, v) <= run[r].done + BatchSize}

\* Mutant: a last batch that is not full is left out.
MoreBatches_FullOnly(r) == run[r].done + 2 * BatchSize <= Cardinality(Written(r))

MoreBatches(r) == run[r].done + BatchSize < Cardinality(Written(r))

OrderWrite(r) == [kind |-> "order", batch |-> Batch(r), plan |-> run[r].plan,
                  schema |-> run[r].schema, seen |-> NoTags]

TagWrite(r) == [kind |-> "tags", batch |-> Batch(r),
                plan |-> NoPlan, schema |-> run[r].schema, seen |-> run[r].seen]

\* Mutant: DELETE and INSERT are separate transactions, of which the
\* second may be the one that is lost.
CommitTags_InTwo(w) ==
    /\ tags' \in {[v \in Version |-> IF v \in w.batch THEN {} ELSE tags[v]],
                  [v \in Version |-> IF v \in w.batch
                                     THEN {w.schema} ELSE tags[v]]}
    /\ UNCHANGED <<order, recommended>>

\* StoreVersionTags under READ COMMITTED: a DELETE that waited for another
\* transaction's rows deletes what it had seen of them, not what replaced them.
CommitTags(w) ==
    \E stale \in SUBSET w.batch :
        /\ tags' = [v \in Version |->
                      IF v \in stale THEN (tags[v] \ w.seen[v]) \cup {w.schema}
                      ELSE IF v \in w.batch THEN {w.schema}
                      ELSE tags[v]]
        /\ UNCHANGED <<order, recommended>>

\* ApplyVersionOrdering.
CommitOrder(w) ==
    /\ order' = [v \in Version |-> IF v \in w.batch THEN w.plan[v]
                                   ELSE order[v]]
    /\ recommended' = (recommended \ w.batch)
                        \cup (Release[w.schema] \cap w.batch)
    /\ UNCHANGED tags

Commit(w) == \/ w.kind = "order" /\ CommitOrder(w)
             \/ w.kind = "tags" /\ CommitTags(w)

\* What r has sent to the database and not heard of.
InFlight(r) == (IF At(r, "order") THEN {OrderWrite(r)} ELSE {})
                 \cup (IF At(r, "commit") THEN {TagWrite(r)} ELSE {})

-----------------------------------------------------------------------------
(* What starts a run. *)

\* A sync stores the versions that are new to it, if any, and starts its
\* ordering child; FetchVersions that finds nothing ends it before.
Fire(r, new) ==
    /\ r \in Sync
    /\ At(r, "idle")
    /\ new \subseteq Version \ rows
    /\ rows \cup new # {}
    /\ rows' = rows \cup new
    /\ Begin(r)
    /\ disturbed' = (Active # {} \/ late # {})
    /\ UNCHANGED <<stored, schema, manifest, late, pending, puts, faults>>

\* PutArtifactSchema: the schema is committed first.
PutSchema(s) ==
    /\ puts < MaxPuts
    /\ s # schema
    /\ schema' = s
    /\ puts' = puts + 1
    /\ pending' = pending + 1
    /\ UNCHANGED <<rows, stored, manifest, run, late, faults, disturbed>>

\* Then ExecuteWorkflow, with TERMINATE_EXISTING: what the terminated run had
\* in flight may still commit.
StartOrdering ==
    /\ pending > 0
    /\ pending' = pending - 1
    /\ late' \in {late, late \cup InFlight(Put)}
    /\ Begin(Put)
    /\ disturbed' = (Active \ {Put} # {} \/ late' # {})
    /\ UNCHANGED <<rows, stored, schema, manifest, puts, faults>>

Fault == /\ faults < MaxFaults
         /\ faults' = faults + 1

\* The start fails: the handler logs it and answers 200.
StartFails ==
    /\ pending > 0
    /\ pending' = pending - 1
    /\ disturbed' = TRUE
    /\ Fault
    /\ UNCHANGED <<rows, stored, schema, manifest, run, late, puts>>

\* Mojang publishes a version.
NewEdition ==
    /\ manifest < Manifest
    /\ manifest' = manifest + 1
    /\ disturbed' = TRUE
    /\ UNCHANGED <<rows, stored, schema, run, late, pending, puts, faults>>

-----------------------------------------------------------------------------
(* The activities of a run. *)

elsewhere == <<rows, schema, manifest, late, pending, puts, faults, disturbed>>

\* Mutant: the child of a sync orders without the schema.
FetchVersionSchema_SyncSkips(r) ==
    /\ At(r, "schema")
    /\ Goto(r, [run[r] EXCEPT !.schema = IF r \in Sync THEN NoSchema ELSE schema],
            IF schema \in UsesManifest THEN "manifest" ELSE "compute")
    /\ UNCHANGED <<stored, elsewhere>>

FetchVersionSchema(r) ==
    /\ At(r, "schema")
    /\ Goto(r, [run[r] EXCEPT !.schema = schema],
            IF schema \in UsesManifest THEN "manifest" ELSE "compute")
    /\ UNCHANGED <<stored, elsewhere>>

FetchMojangManifest(r) ==
    /\ At(r, "manifest")
    /\ Goto(r, [run[r] EXCEPT !.edition = manifest], "compute")
    /\ UNCHANGED <<stored, elsewhere>>

\* Positions of the rows in ListArtifactVersions, ORDER BY sort_order DESC:
\* rows of one sort_order, as all new ones are, come in any order.
Listings == {f \in [rows -> 1..Cardinality(rows)] :
               \A v, w \in rows : /\ v # w => f[v] # f[w]
                                  /\ order[v] > order[w] => f[v] < f[w]}

\* Mutant: a version counts itself among those before it.
Plan_OneTooMany(l, listing) ==
    [v \in Version |-> IF v \notin rows THEN 0 ELSE 1 + Cardinality({w \in rows :
        Weight[l.schema][l.edition][w] <= Weight[l.schema][l.edition][v]})]

\* The stable sort, oldest first: 1 + how many rows come before.
Plan(l, listing) ==
    [v \in Version |-> IF v \notin rows THEN 0 ELSE 1 + Cardinality({w \in rows :
        \/ Weight[l.schema][l.edition][w] < Weight[l.schema][l.edition][v]
        \/ /\ Weight[l.schema][l.edition][w] = Weight[l.schema][l.edition][v]
           /\ listing[w] < listing[v]})]

ComputeVersionOrdering(r) ==
    /\ At(r, "compute")
    /\ \E listing \in Listings :
          Goto(r, [run[r] EXCEPT !.plan = Plan(run[r], listing)], "order")
    /\ UNCHANGED <<stored, elsewhere>>

\* Mutant: the second list is gone through from where the first one ended.
ApplyVersionOrdering_KeepsDone(r) ==
    /\ At(r, "order")
    /\ CommitOrder(OrderWrite(r))
    /\ IF MoreBatches(r)
       THEN Goto(r, [run[r] EXCEPT !.done = @ + BatchSize], "order")
       ELSE Goto(r, run[r], "tags")
    /\ UNCHANGED elsewhere

ApplyVersionOrdering(r) ==
    /\ At(r, "order")
    /\ CommitOrder(OrderWrite(r))
    /\ IF MoreBatches(r)
       THEN Goto(r, [run[r] EXCEPT !.done = @ + BatchSize], "order")
       ELSE Goto(r, [run[r] EXCEPT !.done = 0], "tags")
    /\ UNCHANGED elsewhere

\* A tag transaction begins.
BeginTags(r) ==
    /\ At(r, "tags")
    /\ Written(r) # {}
    /\ Move(r, [run[r] EXCEPT !.pc = "commit", !.seen = tags])
    /\ UNCHANGED <<stored, elsewhere>>

\* No version has tags: the run ends without a transaction.
SkipTags(r) ==
    /\ At(r, "tags")
    /\ Written(r) = {}
    /\ Move(r, Idle)
    /\ UNCHANGED <<stored, elsewhere>>

StoreVersionTags(r) ==
    /\ At(r, "commit")
    /\ CommitTags(TagWrite(r))
    /\ IF MoreBatches(r)
       THEN Goto(r, [run[r] EXCEPT !.done = @ + BatchSize], "tags")
       ELSE Move(r, Idle)
    /\ UNCHANGED elsewhere

\* An attempt fails before its commit, or times out: a transaction that timed
\* out goes on.  After the last attempt the run fails.
AttemptFails(r) ==
    /\ r \in Active
    /\ Fault
    /\ late' \in {late, late \cup InFlight(r)}
    /\ IF run[r].attempt < MaxAttempts
       THEN /\ Move(r, [run[r] EXCEPT !.attempt = @ + 1,
                          !.pc = IF @ = "commit" THEN "tags" ELSE @])
            /\ UNCHANGED disturbed
       ELSE /\ Move(r, Idle)
            /\ disturbed' = TRUE
    /\ UNCHANGED <<rows, stored, schema, manifest, pending, puts>>

\* A transaction nobody waits for commits, or is rolled back.
LateEnds(w) ==
    /\ late' = late \ {w}
    /\ Commit(w) \/ UNCHANGED stored
    /\ UNCHANGED <<rows, schema, manifest, run, pending, puts, faults, disturbed>>

Activity(r) == \/ FetchVersionSchema(r)
               \/ FetchMojangManifest(r)
               \/ ComputeVersionOrdering(r)
               \/ ApplyVersionOrdering(r)
               \/ BeginTags(r)
               \/ SkipTags(r)
               \/ StoreVersionTags(r)

Next == \/ \E r \in Sync, new \in SUBSET Version : Fire(r, new)
        \/ \E s \in Schema : PutSchema(s)
        \/ StartOrdering
        \/ StartFails
        \/ NewEdition
        \/ \E r \in Run : Activity(r) \/ AttemptFails(r)
        \/ \E w \in late : LateEnds(w)

Spec == Init /\ [][Next]_vars

\* The schedules keep firing and the worker runs the activities of their
\* runs.  What an operator's call started may hang, so may a transaction
\* nobody waits for.
FairSpec == Spec /\ \A r \in Sync : WF_vars(Activity(r) \/ Fire(r, {}))

-----------------------------------------------------------------------------
(* Properties. *)

Quiet == Active = {} /\ pending = 0

Respects(s, m) ==
    \A v, w \in rows : Weight[s][m][v] < Weight[s][m][w] => order[v] < order[w]

EditionOf(s) == IF s \in UsesManifest THEN manifest ELSE 0

\* What the row of every version shows is what the current schema says.
Shown(s) == /\ Respects(s, EditionOf(s))
            /\ recommended \cap rows = Release[s] \cap rows
            /\ \A v \in rows \cap Tagged[s] : tags[v] = {s}

\* When the last run to start had the database to itself and has ended, the
\* rows are numbered from 1 without gaps, in the order of the current schema,
\* with its recommendations and its tags - whatever attempts were repeated and
\* whatever an earlier, terminated run had half written.
Settled == Quiet /\ ~disturbed =>
             /\ {order[v] : v \in rows} = 1..Cardinality(rows)
             /\ Shown(schema)

\* A row that was given a rank never goes back to none, and a version that has
\* tags is never seen without any: readers run beside the ordering.
NeverBare == [][\A v \in Version : /\ order[v] > 0 => order'[v] > 0
                                   /\ tags[v] # {} => tags'[v] # {}]_vars

\* Between syncs no row is left without a rank, whatever ordering runs of
\* PutArtifactSchema were terminated meanwhile, unless something failed: only
\* the sync that stored a row answers for it.
Ranked == faults = 0 /\ Active \cap Sync = {} => \A v \in rows : order[v] > 0

\* Orderings that overlap, fail or apply a stale schema are repaired by the
\* syncs that follow: in the end every row shows what the current schema says.
Converges == <>[](rows # {} => Shown(schema))
=============================================================================
