----------------------- MODULE VersionOrderingProofs -----------------------
(***************************************************************************)
(* Theorems about VersionOrdering, for any versions, schemas, schedules,   *)
(* manifest editions, batch size, attempts, operator calls and faults.     *)
(***************************************************************************)
EXTENDS VersionOrdering, FiniteSetTheorems, TLAPS

-----------------------------------------------------------------------------
(* The inductive invariant. *)

\* The steps before a run has its plan.
Early == {"schema", "manifest", "compute"}

\* What is written is a rank, or a tag of a schema: in flight or forgotten.
Sound(w) == /\ w.kind = "order" => \A v \in w.batch : w.plan[v] > 0
            /\ w.kind = "tags" => w.batch \subseteq Tagged[w.schema]

Counted == /\ pending <= puts
           /\ \A r \in Run : run[r].pc \in Early \cup {"idle"} => run[r].done = 0
           /\ \A w \in late : Sound(w)

\* Without a fault some sync has yet to write the rank a row lacks.
Covers(r, v) == \/ run[r].pc \in Early
                \/ /\ At(r, "order")
                   /\ run[r].plan[v] > 0
                   /\ run[r].done < Position(r, v)

Covered == faults = 0 =>
    \A v \in rows : order[v] > 0 \/ \E r \in Sync : Covers(r, v)

\* The last run to start had the database to itself, and its schema is current.
Untroubled == ~disturbed /\ pending = 0

Alone == Untroubled => \A q, r \in Active : q = r

\* Before it has a plan nothing is on its way, and what it read is current.
Reads(r) == /\ late = {}
            /\ ~At(r, "schema") => run[r].schema = schema
            /\ At(r, "manifest") => schema \in UsesManifest
            /\ ~At(r, "compute") => run[r].edition = 0
            /\ At(r, "compute") => run[r].edition = EditionOf(schema)

Reading == Untroubled => \A r \in Active : run[r].pc \in Early => Reads(r)

\* A plan numbers the rows from 1 in the order of the current schema.
Good(p) == /\ {p[v] : v \in rows} = 1..Cardinality(rows)
           /\ \A v \in Version : p[v] > 0 <=> v \in rows
           /\ \A v, w \in rows :
                 Weight[schema][EditionOf(schema)][v] < Weight[schema][EditionOf(schema)][w]
                    => p[v] < p[w]

Told(p, v) == /\ order[v] = p[v]
              /\ v \in recommended <=> v \in Release[schema]

\* A transaction on its way writes what the plan says.
Agrees(p, w) == /\ w.schema = schema
                /\ w.batch \subseteq rows
                /\ w.kind = "order" => w.plan = p

\* A run that has a plan has written it up to its position.
Obeys(p, r) ==
    /\ run[r].schema = schema
    /\ run[r].plan = p
    /\ \A v \in rows : (At(r, "order") => Position(r, v) <= run[r].done) => Told(p, v)
    /\ ~At(r, "order") => \A v \in rows \cap Tagged[schema] :
          Position(r, v) <= run[r].done => tags[v] = {schema}
    /\ At(r, "commit") =>
          \A v \in rows : tags[v] \ run[r].seen[v] \subseteq {schema}

\* One plan is what every transaction, the run and, in the end, the rows show.
Follows(p) ==
    /\ Good(p)
    /\ \A w \in late : Agrees(p, w)
    /\ \A r \in Active : Obeys(p, r)
    /\ Active = {} => /\ \A v \in rows : Told(p, v)
                      /\ \A v \in rows \cap Tagged[schema] : tags[v] = {schema}

Writing == Untroubled /\ (\A r \in Active : run[r].pc \notin Early) =>
    \E p \in Ranks : Follows(p)

RankInv == TypeOK /\ Counted /\ Covered

Lone == Alone /\ Reading /\ Writing

IInv == RankInv /\ Lone

-----------------------------------------------------------------------------
(* Types of the helpers, and what a step of one run leaves alone. *)

LEMMA IdleTyped == Idle \in Local /\ NoPlan \in Ranks /\ NoTags \in [Version -> SUBSET Schema]
  <1>1. Cardinality(Version) \in Nat
    BY OrderingAssumption, FS_CardinalityType
  <1>2. NoPlan \in Ranks /\ NoTags \in [Version -> SUBSET Schema]
    BY <1>1 DEF NoPlan, NoTags, Ranks
  <1>3. 0 \in 0..Manifest /\ 0 \in 0..Cardinality(Version) /\ 1 \in 1..MaxAttempts
    BY <1>1, OrderingAssumption
  <1> QED BY <1>2, <1>3 DEF Idle, Local, Step, Parsed

\* Everything but r is as it was.
Only(r) == /\ run' \in [Run -> Local]
           /\ \A q \in Run : q # r => run'[q] = run[q]

LEMMA MoveEffect ==
  ASSUME TypeOK, NEW r \in Run, NEW l \in Local, Move(r, l)
  PROVE  Only(r) /\ run'[r] = l
  BY DEF TypeOK, Move, Only

LEMMA GotoEffect ==
  ASSUME TypeOK, NEW r \in Run, NEW l \in Local, NEW step \in Step, Goto(r, l, step)
  PROVE  /\ Only(r)
         /\ run'[r].pc = step
         /\ run'[r].schema = l.schema
         /\ run'[r].edition = l.edition
         /\ run'[r].plan = l.plan
         /\ run'[r].done = l.done
         /\ run'[r].seen = l.seen
  <1> DEFINE n == [l EXCEPT !.pc = step, !.attempt = 1]
  <1>1. 1 \in 1..MaxAttempts
    BY OrderingAssumption
  <1>2. /\ n \in Local /\ n.pc = step
        /\ n.schema = l.schema /\ n.edition = l.edition /\ n.plan = l.plan
        /\ n.done = l.done /\ n.seen = l.seen
    BY <1>1 DEF Local
  <1>3. Move(r, n)
    BY DEF Goto
  <1> HIDE DEF n
  <1> QED BY <1>2, <1>3, MoveEffect

\* Positions count from 1 to the number of versions a run has to write.
LEMMA PositionBounds ==
  ASSUME TypeOK, NEW r \in Run
  PROVE  /\ Cardinality(Written(r)) \in Nat
         /\ Cardinality(Written(r)) <= Cardinality(Version)
         /\ Cardinality(Version) \in Nat
         /\ \A v \in Version : /\ Position(r, v) \in Nat
                               /\ Position(r, v) <= Cardinality(Written(r))
         /\ \A v \in Written(r) : Position(r, v) > 0
  <1>1. Written(r) \subseteq Version
    BY DEF Written, Listed
  <1>2. IsFiniteSet(Version) /\ IsFiniteSet(Written(r))
    BY <1>1, OrderingAssumption, FS_Subset
  <1>3. /\ Cardinality(Written(r)) \in Nat
        /\ Cardinality(Written(r)) <= Cardinality(Version)
        /\ Cardinality(Version) \in Nat
    BY <1>1, <1>2, FS_Subset, FS_CardinalityType
  <1>4. ASSUME NEW v \in Version
        PROVE  /\ Position(r, v) \in Nat
               /\ Position(r, v) <= Cardinality(Written(r))
               /\ v \in Written(r) => Position(r, v) > 0
    <2> DEFINE P == {w \in Written(r) : run[r].plan[w] <= run[r].plan[v]}
    <2>1. P \subseteq Written(r)
      OBVIOUS
    <2>2. IsFiniteSet(P) /\ Cardinality(P) <= Cardinality(Written(r))
      BY <1>2, <2>1, FS_Subset
    <2>3. Cardinality(P) \in Nat
      BY <2>2, FS_CardinalityType
    <2>4. run[r].plan[v] <= run[r].plan[v]
      BY <1>3 DEF TypeOK, Local, Ranks
    <2>5. v \in Written(r) => P # {}
      BY <2>4
    <2>6. v \in Written(r) => Cardinality(P) # 0
      BY <2>2, <2>5, FS_EmptySet
    <2> QED BY <2>2, <2>3, <2>6 DEF Position
  <1> QED BY <1>1, <1>3, <1>4

FromOne == \A r \in Run, v \in Version : /\ Position(r, v) \in Nat
                                         /\ v \in Written(r) => Position(r, v) > 0

LEMMA CountsFromOne == TypeOK => FromOne
  BY PositionBounds DEF FromOne

\* Versions of one batch are versions the run has to write, past its position.
LEMMA BatchBounds ==
  ASSUME TypeOK, NEW r \in Run
  PROVE  /\ Batch(r) \subseteq Written(r)
         /\ Batch(r) \subseteq Version
         /\ At(r, "order") => Written(r) = Listed(r)
         /\ ~At(r, "order") => Written(r) = Listed(r) \cap Tagged[run[r].schema]
  BY DEF Batch, Written, Listed

LEMMA WritesSound ==
  ASSUME TypeOK, NEW r \in Run
  PROVE  /\ At(r, "order") => OrderWrite(r) \in Write /\ Sound(OrderWrite(r))
         /\ At(r, "commit") => TagWrite(r) \in Write /\ Sound(TagWrite(r))
         /\ InFlight(r) \subseteq Write
         /\ \A w \in InFlight(r) : Sound(w)
  <1>1. ASSUME At(r, "order") PROVE OrderWrite(r) \in Write /\ Sound(OrderWrite(r))
    BY <1>1, BatchBounds, IdleTyped DEF OrderWrite, Write, Sound, TypeOK, Local, Listed
  <1>2. ASSUME At(r, "commit") PROVE TagWrite(r) \in Write /\ Sound(TagWrite(r))
    BY <1>2, BatchBounds, IdleTyped DEF TagWrite, Write, Sound, TypeOK, Local, At
  <1> QED BY <1>1, <1>2 DEF InFlight

\* A transaction writes ranks above 0 and the tags of a schema.
LEMMA CommitTyped ==
  ASSUME TypeOK, NEW w \in Write, Sound(w), Commit(w)
  PROVE  /\ order' \in Ranks
         /\ recommended' \subseteq Version
         /\ tags' \in [Version -> SUBSET Schema]
         /\ \A v \in Version : /\ order[v] > 0 => order'[v] > 0
                               /\ tags[v] # {} => tags'[v] # {}
  <1>1. CASE w.kind = "order" /\ CommitOrder(w)
    <2>1. order' = [v \in Version |-> IF v \in w.batch THEN w.plan[v] ELSE order[v]]
      BY <1>1 DEF CommitOrder
    <2>2. order' \in Ranks
      BY <2>1 DEF TypeOK, Write, Ranks
    <2>3. recommended' \subseteq Version
      BY <1>1, OrderingAssumption DEF CommitOrder, TypeOK, Write
    <2>4. tags' = tags
      BY <1>1 DEF CommitOrder
    <2>5. \A v \in Version : order[v] > 0 => order'[v] > 0
      BY <1>1, <2>1 DEF Sound
    <2> QED BY <2>2, <2>3, <2>4, <2>5 DEF TypeOK
  <1>2. CASE w.kind = "tags" /\ CommitTags(w)
    <2>1. PICK stale \in SUBSET w.batch :
            /\ tags' = [v \in Version |->
                          IF v \in stale THEN (tags[v] \ w.seen[v]) \cup {w.schema}
                          ELSE IF v \in w.batch THEN {w.schema}
                          ELSE tags[v]]
            /\ UNCHANGED <<order, recommended>>
      BY <1>2 DEF CommitTags
    <2>2. ASSUME NEW v \in w.batch PROVE w.schema \in Schema
      BY <1>2, OrderingAssumption DEF Sound, Write, Parsed
    <2>3. tags' \in [Version -> SUBSET Schema]
      BY <2>1, <2>2 DEF TypeOK
    <2>4. \A v \in Version : tags[v] # {} => tags'[v] # {}
      BY <2>1
    <2> QED BY <2>1, <2>3, <2>4 DEF TypeOK
  <1> QED BY <1>1, <1>2 DEF Commit
-----------------------------------------------------------------------------
(* Types, soundness of transactions and who still owes a rank: one lemma   *)
(* per action.                                                             *)

\* Nothing is taken back: the step of NeverBare.
NothingLost == \A v \in Version : /\ order[v] > 0 => order'[v] > 0
                                  /\ tags[v] # {} => tags'[v] # {}

LEMMA InitRank == Init => RankInv
  <1> SUFFICES ASSUME Init PROVE RankInv
    OBVIOUS
  <1>1. /\ 0 \in 0..Manifest /\ 0 \in 0..MaxPuts /\ 0 \in 0..MaxFaults
        /\ [v \in Version |-> 0] \in Ranks
    BY OrderingAssumption, IdleTyped DEF NoPlan
  <1>2. TypeOK
    BY <1>1, IdleTyped DEF Init, TypeOK, Parsed
  <1>3. Counted
    BY DEF Init, Counted, Idle
  <1>4. Covered
    BY DEF Init, Covered
  <1> QED BY <1>2, <1>3, <1>4 DEF RankInv

LEMMA SamePosition ==
  ASSUME NEW r \in Run, run'[r].pc = run[r].pc \/ {run[r].pc, run'[r].pc} \subseteq {"tags", "commit"},
         run'[r].plan = run[r].plan, run'[r].schema = run[r].schema
  PROVE  /\ Listed(r)' = Listed(r)
         /\ Written(r)' = Written(r)
         /\ \A v \in Version : Position(r, v)' = Position(r, v)
  <1>1. Listed(r)' = Listed(r)
    BY DEF Listed
  <1>2. At(r, "order")' <=> At(r, "order")
    BY DEF At
  <1>3. Written(r)' = Written(r)
    BY <1>1, <1>2 DEF Written
  <1>4. ASSUME NEW v \in Version PROVE Position(r, v)' = Position(r, v)
    BY <1>3 DEF Position
  <1> QED BY <1>1, <1>3, <1>4

LEMMA CoversKept ==
  ASSUME NEW r \in Run, run'[r] = run[r], NEW v \in Version, Covers(r, v)
  PROVE  Covers(r, v)'
  BY SamePosition DEF Covers, At

\* A step that adds no row, takes no rank back and leaves every sync that owes
\* a rank owing it, or pays it.
LEMMA CoveredKept ==
  ASSUME RankInv, UNCHANGED rows, NothingLost,
         faults' = 0 => faults = 0,
         NEW r \in Run,
         \A q \in Run : q # r => run'[q] = run[q],
         faults' = 0 /\ r \in Sync =>
             \A v \in rows : Covers(r, v) => order'[v] > 0 \/ Covers(r, v)'
  PROVE  Covered'
  <1> SUFFICES ASSUME faults' = 0, NEW v \in rows, ~(order'[v] > 0)
               PROVE  \E q \in Sync : Covers(q, v)'
    BY DEF Covered
  <1>1. v \in Version /\ ~(order[v] > 0)
    BY DEF RankInv, TypeOK, NothingLost
  <1>2. PICK q \in Sync : Covers(q, v)
    BY <1>1 DEF RankInv, Covered
  <1>3. q # r => Covers(q, v)'
    BY <1>1, <1>2, CoversKept DEF Run
  <1> QED BY <1>2, <1>3

\* A step that moves no run.
LEMMA RunsStay ==
  ASSUME RankInv, UNCHANGED <<rows, run>>, NothingLost, faults' = 0 => faults = 0
  PROVE  Covered'
  BY CoveredKept, CoversKept DEF Run, RankInv, TypeOK

LEMMA FireRank ==
  ASSUME RankInv, NEW r \in Sync, NEW new \in SUBSET Version, Fire(r, new)
  PROVE  RankInv' /\ NothingLost
  <1> r \in Run
    BY DEF Run
  <1> DEFINE n == [Idle EXCEPT !.pc = "schema"]
  <1>1. n \in Local /\ n.pc = "schema" /\ n.done = 0
    BY IdleTyped DEF Idle, Local, Step
  <1>2. Move(r, n)
    BY DEF Fire, Begin
  <1> HIDE DEF n
  <1>3. /\ run' \in [Run -> Local]
        /\ run'[r] = n
        /\ \A q \in Run : q # r => run'[q] = run[q]
    BY <1>1, <1>2, MoveEffect DEF RankInv, Only
  <1>4. NothingLost
    BY DEF Fire, stored, NothingLost
  <1>5. TypeOK'
    BY <1>3 DEF RankInv, TypeOK, Fire, stored
  <1>6. Counted'
    BY <1>1, <1>3 DEF RankInv, Counted, Fire
  <1>7. Covered'
    BY <1>1, <1>3 DEF Covered, Covers, Early
  <1> QED BY <1>4, <1>5, <1>6, <1>7 DEF RankInv

LEMMA PutSchemaRank ==
  ASSUME RankInv, NEW s \in Schema, PutSchema(s)
  PROVE  RankInv' /\ NothingLost
  <1>1. NothingLost
    BY DEF PutSchema, stored, NothingLost
  <1>2. TypeOK'
    BY OrderingAssumption DEF RankInv, TypeOK, Counted, PutSchema, stored, Parsed
  <1>3. Counted'
    BY DEF RankInv, TypeOK, Counted, PutSchema
  <1>4. Covered'
    BY <1>1, RunsStay DEF PutSchema
  <1> QED BY <1>1, <1>2, <1>3, <1>4 DEF RankInv

LEMMA StartOrderingRank ==
  ASSUME RankInv, StartOrdering
  PROVE  RankInv' /\ NothingLost
  <1> Put \in Run /\ Put \notin Sync
    BY OrderingAssumption DEF Run
  <1> DEFINE n == [Idle EXCEPT !.pc = "schema"]
  <1>1. n \in Local /\ n.pc = "schema" /\ n.done = 0
    BY IdleTyped DEF Idle, Local, Step
  <1>2. Move(Put, n)
    BY DEF StartOrdering, Begin
  <1> HIDE DEF n
  <1>3. /\ run' \in [Run -> Local]
        /\ run'[Put] = n
        /\ \A q \in Run : q # Put => run'[q] = run[q]
    BY <1>1, <1>2, MoveEffect DEF RankInv, Only
  <1>4. NothingLost
    BY DEF StartOrdering, stored, NothingLost
  <1>5. late' \subseteq Write /\ \A w \in late' : Sound(w)
    BY WritesSound DEF RankInv, TypeOK, Counted, StartOrdering
  <1>6. pending' \in 0..MaxPuts /\ pending' <= puts'
    BY OrderingAssumption DEF RankInv, TypeOK, Counted, StartOrdering
  <1>7. disturbed' \in BOOLEAN
    BY DEF StartOrdering
  <1>8. TypeOK'
    BY <1>3, <1>5, <1>6, <1>7 DEF RankInv, TypeOK, StartOrdering, stored
  <1>9. Counted'
    BY <1>1, <1>3, <1>5, <1>6 DEF RankInv, Counted, Sound
  <1>10. Covered'
    BY <1>3, <1>4, CoveredKept DEF StartOrdering
  <1> QED BY <1>4, <1>8, <1>9, <1>10 DEF RankInv

LEMMA FaultTyped ==
  ASSUME TypeOK, Fault
  PROVE  faults' \in 0..MaxFaults /\ faults' > 0
  BY OrderingAssumption DEF TypeOK, Fault

LEMMA StartFailsRank ==
  ASSUME RankInv, StartFails
  PROVE  RankInv' /\ NothingLost
  <1>1. NothingLost
    BY DEF StartFails, stored, NothingLost
  <1>2. faults' \in 0..MaxFaults /\ faults' > 0
    BY FaultTyped DEF RankInv, StartFails
  <1>3. TypeOK'
    BY <1>2, OrderingAssumption DEF RankInv, TypeOK, StartFails, stored
  <1>4. Counted'
    BY DEF RankInv, TypeOK, Counted, StartFails
  <1>5. Covered'
    BY <1>2 DEF Covered
  <1> QED BY <1>1, <1>3, <1>4, <1>5 DEF RankInv

LEMMA NewEditionRank ==
  ASSUME RankInv, NewEdition
  PROVE  RankInv' /\ NothingLost
  <1>1. NothingLost
    BY DEF NewEdition, stored, NothingLost
  <1>2. TypeOK'
    BY OrderingAssumption DEF RankInv, TypeOK, NewEdition, stored
  <1>3. Counted'
    BY DEF RankInv, Counted, NewEdition
  <1>4. Covered'
    BY <1>1, RunsStay DEF NewEdition
  <1> QED BY <1>1, <1>2, <1>3, <1>4 DEF RankInv

-----------------------------------------------------------------------------
(* What each activity does to the run it belongs to. *)

LEMMA SchemaEffect ==
  ASSUME TypeOK, NEW r \in Run, FetchVersionSchema(r)
  PROVE  /\ Only(r)
         /\ run'[r].pc = IF schema \in UsesManifest THEN "manifest" ELSE "compute"
         /\ run'[r].schema = schema
         /\ run'[r].edition = run[r].edition
         /\ run'[r].done = run[r].done
  <1> DEFINE l == [run[r] EXCEPT !.schema = schema]
             step == IF schema \in UsesManifest THEN "manifest" ELSE "compute"
  <1>1. /\ l \in Local
        /\ l.schema = schema /\ l.edition = run[r].edition /\ l.done = run[r].done
    BY DEF TypeOK, Local
  <1>2. step \in Step
    BY DEF Step
  <1>3. Goto(r, l, step)
    BY DEF FetchVersionSchema
  <1> HIDE DEF l, step
  <1>4. QED BY <1>1, <1>2, <1>3, GotoEffect DEF step

LEMMA ManifestEffect ==
  ASSUME TypeOK, NEW r \in Run, FetchMojangManifest(r)
  PROVE  /\ Only(r)
         /\ run'[r].pc = "compute"
         /\ run'[r].schema = run[r].schema
         /\ run'[r].edition = manifest
         /\ run'[r].done = run[r].done
  <1> DEFINE l == [run[r] EXCEPT !.edition = manifest]
  <1>1. /\ l \in Local
        /\ l.schema = run[r].schema /\ l.edition = manifest /\ l.done = run[r].done
    BY DEF TypeOK, Local
  <1>2. "compute" \in Step
    BY DEF Step
  <1>3. Goto(r, l, "compute")
    BY DEF FetchMojangManifest
  <1> HIDE DEF l
  <1>4. QED BY <1>1, <1>2, <1>3, GotoEffect

\* Ranks lie between 1 and the number of rows: a row is not before itself.
LEMMA PlanTyped ==
  ASSUME TypeOK, NEW l \in Local, NEW listing \in Listings
  PROVE  /\ Plan(l, listing) \in Ranks
         /\ \A v \in Version : Plan(l, listing)[v] > 0 <=> v \in rows
         /\ \A v \in rows : Plan(l, listing)[v] \in 1..Cardinality(rows)
  <1> DEFINE W == Weight[l.schema][l.edition]
             Before(v) == {w \in rows : \/ W[w] < W[v]
                                        \/ W[w] = W[v] /\ listing[w] < listing[v]}
  <1>1. rows \subseteq Version /\ IsFiniteSet(rows) /\ IsFiniteSet(Version)
    BY OrderingAssumption, FS_Subset DEF TypeOK
  <1>2. /\ Cardinality(rows) \in Nat /\ Cardinality(Version) \in Nat
        /\ Cardinality(rows) <= Cardinality(Version)
    BY <1>1, FS_Subset, FS_CardinalityType
  <1>3. ASSUME NEW v \in rows
        PROVE  1 + Cardinality(Before(v)) \in 1..Cardinality(rows)
    <2>1. W[v] \in Nat
      BY <1>1, OrderingAssumption DEF Local
    <2>2. listing[v] \in Nat
      BY <1>2 DEF Listings
    <2>3. v \notin Before(v)
      BY <2>1, <2>2
    <2>4. Before(v) \subseteq rows \ {v}
      BY <2>3
    <2>5. IsFiniteSet(rows \ {v}) /\ Cardinality(rows \ {v}) = Cardinality(rows) - 1
      BY <1>1, FS_RemoveElement
    <2>6. IsFiniteSet(Before(v)) /\ Cardinality(Before(v)) <= Cardinality(rows) - 1
      BY <2>4, <2>5, FS_Subset
    <2>7. Cardinality(Before(v)) \in Nat
      BY <2>6, FS_CardinalityType
    <2> HIDE DEF Before
    <2> QED BY <1>2, <2>6, <2>7
  <1>4. Plan(l, listing) = [v \in Version |-> IF v \notin rows THEN 0
                                               ELSE 1 + Cardinality(Before(v))]
    BY DEF Plan
  <1> HIDE DEF Before, W
  <1> QED BY <1>1, <1>2, <1>3, <1>4 DEF Ranks

LEMMA ComputeEffect ==
  ASSUME TypeOK, NEW r \in Run, ComputeVersionOrdering(r)
  PROVE  \E listing \in Listings :
            /\ Only(r)
            /\ run'[r].pc = "order"
            /\ run'[r].schema = run[r].schema
            /\ run'[r].plan = Plan(run[r], listing)
            /\ run'[r].done = run[r].done
  <1> PICK listing \in Listings :
             Goto(r, [run[r] EXCEPT !.plan = Plan(run[r], listing)], "order")
    BY DEF ComputeVersionOrdering
  <1> DEFINE p == Plan(run[r], listing)
             l == [run[r] EXCEPT !.plan = p]
  <1>1. run[r] \in Local
    BY DEF TypeOK
  <1>2. p \in Ranks
    BY <1>1, PlanTyped
  <1> HIDE DEF p
  <1>3. l \in Local /\ l.schema = run[r].schema /\ l.plan = p /\ l.done = run[r].done
    BY <1>1, <1>2 DEF Local
  <1>4. "order" \in Step
    BY DEF Step
  <1>5. Goto(r, l, "order")
    BY DEF p
  <1> HIDE DEF l
  <1>6. QED BY <1>3, <1>4, <1>5, GotoEffect DEF p

\* While there are batches left the position moves on by one of them.
LEMMA NextBatchTyped ==
  ASSUME TypeOK, NEW r \in Run, MoreBatches(r)
  PROVE  [run[r] EXCEPT !.done = @ + BatchSize] \in Local
  <1>1. run[r] \in Local /\ run[r].done \in 0..Cardinality(Version)
    BY DEF TypeOK, Local
  <1>2. run[r].done + BatchSize \in 0..Cardinality(Version)
    BY <1>1, PositionBounds, OrderingAssumption DEF MoreBatches
  <1> QED BY <1>1, <1>2 DEF Local

LEMMA ApplyEffect ==
  ASSUME TypeOK, NEW r \in Run, ApplyVersionOrdering(r)
  PROVE  /\ Only(r)
         /\ run'[r].schema = run[r].schema
         /\ run'[r].plan = run[r].plan
         /\ MoreBatches(r) => run'[r].pc = "order" /\ run'[r].done = run[r].done + BatchSize
         /\ ~MoreBatches(r) => run'[r].pc = "tags" /\ run'[r].done = 0
  <1>1. run[r] \in Local /\ "order" \in Step /\ "tags" \in Step
    BY DEF TypeOK, Step
  <1>2. CASE MoreBatches(r)
    <2> DEFINE l == [run[r] EXCEPT !.done = @ + BatchSize]
    <2>1. /\ l \in Local /\ l.schema = run[r].schema /\ l.plan = run[r].plan
          /\ l.done = run[r].done + BatchSize
      BY <1>1, <1>2, NextBatchTyped DEF Local
    <2>2. Goto(r, l, "order")
      BY <1>2 DEF ApplyVersionOrdering
    <2> HIDE DEF l
    <2> QED BY <1>1, <1>2, <2>1, <2>2, GotoEffect
  <1>3. CASE ~MoreBatches(r)
    <2> DEFINE l == [run[r] EXCEPT !.done = 0]
    <2>1. 0 \in 0..Cardinality(Version)
      BY PositionBounds
    <2>2. l \in Local /\ l.schema = run[r].schema /\ l.plan = run[r].plan /\ l.done = 0
      BY <1>1, <2>1 DEF Local
    <2>3. Goto(r, l, "tags")
      BY <1>3 DEF ApplyVersionOrdering
    <2> HIDE DEF l
    <2> QED BY <1>1, <1>3, <2>2, <2>3, GotoEffect
  <1> QED BY <1>2, <1>3

LEMMA BeginTagsEffect ==
  ASSUME TypeOK, NEW r \in Run, BeginTags(r)
  PROVE  /\ Only(r)
         /\ run'[r].pc = "commit"
         /\ run'[r].schema = run[r].schema
         /\ run'[r].plan = run[r].plan
         /\ run'[r].done = run[r].done
         /\ run'[r].seen = tags
  <1> DEFINE l == [run[r] EXCEPT !.pc = "commit", !.seen = tags]
  <1>1. run[r] \in Local
    BY DEF TypeOK
  <1>2. /\ l \in Local /\ l.pc = "commit" /\ l.seen = tags /\ l.schema = run[r].schema
        /\ l.plan = run[r].plan /\ l.done = run[r].done
    BY <1>1 DEF TypeOK, Local, Step
  <1>3. Move(r, l)
    BY DEF BeginTags
  <1> HIDE DEF l
  <1> QED BY <1>2, <1>3, MoveEffect

LEMMA SkipTagsEffect ==
  ASSUME TypeOK, NEW r \in Run, SkipTags(r)
  PROVE  Only(r) /\ run'[r] = Idle
  BY MoveEffect, IdleTyped DEF SkipTags

LEMMA StoreTagsEffect ==
  ASSUME TypeOK, NEW r \in Run, StoreVersionTags(r)
  PROVE  /\ Only(r)
         /\ MoreBatches(r) => /\ run'[r].pc = "tags"
                              /\ run'[r].schema = run[r].schema
                              /\ run'[r].plan = run[r].plan
                              /\ run'[r].done = run[r].done + BatchSize
         /\ ~MoreBatches(r) => run'[r] = Idle
  <1>1. run[r] \in Local /\ "tags" \in Step
    BY DEF TypeOK, Step
  <1>2. CASE MoreBatches(r)
    <2> DEFINE l == [run[r] EXCEPT !.done = @ + BatchSize]
    <2>1. /\ l \in Local /\ l.schema = run[r].schema /\ l.plan = run[r].plan
          /\ l.done = run[r].done + BatchSize
      BY <1>1, <1>2, NextBatchTyped DEF Local
    <2>2. Goto(r, l, "tags")
      BY <1>2 DEF StoreVersionTags
    <2> HIDE DEF l
    <2> QED BY <1>1, <1>2, <2>1, <2>2, GotoEffect
  <1>3. CASE ~MoreBatches(r)
    BY <1>3, MoveEffect, IdleTyped DEF StoreVersionTags
  <1> QED BY <1>2, <1>3

\* A repeated attempt starts from the same plan at the same position.
LEMMA AttemptEffect ==
  ASSUME TypeOK, NEW r \in Run, AttemptFails(r)
  PROVE  /\ Only(r)
         /\ run[r].attempt < MaxAttempts =>
               /\ run'[r].pc = IF At(r, "commit") THEN "tags" ELSE run[r].pc
               /\ run'[r].schema = run[r].schema
               /\ run'[r].edition = run[r].edition
               /\ run'[r].plan = run[r].plan
               /\ run'[r].done = run[r].done
               /\ disturbed' = disturbed
         /\ ~(run[r].attempt < MaxAttempts) => run'[r] = Idle /\ disturbed' = TRUE
  <1>1. run[r] \in Local
    BY DEF TypeOK
  <1>2. CASE run[r].attempt < MaxAttempts
    <2> DEFINE l == [run[r] EXCEPT !.attempt = @ + 1,
                       !.pc = IF @ = "commit" THEN "tags" ELSE @]
    <2>1. run[r].attempt + 1 \in 1..MaxAttempts
      BY <1>1, <1>2, OrderingAssumption DEF Local
    <2>2. (IF run[r].pc = "commit" THEN "tags" ELSE run[r].pc) \in Step
      BY <1>1 DEF Local, Step
    <2>3. /\ l \in Local
          /\ l.pc = IF run[r].pc = "commit" THEN "tags" ELSE run[r].pc
          /\ l.schema = run[r].schema /\ l.edition = run[r].edition
          /\ l.plan = run[r].plan /\ l.done = run[r].done
      BY <1>1, <2>1, <2>2 DEF Local
    <2>4. Move(r, l) /\ disturbed' = disturbed
      BY <1>2 DEF AttemptFails
    <2> HIDE DEF l
    <2> QED BY <1>2, <2>3, <2>4, MoveEffect DEF At
  <1>3. CASE ~(run[r].attempt < MaxAttempts)
    BY <1>3, MoveEffect, IdleTyped DEF AttemptFails
  <1> QED BY <1>2, <1>3

-----------------------------------------------------------------------------
(* The activities keep RankInv. *)

\* An activity that reads, or ends a run without a transaction.
LEMMA ReadsRank ==
  ASSUME RankInv, NEW r \in Run, Only(r), UNCHANGED <<stored, elsewhere>>,
         run'[r].pc \in Early \cup {"idle"} => run'[r].done = 0,
         r \in Sync => \A v \in rows : Covers(r, v) => Covers(r, v)'
  PROVE  RankInv' /\ NothingLost
  <1>1. NothingLost
    BY DEF stored, NothingLost
  <1>2. TypeOK'
    BY DEF RankInv, TypeOK, Only, stored, elsewhere
  <1>3. Counted'
    BY DEF RankInv, Counted, Only, elsewhere
  <1>4. Covered'
    BY <1>1, CoveredKept DEF Only, elsewhere
  <1> QED BY <1>1, <1>2, <1>3, <1>4 DEF RankInv

LEMMA SchemaRank ==
  ASSUME RankInv, NEW r \in Run, FetchVersionSchema(r)
  PROVE  RankInv' /\ NothingLost
  <1>1. /\ Only(r) /\ run'[r].pc \in Early /\ run'[r].done = 0
    BY SchemaEffect DEF RankInv, Counted, FetchVersionSchema, At, Early
  <1> QED BY <1>1, ReadsRank DEF FetchVersionSchema, Covers

LEMMA ManifestRank ==
  ASSUME RankInv, NEW r \in Run, FetchMojangManifest(r)
  PROVE  RankInv' /\ NothingLost
  <1>1. /\ Only(r) /\ run'[r].pc \in Early /\ run'[r].done = 0
    BY ManifestEffect DEF RankInv, Counted, FetchMojangManifest, At, Early
  <1> QED BY <1>1, ReadsRank DEF FetchMojangManifest, Covers

LEMMA ComputeRank ==
  ASSUME RankInv, NEW r \in Run, ComputeVersionOrdering(r)
  PROVE  RankInv' /\ NothingLost
  <1>1. PICK listing \in Listings :
            /\ Only(r)
            /\ run'[r].pc = "order"
            /\ run'[r].plan = Plan(run[r], listing)
            /\ run'[r].done = run[r].done
    BY ComputeEffect DEF RankInv
  <1>2. run[r] \in Local /\ run[r].done = 0
    BY DEF RankInv, TypeOK, Counted, ComputeVersionOrdering, At, Early
  <1>3. \A v \in rows : Plan(run[r], listing)[v] > 0
    BY <1>2, PlanTyped DEF RankInv, TypeOK
  <1>4. UNCHANGED <<stored, elsewhere>>
    BY DEF ComputeVersionOrdering
  <1>5. TypeOK'
    BY <1>1, <1>4 DEF RankInv, TypeOK, Only, stored, elsewhere
  <1>6. FromOne'
    BY <1>5, CountsFromOne, PTL
  <1>7. ASSUME NEW v \in rows PROVE Covers(r, v)'
    <2>1. v \in Version
      BY DEF RankInv, TypeOK
    <2>2. v \in Written(r)'
      BY <1>1, <1>3, <2>1 DEF Written, Listed, At
    <2>3. Position(r, v)' > 0
      BY <1>6, <2>1, <2>2 DEF FromOne
    <2> QED BY <1>1, <1>2, <1>3, <2>3 DEF Covers, At
  <1> QED BY <1>1, <1>4, <1>7, ReadsRank DEF Early

LEMMA ApplyRank ==
  ASSUME RankInv, NEW r \in Run, ApplyVersionOrdering(r)
  PROVE  RankInv' /\ NothingLost
  <1>1. At(r, "order") /\ CommitOrder(OrderWrite(r)) /\ UNCHANGED elsewhere
    BY DEF ApplyVersionOrdering
  <1>2. OrderWrite(r) \in Write /\ Sound(OrderWrite(r)) /\ Commit(OrderWrite(r))
    BY <1>1, WritesSound DEF RankInv, Commit, OrderWrite
  <1>3. /\ order' \in Ranks
        /\ recommended' \subseteq Version
        /\ tags' \in [Version -> SUBSET Schema]
        /\ NothingLost
    BY <1>2, CommitTyped DEF RankInv, NothingLost
  <1>4. /\ Only(r)
        /\ run'[r].schema = run[r].schema
        /\ run'[r].plan = run[r].plan
        /\ MoreBatches(r) => run'[r].pc = "order" /\ run'[r].done = run[r].done + BatchSize
        /\ ~MoreBatches(r) => run'[r].pc = "tags" /\ run'[r].done = 0
    BY ApplyEffect DEF RankInv
  <1>5. TypeOK'
    BY <1>1, <1>3, <1>4 DEF RankInv, TypeOK, Only, elsewhere
  <1>6. Counted'
    BY <1>1, <1>4 DEF RankInv, Counted, Only, elsewhere, Early
  <1>7. ASSUME NEW v \in rows, Covers(r, v) PROVE order'[v] > 0 \/ Covers(r, v)'
    <2>1. v \in Version /\ run[r].plan[v] > 0 /\ run[r].done < Position(r, v)
      BY <1>1, <1>7 DEF RankInv, TypeOK, Covers, At, Early
    <2>2. v \in Written(r)
      BY <1>1, <2>1 DEF Written, Listed
    <2>3. /\ Position(r, v) \in Nat
          /\ Position(r, v) <= Cardinality(Written(r)) /\ Cardinality(Written(r)) \in Nat
          /\ run[r].done \in Nat /\ BatchSize \in Nat
      BY <2>1, PositionBounds, OrderingAssumption DEF RankInv, TypeOK, Local
    <2>4. CASE Position(r, v) <= run[r].done + BatchSize
      <3>1. v \in OrderWrite(r).batch
        BY <2>1, <2>2, <2>4 DEF Batch, OrderWrite
      <3>2. order'[v] = run[r].plan[v]
        BY <1>1, <2>1, <3>1 DEF CommitOrder, OrderWrite
      <3> QED BY <2>1, <3>2
    <2>5. CASE ~(Position(r, v) <= run[r].done + BatchSize)
      <3>1. MoreBatches(r)
        BY <2>3, <2>5 DEF MoreBatches
      <3>2. run'[r].pc = "order" /\ run[r].pc = "order"
        BY <1>1, <1>4, <3>1 DEF At
      <3>3. Position(r, v)' = Position(r, v)
        BY <1>4, <2>1, <3>2, SamePosition
      <3>4. run'[r].done < Position(r, v)'
        BY <1>4, <2>3, <2>5, <3>1, <3>3
      <3> QED BY <1>4, <2>1, <3>2, <3>4 DEF Covers, At
    <2> QED BY <2>4, <2>5
  <1>8. Covered'
    BY <1>1, <1>3, <1>4, <1>7, CoveredKept DEF Only, elsewhere
  <1> QED BY <1>3, <1>5, <1>6, <1>8 DEF RankInv

\* A run past its ranks covers nothing.
LEMMA TagsCoverNothing ==
  ASSUME NEW r \in Run, run[r].pc \in {"tags", "commit"}, NEW v \in rows
  PROVE  ~Covers(r, v)
  BY DEF Covers, At, Early

LEMMA BeginTagsRank ==
  ASSUME RankInv, NEW r \in Run, BeginTags(r)
  PROVE  RankInv' /\ NothingLost
  BY BeginTagsEffect, TagsCoverNothing, ReadsRank DEF BeginTags, RankInv, At, Early

LEMMA SkipTagsRank ==
  ASSUME RankInv, NEW r \in Run, SkipTags(r)
  PROVE  RankInv' /\ NothingLost
  <1>1. Idle.done = 0
    BY DEF Idle
  <1> QED BY <1>1, SkipTagsEffect, TagsCoverNothing, ReadsRank DEF SkipTags, RankInv, At

LEMMA StoreTagsRank ==
  ASSUME RankInv, NEW r \in Run, StoreVersionTags(r)
  PROVE  RankInv' /\ NothingLost
  <1>1. At(r, "commit") /\ CommitTags(TagWrite(r)) /\ UNCHANGED elsewhere
    BY DEF StoreVersionTags
  <1>2. TagWrite(r) \in Write /\ Sound(TagWrite(r)) /\ Commit(TagWrite(r))
    BY <1>1, WritesSound DEF RankInv, Commit, TagWrite
  <1>3. /\ order' \in Ranks
        /\ recommended' \subseteq Version
        /\ tags' \in [Version -> SUBSET Schema]
        /\ NothingLost
    BY <1>2, CommitTyped DEF RankInv, NothingLost
  <1>4. /\ Only(r)
        /\ MoreBatches(r) => run'[r].pc = "tags"
        /\ ~MoreBatches(r) => run'[r] = Idle
    BY StoreTagsEffect DEF RankInv
  <1>5. TypeOK'
    BY <1>1, <1>3, <1>4 DEF RankInv, TypeOK, Only, elsewhere
  <1>6. Idle.done = 0
    BY DEF Idle
  <1>7. Counted'
    BY <1>1, <1>4, <1>6 DEF RankInv, Counted, Only, elsewhere, Early
  <1>8. Covered'
    BY <1>1, <1>3, <1>4, TagsCoverNothing, CoveredKept DEF Only, elsewhere, At
  <1> QED BY <1>3, <1>5, <1>7, <1>8 DEF RankInv

LEMMA AttemptFailsRank ==
  ASSUME RankInv, NEW r \in Run, AttemptFails(r)
  PROVE  RankInv' /\ NothingLost
  <1>1. /\ Only(r)
        /\ run[r].attempt < MaxAttempts =>
              /\ run'[r].pc = IF At(r, "commit") THEN "tags" ELSE run[r].pc
              /\ run'[r].done = run[r].done
              /\ disturbed' = disturbed
        /\ ~(run[r].attempt < MaxAttempts) => run'[r] = Idle /\ disturbed' = TRUE
    BY AttemptEffect DEF RankInv
  <1>2. faults' \in 0..MaxFaults /\ faults' > 0
    BY FaultTyped DEF RankInv, AttemptFails
  <1>3. NothingLost
    BY DEF AttemptFails, stored, NothingLost
  <1>4. late' \subseteq Write /\ \A w \in late' : Sound(w)
    BY WritesSound DEF RankInv, TypeOK, Counted, AttemptFails
  <1>5. TypeOK'
    BY <1>1, <1>2, <1>4 DEF RankInv, TypeOK, AttemptFails, stored, Only
  <1>6. Idle.done = 0
    BY DEF Idle
  <1>7. pending' <= puts'
    BY DEF AttemptFails, RankInv, Counted
  <1>8. \A q \in Run : run'[q].pc \in Early \cup {"idle"} => run'[q].done = 0
    BY <1>1, <1>6 DEF RankInv, Counted, Only, At, Early
  <1>9. Counted'
    BY <1>4, <1>7, <1>8 DEF Counted, Sound
  <1>10. Covered'
    BY <1>2 DEF Covered
  <1> QED BY <1>3, <1>5, <1>9, <1>10 DEF RankInv

LEMMA LateEndsRank ==
  ASSUME RankInv, NEW w \in late, LateEnds(w)
  PROVE  RankInv' /\ NothingLost
  <1>1. w \in Write /\ Sound(w)
    BY DEF RankInv, TypeOK, Counted
  <1>2. /\ order' \in Ranks
        /\ recommended' \subseteq Version
        /\ tags' \in [Version -> SUBSET Schema]
        /\ NothingLost
    <2>1. CASE Commit(w)
      BY <1>1, <2>1, CommitTyped DEF RankInv, NothingLost
    <2>2. CASE UNCHANGED stored
      BY <2>2 DEF stored, RankInv, TypeOK, NothingLost
    <2> QED BY <2>1, <2>2 DEF LateEnds
  <1>3. TypeOK'
    BY <1>2 DEF RankInv, TypeOK, LateEnds
  <1>4. Counted'
    BY DEF RankInv, Counted, LateEnds, Sound
  <1>5. Covered'
    BY <1>2, RunsStay DEF LateEnds
  <1> QED BY <1>2, <1>3, <1>4, <1>5 DEF RankInv

LEMMA NextRank ==
  ASSUME RankInv, [Next]_vars
  PROVE  RankInv' /\ NothingLost
  <1>1. CASE UNCHANGED vars
    <2>1. RankInv'
      BY <1>1, RunsStay DEF RankInv, TypeOK, Counted, Sound, vars, NothingLost
    <2> QED BY <1>1, <2>1 DEF vars, NothingLost
  <1>2. CASE Next
    BY <1>2, FireRank, PutSchemaRank, StartOrderingRank, StartFailsRank, NewEditionRank,
       SchemaRank, ManifestRank, ComputeRank, ApplyRank, BeginTagsRank, SkipTagsRank,
       StoreTagsRank, AttemptFailsRank, LateEndsRank
       DEF Next, Activity
  <1> QED BY <1>1, <1>2

-----------------------------------------------------------------------------
(* The theorems that rest on it. *)

LEMMA RankInvariant == Spec => []RankInv
  <1>1. Init => RankInv
    BY InitRank
  <1>2. RankInv /\ [Next]_vars => RankInv'
    BY NextRank
  <1> QED BY <1>1, <1>2, PTL DEF Spec

\* Rows, ranks, tags, the locals of runs and forgotten transactions keep their
\* types: a position never passes the number of versions, a transaction of
\* tags carries a schema.
THEOREM TypeCorrect == Spec => []TypeOK
  <1>1. RankInv => TypeOK
    BY DEF RankInv
  <1> QED BY <1>1, RankInvariant, PTL

\* However orderings overlap, fail, are terminated or commit late: a rank is
\* never taken back to none and tags are never deleted without being replaced.
THEOREM NeverGoesBare == Spec => NeverBare
  <1>1. RankInv /\ [Next]_vars => [NothingLost]_vars
    BY NextRank
  <1> QED BY <1>1, RankInvariant, PTL DEF Spec, NeverBare, NothingLost

\* Without a fault, between syncs every row has its rank.
THEOREM RowsAreRanked == Spec => []Ranked
  <1>1. RankInv => Ranked
    BY DEF RankInv, Covered, Ranked, Active, Covers, At, Early, Run
  <1> QED BY <1>1, RankInvariant, PTL

-----------------------------------------------------------------------------
(* A plan is a numbering of the rows. *)

\* A row that comes before another has the lower rank.
LEMMA RanksIncrease ==
  ASSUME TypeOK, NEW l \in Local, NEW listing \in Listings, NEW v \in rows, NEW w \in rows,
         \/ Weight[l.schema][l.edition][w] < Weight[l.schema][l.edition][v]
         \/ /\ Weight[l.schema][l.edition][w] = Weight[l.schema][l.edition][v]
            /\ listing[w] < listing[v]
  PROVE  Plan(l, listing)[w] < Plan(l, listing)[v]
  <1> DEFINE W == Weight[l.schema][l.edition]
             Before(x) == {y \in rows : \/ W[y] < W[x]
                                        \/ W[y] = W[x] /\ listing[y] < listing[x]}
  <1>1. rows \subseteq Version /\ IsFiniteSet(rows)
    BY OrderingAssumption, FS_Subset DEF TypeOK
  <1>2. \A x \in rows : W[x] \in Nat /\ listing[x] \in Nat
    <2>1. W \in [Version -> Nat]
      BY OrderingAssumption DEF Local
    <2>2. Cardinality(rows) \in Nat
      BY <1>1, FS_CardinalityType
    <2> HIDE DEF W
    <2> QED BY <1>1, <2>1, <2>2 DEF Listings
  <1>3. Before(w) \subseteq Before(v) /\ w \in Before(v) /\ w \notin Before(w)
    <2> HIDE DEF W
    <2>1. W[w] < W[v] \/ (W[w] = W[v] /\ listing[w] < listing[v])
      BY DEF W
    <2> QED BY <1>2, <2>1
  <1>4. IsFiniteSet(Before(v)) /\ IsFiniteSet(Before(w))
    BY <1>1, FS_Subset
  <1>5. Plan(l, listing)[v] = 1 + Cardinality(Before(v))
        /\ Plan(l, listing)[w] = 1 + Cardinality(Before(w))
    BY <1>1 DEF Plan
  <1> HIDE DEF Before
  <1>6. Cardinality(Before(w)) <= Cardinality(Before(v))
        /\ Cardinality(Before(w)) # Cardinality(Before(v))
    BY <1>3, <1>4, FS_Subset
  <1>7. Cardinality(Before(w)) \in Nat /\ Cardinality(Before(v)) \in Nat
    BY <1>4, FS_CardinalityType
  <1> QED BY <1>5, <1>6, <1>7

\* An injection of a finite set into as many numbers reaches all of them.
LEMMA Numbering ==
  ASSUME NEW S, IsFiniteSet(S), NEW f \in [S -> 1..Cardinality(S)],
         \A v, w \in S : v # w => f[v] # f[w]
  PROVE  {f[v] : v \in S} = 1..Cardinality(S)
  <1> DEFINE I == {f[v] : v \in S}
             n == Cardinality(S)
  <1>1. n \in Nat
    BY FS_CardinalityType
  <1>2. f \in Bijection(S, I)
    BY DEF Bijection, Injection, Surjection, IsInjective
  <1>3. ExistsBijection(S, I)
    BY <1>2 DEF ExistsBijection
  <1>4. IsFiniteSet(I) /\ Cardinality(I) = n
    BY <1>3, FS_Bijection
  <1>5. IsFiniteSet(1..n) /\ Cardinality(1..n) = n
    BY <1>1, FS_Interval
  <1>6. I \subseteq 1..n
    OBVIOUS
  <1> HIDE DEF I, n
  <1>7. I = 1..n
    BY <1>4, <1>5, <1>6, FS_Subset
  <1> QED BY <1>7 DEF I, n

LEMMA PlanGood ==
  ASSUME TypeOK, NEW l \in Local, NEW listing \in Listings,
         l.schema = schema, l.edition = EditionOf(schema)
  PROVE  Good(Plan(l, listing))
  <1> DEFINE p == Plan(l, listing)
             W == Weight[l.schema][l.edition]
             f == [v \in rows |-> p[v]]
  <1>1. rows \subseteq Version /\ IsFiniteSet(rows)
    BY OrderingAssumption, FS_Subset DEF TypeOK
  <1>2. /\ p \in Ranks
        /\ \A v \in Version : p[v] > 0 <=> v \in rows
        /\ \A v \in rows : p[v] \in 1..Cardinality(rows)
    BY PlanTyped
  <1>3. \A v \in rows : W[v] \in Nat /\ listing[v] \in Nat
    <2>1. W \in [Version -> Nat]
      BY OrderingAssumption DEF Local
    <2>2. Cardinality(rows) \in Nat
      BY <1>1, FS_CardinalityType
    <2> HIDE DEF W
    <2> QED BY <1>1, <2>1, <2>2 DEF Listings
  <1>4. \A v, w \in rows : W[v] < W[w] => p[v] < p[w]
    BY RanksIncrease
  <1>5. ASSUME NEW v \in rows, NEW w \in rows, v # w PROVE p[v] # p[w]
    <2>1. listing[v] # listing[w]
      BY <1>5 DEF Listings
    <2>2. \/ W[v] < W[w] \/ W[w] < W[v]
          \/ W[v] = W[w] /\ (listing[v] < listing[w] \/ listing[w] < listing[v])
      BY <1>3, <2>1
    <2>3. p[v] < p[w] \/ p[w] < p[v]
      BY <2>2, RanksIncrease
    <2>4. p[v] \in Nat /\ p[w] \in Nat
      BY <1>1, <1>2
    <2> QED BY <2>3, <2>4
  <1> HIDE DEF p
  <1>6. {f[v] : v \in rows} = 1..Cardinality(rows)
    BY <1>1, <1>2, <1>5, Numbering
  <1>7. {p[v] : v \in rows} = 1..Cardinality(rows)
    BY <1>6
  <1> QED BY <1>2, <1>4, <1>7 DEF Good, p

-----------------------------------------------------------------------------
(* The run that has the database to itself: what its steps and the         *)
(* transactions on their way leave true of the rows.                       *)

LEMMA Troubled ==
  ASSUME ~Untroubled'
  PROVE  Lone'
  BY DEF Lone, Alone, Reading, Writing

LEMMA Sole ==
  ASSUME Lone, Untroubled, NEW r \in Active, Only(r)
  PROVE  /\ Active = {r}
         /\ run'[r].pc # "idle" => Active' = {r}
         /\ run'[r].pc = "idle" => Active' = {}
  <1>1. Active = {r}
    BY DEF Lone, Alone
  <1>2. \A q \in Run : q # r => run'[q].pc = "idle"
    BY <1>1 DEF Active, At, Only
  <1> QED BY <1>1, <1>2 DEF Active, At

\* A start that finds nothing running and nothing on its way.
LEMMA FreshStart ==
  ASSUME NEW r \in Run, Only(r), run'[r].pc = "schema", run'[r].edition = 0,
         disturbed' = (Active \ {r} # {} \/ late' # {})
  PROVE  Lone'
  <1> SUFFICES ASSUME Untroubled' PROVE Lone'
    BY Troubled
  <1>1. Active \subseteq {r} /\ late' = {}
    BY DEF Untroubled
  <1>2. Active' = {r}
    BY <1>1 DEF Active, At, Only
  <1>3. Reads(r)'
    BY <1>1 DEF Reads, At
  <1> QED BY <1>2, <1>3 DEF Lone, Alone, Reading, Writing, Early

LEMMA FireLone ==
  ASSUME RankInv, NEW r \in Sync, NEW new \in SUBSET Version, Fire(r, new)
  PROVE  Lone'
  <1> r \in Run
    BY DEF Run
  <1> DEFINE n == [Idle EXCEPT !.pc = "schema"]
  <1>1. n \in Local /\ n.pc = "schema" /\ n.edition = 0
    BY IdleTyped DEF Idle, Local, Step
  <1>2. Move(r, n)
    BY DEF Fire, Begin
  <1> HIDE DEF n
  <1>3. Only(r) /\ run'[r] = n
    BY <1>1, <1>2, MoveEffect DEF RankInv
  <1>4. disturbed' = (Active \ {r} # {} \/ late' # {})
    BY DEF Fire, Active
  <1> QED BY <1>1, <1>3, <1>4, FreshStart

LEMMA StartOrderingLone ==
  ASSUME RankInv, StartOrdering
  PROVE  Lone'
  <1> Put \in Run
    BY DEF Run
  <1> DEFINE n == [Idle EXCEPT !.pc = "schema"]
  <1>1. n \in Local /\ n.pc = "schema" /\ n.edition = 0
    BY IdleTyped DEF Idle, Local, Step
  <1>2. Move(Put, n)
    BY DEF StartOrdering, Begin
  <1> HIDE DEF n
  <1>3. Only(Put) /\ run'[Put] = n
    BY <1>1, <1>2, MoveEffect DEF RankInv
  <1>4. disturbed' = (Active \ {Put} # {} \/ late' # {})
    BY DEF StartOrdering
  <1> QED BY <1>1, <1>3, <1>4, FreshStart

LEMMA PutSchemaLone ==
  ASSUME RankInv, NEW s \in Schema, PutSchema(s)
  PROVE  Lone'
  <1>1. pending' # 0
    BY OrderingAssumption DEF RankInv, TypeOK, PutSchema
  <1> QED BY <1>1, Troubled DEF Untroubled

\* A read that is the only thing going on, and stays so.
LEMMA ReaderMoves ==
  ASSUME Lone, NEW r \in Active, Only(r), UNCHANGED elsewhere,
         run'[r].pc \in Early,
         Untroubled => Reads(r)'
  PROVE  Lone'
  <1> SUFFICES ASSUME Untroubled' PROVE Lone'
    BY Troubled
  <1>1. Untroubled
    BY DEF Untroubled, elsewhere
  <1>2. Active' = {r}
    BY <1>1, Sole DEF Early
  <1> QED BY <1>1, <1>2 DEF Lone, Alone, Reading, Writing

LEMMA SchemaLone ==
  ASSUME RankInv, Lone, NEW r \in Run, FetchVersionSchema(r)
  PROVE  Lone'
  <1>1. r \in Active /\ UNCHANGED elsewhere
    BY DEF FetchVersionSchema, Active, At
  <1>2. /\ Only(r)
        /\ run'[r].pc = IF schema \in UsesManifest THEN "manifest" ELSE "compute"
        /\ run'[r].schema = schema
        /\ run'[r].edition = run[r].edition
    BY SchemaEffect DEF RankInv
  <1>3. ASSUME Untroubled PROVE Reads(r)'
    <2>1. Reads(r) /\ run[r].edition = 0
      BY <1>1, <1>3 DEF FetchVersionSchema, Lone, Reading, Reads, At, Early
    <2> QED BY <1>1, <1>2, <2>1 DEF Reads, At, EditionOf, elsewhere
  <1> QED BY <1>1, <1>2, <1>3, ReaderMoves DEF Early

LEMMA ManifestLone ==
  ASSUME RankInv, Lone, NEW r \in Run, FetchMojangManifest(r)
  PROVE  Lone'
  <1>1. r \in Active /\ UNCHANGED elsewhere
    BY DEF FetchMojangManifest, Active, At
  <1>2. /\ Only(r)
        /\ run'[r].pc = "compute"
        /\ run'[r].schema = run[r].schema
        /\ run'[r].edition = manifest
    BY ManifestEffect DEF RankInv
  <1>3. ASSUME Untroubled PROVE Reads(r)'
    <2>1. Reads(r) /\ run[r].schema = schema /\ schema \in UsesManifest
      BY <1>1, <1>3 DEF FetchMojangManifest, Lone, Reading, Reads, At, Early
    <2> QED BY <1>1, <1>2, <2>1 DEF Reads, At, EditionOf, elsewhere
  <1> QED BY <1>1, <1>2, <1>3, ReaderMoves DEF Early

LEMMA GoodKept ==
  ASSUME NEW p, Good(p), UNCHANGED <<rows, schema, manifest>>
  PROVE  Good(p)'
  BY DEF Good, EditionOf

\* A run that follows a plan has all rows to write, then those with tags.
LEMMA WrittenRows ==
  ASSUME RankInv, NEW p \in Ranks, Good(p), NEW r \in Run, Obeys(p, r)
  PROVE  /\ Listed(r) = rows
         /\ At(r, "order") => Written(r) = rows
         /\ ~At(r, "order") => Written(r) = rows \cap Tagged[schema]
  <1>1. rows \subseteq Version /\ run[r].plan = p /\ run[r].schema = schema
    BY DEF RankInv, TypeOK, Obeys
  <1>2. Listed(r) = rows
    BY <1>1 DEF Good, Listed
  <1> QED BY <1>1, <1>2 DEF Written

LEMMA InFlightAgrees ==
  ASSUME RankInv, NEW p \in Ranks, Good(p), NEW r \in Run, Obeys(p, r)
  PROVE  \A w \in InFlight(r) : Agrees(p, w)
  <1>1. Batch(r) \subseteq rows /\ run[r].plan = p /\ run[r].schema = schema
    BY BatchBounds, WrittenRows DEF RankInv, Obeys
  <1> QED BY <1>1 DEF InFlight, OrderWrite, TagWrite, Agrees

LEMMA ComputeLone ==
  ASSUME RankInv, Lone, NEW r \in Run, ComputeVersionOrdering(r)
  PROVE  Lone'
  <1> SUFFICES ASSUME Untroubled' PROVE Lone'
    BY Troubled
  <1>1. r \in Active /\ UNCHANGED <<stored, elsewhere>> /\ At(r, "compute")
    BY DEF ComputeVersionOrdering, Active, At
  <1>2. Untroubled
    BY <1>1 DEF Untroubled, elsewhere
  <1>3. PICK listing \in Listings :
            /\ Only(r)
            /\ run'[r].pc = "order"
            /\ run'[r].schema = run[r].schema
            /\ run'[r].plan = Plan(run[r], listing)
            /\ run'[r].done = run[r].done
    BY ComputeEffect DEF RankInv
  <1>4. /\ late = {} /\ run[r].schema = schema /\ run[r].edition = EditionOf(schema)
        /\ run[r].done = 0 /\ run[r] \in Local
    BY <1>1, <1>2 DEF RankInv, TypeOK, Counted, Lone, Reading, Reads, At, Early
  <1> PICK p \in Ranks : p = Plan(run[r], listing)
    BY <1>4, PlanTyped DEF RankInv
  <1>5. Good(p)
    BY <1>4, PlanGood DEF RankInv
  <1>6. RankInv'
    BY ComputeRank
  <1>7. FromOne'
    BY <1>6, CountsFromOne, PTL DEF RankInv
  <1>8. ASSUME NEW v \in rows PROVE ~(Position(r, v)' <= run'[r].done)
    <2>1. v \in Version /\ p[v] > 0
      BY <1>5 DEF RankInv, TypeOK, Good
    <2>2. v \in Written(r)'
      BY <1>3, <2>1 DEF Written, Listed, At
    <2>3. Position(r, v)' > 0 /\ Position(r, v)' \in Nat
      BY <1>7, <2>1, <2>2 DEF FromOne
    <2>4. run'[r].done = 0
      BY <1>3, <1>4
    <2> QED BY <2>3, <2>4
  <1>9. Obeys(p, r)'
    <2>1. rows' = rows /\ schema' = schema
      BY <1>1 DEF elsewhere
    <2>2. \A v \in rows' : ~(Position(r, v)' <= run'[r].done)
      BY <1>8, <2>1
    <2> QED BY <1>3, <1>4, <2>1, <2>2 DEF Obeys, At
  <1>10. Active' = {r}
    BY <1>1, <1>2, <1>3, Sole
  <1>11. Follows(p)'
    BY <1>1, <1>4, <1>5, <1>9, <1>10, GoodKept DEF Follows, elsewhere
  <1> QED BY <1>3, <1>5, <1>10, <1>11 DEF Lone, Alone, Reading, Writing, Early

\* What a transaction that agrees with the plan does to the rows.
Honours(p) == \A v \in rows :
    /\ Told(p, v) => Told(p, v)'
    /\ tags[v] = {schema} => tags'[v] = {schema}
    /\ \A S : tags[v] \ S \subseteq {schema} => tags'[v] \ S \subseteq {schema}

LEMMA CommitHonours ==
  ASSUME RankInv, NEW p \in Ranks, NEW w \in Write, Agrees(p, w), Commit(w), UNCHANGED schema
  PROVE  /\ Honours(p)
         /\ w.kind = "order" => \A v \in w.batch : Told(p, v)'
         /\ w.kind = "tags" => /\ \A v \in rows : Told(p, v)' <=> Told(p, v)
                               /\ \A v \in w.batch :
                                     tags[v] \ w.seen[v] \subseteq {schema} => tags'[v] = {schema}
  <1>1. rows \subseteq Version /\ w.batch \subseteq rows /\ w.schema = schema
    BY DEF RankInv, TypeOK, Agrees
  <1>2. CASE w.kind = "order" /\ CommitOrder(w)
    <2>1. /\ order' = [v \in Version |-> IF v \in w.batch THEN p[v] ELSE order[v]]
          /\ recommended' = (recommended \ w.batch) \cup (Release[schema] \cap w.batch)
          /\ tags' = tags
      BY <1>1, <1>2 DEF CommitOrder, Agrees
    <2>2. ASSUME NEW v \in rows
          PROVE  /\ Told(p, v) => Told(p, v)'
                 /\ v \in w.batch => Told(p, v)'
      BY <1>1, <2>1 DEF Told
    <2> QED BY <1>1, <1>2, <2>1, <2>2 DEF Honours
  <1>3. CASE w.kind = "tags" /\ CommitTags(w)
    <2>1. PICK stale \in SUBSET w.batch :
            /\ tags' = [v \in Version |->
                          IF v \in stale THEN (tags[v] \ w.seen[v]) \cup {w.schema}
                          ELSE IF v \in w.batch THEN {w.schema}
                          ELSE tags[v]]
            /\ UNCHANGED <<order, recommended>>
      BY <1>3 DEF CommitTags
    <2>2. \A v \in rows : Told(p, v)' <=> Told(p, v)
      BY <2>1 DEF Told
    <2>3. ASSUME NEW v \in rows
          PROVE  /\ tags[v] = {schema} => tags'[v] = {schema}
                 /\ \A S : tags[v] \ S \subseteq {schema} => tags'[v] \ S \subseteq {schema}
                 /\ v \in w.batch /\ tags[v] \ w.seen[v] \subseteq {schema}
                      => tags'[v] = {schema}
      <3>1. \/ tags'[v] = (tags[v] \ w.seen[v]) \cup {schema}
            \/ tags'[v] = {schema}
            \/ tags'[v] = tags[v] /\ v \notin w.batch
        BY <1>1, <2>1
      <3> QED BY <3>1
    <2> QED BY <1>1, <1>3, <2>2, <2>3 DEF Honours
  <1> QED BY <1>2, <1>3 DEF Commit

\* A run that goes on, or back to the beginning of its transaction of tags.
LEMMA ObeysKept ==
  ASSUME RankInv, NEW p \in Ranks, NEW r \in Run, Obeys(p, r), Honours(p),
         UNCHANGED <<rows, schema>>,
         \/ run'[r].pc = run[r].pc /\ run'[r].seen = run[r].seen
         \/ run'[r].pc = run[r].pc /\ run[r].pc # "commit"
         \/ run[r].pc = "commit" /\ run'[r].pc = "tags",
         run'[r].schema = run[r].schema,
         run'[r].plan = run[r].plan,
         run'[r].done = run[r].done
  PROVE  Obeys(p, r)'
  <1>1. rows \subseteq Version
    BY DEF RankInv, TypeOK
  <1>2. \A v \in rows : Position(r, v)' = Position(r, v)
    BY <1>1, SamePosition
  <1>3. At(r, "order")' <=> At(r, "order")
    BY DEF At
  <1>4. \A v \in rows' : (At(r, "order")' => Position(r, v)' <= run'[r].done) => Told(p, v)'
    BY <1>2, <1>3 DEF Obeys, Honours
  <1>5. ~At(r, "order")' => \A v \in rows' \cap Tagged[schema'] :
            Position(r, v)' <= run'[r].done => tags'[v] = {schema'}
    BY <1>2, <1>3 DEF Obeys, Honours
  <1>6. At(r, "commit")' => \A v \in rows' : tags'[v] \ run'[r].seen[v] \subseteq {schema'}
    BY DEF Obeys, Honours, At
  <1> QED BY <1>4, <1>5, <1>6 DEF Obeys

\* The plan that is followed, while nobody is reading.
LEMMA PlanFollowed ==
  ASSUME Lone, Untroubled, NEW r \in Active, run[r].pc \notin Early
  PROVE  \E p \in Ranks : Follows(p)
  BY DEF Lone, Alone, Writing

\* A step of the run that writes: the plan stays the one that is followed.
LEMMA WriterMoves ==
  ASSUME Lone, Untroubled, NEW r \in Active, Only(r), UNCHANGED <<rows, schema, manifest>>,
         NEW p \in Ranks, Follows(p),
         run'[r].pc \notin Early,
         \A w \in late' : Agrees(p, w),
         run'[r].pc # "idle" => Obeys(p, r)',
         run'[r].pc = "idle" => /\ \A v \in rows : Told(p, v)'
                                /\ \A v \in rows \cap Tagged[schema] : tags'[v] = {schema}
  PROVE  Lone'
  <1>1. /\ run'[r].pc # "idle" => Active' = {r}
        /\ run'[r].pc = "idle" => Active' = {}
    BY Sole
  <1>2. Follows(p)'
    <2>1. Good(p)'
      BY GoodKept DEF Follows
    <2>2. \A w \in late' : Agrees(p, w)'
      BY DEF Agrees
    <2>3. CASE run'[r].pc # "idle"
      BY <1>1, <2>1, <2>2, <2>3 DEF Follows
    <2>4. CASE run'[r].pc = "idle"
      BY <1>1, <2>1, <2>2, <2>4 DEF Follows
    <2> QED BY <2>3, <2>4
  <1> QED BY <1>1, <1>2 DEF Lone, Alone, Reading, Writing

LEMMA ApplyLone ==
  ASSUME RankInv, Lone, NEW r \in Run, ApplyVersionOrdering(r)
  PROVE  Lone'
  <1> SUFFICES ASSUME Untroubled' PROVE Lone'
    BY Troubled
  <1>1. /\ r \in Active /\ UNCHANGED elsewhere
        /\ At(r, "order") /\ CommitOrder(OrderWrite(r))
    BY DEF ApplyVersionOrdering, Active, At
  <1>2. Untroubled
    BY <1>1 DEF Untroubled, elsewhere
  <1>3. PICK p \in Ranks : Follows(p)
    BY <1>1, <1>2, PlanFollowed DEF At, Early
  <1>4. Good(p) /\ Obeys(p, r) /\ \A w \in late : Agrees(p, w)
    BY <1>1, <1>3 DEF Follows
  <1>5. /\ Only(r)
        /\ run'[r].schema = run[r].schema
        /\ run'[r].plan = run[r].plan
        /\ MoreBatches(r) => run'[r].pc = "order" /\ run'[r].done = run[r].done + BatchSize
        /\ ~MoreBatches(r) => run'[r].pc = "tags" /\ run'[r].done = 0
    BY ApplyEffect DEF RankInv
  <1>6. OrderWrite(r) \in Write /\ Agrees(p, OrderWrite(r)) /\ Commit(OrderWrite(r))
    BY <1>1, <1>4, WritesSound, InFlightAgrees DEF RankInv, InFlight, Commit, OrderWrite
  <1>7. Honours(p) /\ \A v \in Batch(r) : Told(p, v)'
    BY <1>1, <1>6, CommitHonours DEF elsewhere, OrderWrite
  <1>8. rows \subseteq Version /\ Written(r) = rows
    BY <1>1, <1>4, WrittenRows DEF RankInv, TypeOK
  <1>9. ASSUME NEW v \in rows, Position(r, v) <= run[r].done + BatchSize
        PROVE  Told(p, v)'
    <2>1. Position(r, v) \in Nat /\ run[r].done \in Nat
      BY <1>8, PositionBounds DEF RankInv, TypeOK, Local
    <2>2. CASE run[r].done < Position(r, v)
      BY <1>7, <1>8, <1>9, <2>2 DEF Batch
    <2>3. CASE ~(run[r].done < Position(r, v))
      BY <1>1, <1>4, <1>7, <2>1, <2>3 DEF Obeys, Honours
    <2> QED BY <2>2, <2>3
  <1>10. Obeys(p, r)'
    <2>1. /\ rows' = rows /\ schema' = schema
          /\ run'[r].schema = schema /\ run'[r].plan = p
      BY <1>1, <1>4, <1>5 DEF Obeys, elsewhere
    <2>2. CASE MoreBatches(r)
      <3>1. run'[r].pc = "order" /\ run[r].pc = "order"
        BY <1>1, <1>5, <2>2 DEF At
      <3>2. \A v \in rows : Position(r, v)' = Position(r, v)
        BY <1>5, <1>8, <3>1, SamePosition
      <3> QED BY <1>5, <1>9, <2>1, <2>2, <3>1, <3>2 DEF Obeys, At
    <2>3. CASE ~MoreBatches(r)
      <3>1. \A v \in rows : Told(p, v)'
        <4> SUFFICES ASSUME NEW v \in rows PROVE Told(p, v)'
          OBVIOUS
        <4>1. /\ Position(r, v) \in Nat /\ Position(r, v) <= Cardinality(Written(r))
              /\ Cardinality(Written(r)) \in Nat /\ run[r].done \in Nat /\ BatchSize \in Nat
          BY <1>8, PositionBounds, OrderingAssumption DEF RankInv, TypeOK, Local
        <4>2. Position(r, v) <= run[r].done + BatchSize
          BY <2>3, <4>1 DEF MoreBatches
        <4> QED BY <1>9, <4>2
      <3>2. RankInv'
        BY ApplyRank
      <3>3. FromOne'
        BY <3>2, CountsFromOne, PTL DEF RankInv
      <3>4. ASSUME NEW v \in rows \cap Tagged[schema]
            PROVE  ~(Position(r, v)' <= run'[r].done)
        <4>1. p[v] > 0 /\ v \in Version
          BY <1>4, <1>8 DEF Good
        <4>2. v \in Written(r)'
          BY <1>5, <2>1, <2>3, <4>1 DEF Written, Listed, At
        <4>3. Position(r, v)' > 0 /\ Position(r, v)' \in Nat
          BY <3>3, <4>1, <4>2 DEF FromOne
        <4> QED BY <1>5, <2>3, <4>3
      <3> QED BY <1>5, <2>1, <2>3, <3>1, <3>4 DEF Obeys, At
    <2> QED BY <2>2, <2>3
  <1> QED BY <1>1, <1>2, <1>3, <1>4, <1>5, <1>10, WriterMoves DEF elsewhere, At, Early

LEMMA BeginTagsLone ==
  ASSUME RankInv, Lone, NEW r \in Run, BeginTags(r)
  PROVE  Lone'
  <1> SUFFICES ASSUME Untroubled' PROVE Lone'
    BY Troubled
  <1>1. r \in Active /\ UNCHANGED <<stored, elsewhere>> /\ At(r, "tags")
    BY DEF BeginTags, Active, At
  <1>2. Untroubled
    BY <1>1 DEF Untroubled, elsewhere
  <1>3. PICK p \in Ranks : Follows(p)
    BY <1>1, <1>2, PlanFollowed DEF At, Early
  <1>4. Obeys(p, r) /\ \A w \in late : Agrees(p, w)
    BY <1>1, <1>3 DEF Follows
  <1>5. /\ Only(r)
        /\ run'[r].pc = "commit"
        /\ run'[r].schema = run[r].schema
        /\ run'[r].plan = run[r].plan
        /\ run'[r].done = run[r].done
        /\ run'[r].seen = tags
    BY BeginTagsEffect DEF RankInv
  <1>6. \A v \in rows : Position(r, v)' = Position(r, v)
    BY <1>1, <1>5, SamePosition DEF RankInv, TypeOK, At
  <1>7. Obeys(p, r)'
    <2>1. /\ rows' = rows /\ schema' = schema /\ tags' = tags
          /\ \A v \in rows : Told(p, v)' <=> Told(p, v)
      BY <1>1 DEF elsewhere, stored, Told
    <2>2. run'[r].schema = schema /\ run'[r].plan = p
      BY <1>4, <1>5 DEF Obeys
    <2>3. \A v \in rows : Told(p, v)'
      BY <1>1, <1>4, <2>1 DEF Obeys, At
    <2>4. \A v \in rows \cap Tagged[schema] :
              Position(r, v)' <= run'[r].done => tags'[v] = {schema}
      BY <1>1, <1>4, <1>5, <1>6, <2>1 DEF Obeys, At
    <2>5. \A v \in rows : tags'[v] \ run'[r].seen[v] \subseteq {schema}
      BY <1>5, <2>1
    <2> QED BY <2>1, <2>2, <2>3, <2>4, <2>5 DEF Obeys
  <1> QED BY <1>1, <1>2, <1>3, <1>4, <1>5, <1>7, WriterMoves DEF elsewhere, At, Early

LEMMA SkipTagsLone ==
  ASSUME RankInv, Lone, NEW r \in Run, SkipTags(r)
  PROVE  Lone'
  <1> SUFFICES ASSUME Untroubled' PROVE Lone'
    BY Troubled
  <1>1. /\ r \in Active /\ UNCHANGED <<stored, elsewhere>>
        /\ At(r, "tags") /\ ~At(r, "order") /\ Written(r) = {}
    BY DEF SkipTags, Active, At
  <1>2. Untroubled
    BY <1>1 DEF Untroubled, elsewhere
  <1>3. PICK p \in Ranks : Follows(p)
    BY <1>1, <1>2, PlanFollowed DEF At, Early
  <1>4. Good(p) /\ Obeys(p, r) /\ \A w \in late : Agrees(p, w)
    BY <1>1, <1>3 DEF Follows
  <1>5. Only(r) /\ run'[r] = Idle /\ Idle.pc = "idle"
    BY SkipTagsEffect DEF RankInv, Idle
  <1>6. rows \cap Tagged[schema] = {}
    BY <1>1, <1>4, WrittenRows
  <1>7. \A v \in rows : Told(p, v)'
    BY <1>1, <1>4 DEF Obeys, Told, stored, elsewhere
  <1> QED BY <1>1, <1>2, <1>3, <1>4, <1>5, <1>6, <1>7, WriterMoves DEF elsewhere, At, Early

LEMMA StoreTagsLone ==
  ASSUME RankInv, Lone, NEW r \in Run, StoreVersionTags(r)
  PROVE  Lone'
  <1> SUFFICES ASSUME Untroubled' PROVE Lone'
    BY Troubled
  <1>1. /\ r \in Active /\ UNCHANGED elsewhere
        /\ At(r, "commit") /\ ~At(r, "order") /\ CommitTags(TagWrite(r))
    BY DEF StoreVersionTags, Active, At
  <1>2. Untroubled
    BY <1>1 DEF Untroubled, elsewhere
  <1>3. PICK p \in Ranks : Follows(p)
    BY <1>1, <1>2, PlanFollowed DEF At, Early
  <1>4. Good(p) /\ Obeys(p, r) /\ \A w \in late : Agrees(p, w)
    BY <1>1, <1>3 DEF Follows
  <1>5. /\ Only(r)
        /\ MoreBatches(r) => /\ run'[r].pc = "tags"
                             /\ run'[r].schema = run[r].schema
                             /\ run'[r].plan = run[r].plan
                             /\ run'[r].done = run[r].done + BatchSize
        /\ ~MoreBatches(r) => run'[r] = Idle
    BY StoreTagsEffect DEF RankInv
  <1>6. TagWrite(r) \in Write /\ Agrees(p, TagWrite(r)) /\ Commit(TagWrite(r))
    BY <1>1, <1>4, WritesSound, InFlightAgrees DEF RankInv, InFlight, Commit, TagWrite
  <1>7. /\ Honours(p)
        /\ \A v \in rows : Told(p, v)'
        /\ \A v \in Batch(r) : tags'[v] = {schema}
    <2>1. /\ TagWrite(r).kind = "tags" /\ TagWrite(r).batch = Batch(r)
          /\ TagWrite(r).seen = run[r].seen
      BY DEF TagWrite
    <2>2. \A v \in rows : Told(p, v) /\ tags[v] \ run[r].seen[v] \subseteq {schema}
      BY <1>1, <1>4 DEF Obeys
    <2>3. Batch(r) \subseteq rows
      BY <1>6, <2>1 DEF Agrees
    <2> QED BY <1>1, <1>6, <2>1, <2>2, <2>3, CommitHonours DEF elsewhere
  <1>8. rows \subseteq Version /\ Written(r) = rows \cap Tagged[schema]
    BY <1>1, <1>4, WrittenRows DEF RankInv, TypeOK
  <1>9. ASSUME NEW v \in rows \cap Tagged[schema], Position(r, v) <= run[r].done + BatchSize
        PROVE  tags'[v] = {schema}
    <2>1. Position(r, v) \in Nat /\ run[r].done \in Nat
      BY <1>8, PositionBounds DEF RankInv, TypeOK, Local
    <2>2. CASE run[r].done < Position(r, v)
      BY <1>7, <1>8, <1>9, <2>2 DEF Batch
    <2>3. CASE ~(run[r].done < Position(r, v))
      BY <1>1, <1>4, <1>7, <2>1, <2>3 DEF Obeys, Honours
    <2> QED BY <2>2, <2>3
  <1>10. CASE MoreBatches(r)
    <2>1. \A v \in rows : Position(r, v)' = Position(r, v)
      BY <1>1, <1>5, <1>8, <1>10, SamePosition DEF At
    <2>2. /\ rows' = rows /\ schema' = schema
          /\ run'[r].schema = schema /\ run'[r].plan = p
      BY <1>1, <1>4, <1>5, <1>10 DEF Obeys, elsewhere
    <2>3. Obeys(p, r)'
      BY <1>5, <1>7, <1>9, <1>10, <2>1, <2>2 DEF Obeys, At
    <2> QED BY <1>1, <1>2, <1>3, <1>4, <1>5, <1>10, <2>3, WriterMoves DEF elsewhere, At, Early
  <1>11. CASE ~MoreBatches(r)
    <2>1. ASSUME NEW v \in rows \cap Tagged[schema] PROVE tags'[v] = {schema}
      <3>1. r \in Run /\ v \in Version /\ TypeOK
        BY <1>8 DEF RankInv
      <3>2. /\ Position(r, v) \in Nat /\ Position(r, v) <= Cardinality(Written(r))
            /\ Cardinality(Written(r)) \in Nat
        BY <3>1, PositionBounds
      <3>3. run[r].done \in Nat /\ BatchSize \in Nat
        BY <3>1, PositionBounds, OrderingAssumption DEF TypeOK, Local
      <3>4. Position(r, v) <= run[r].done + BatchSize
        BY <1>11, <3>2, <3>3 DEF MoreBatches
      <3> QED BY <1>9, <3>4
    <2>2. run'[r].pc = "idle"
      BY <1>5, <1>11 DEF Idle
    <2> QED BY <1>1, <1>2, <1>3, <1>4, <1>5, <1>7, <2>1, <2>2, WriterMoves
            DEF elsewhere, At, Early
  <1> QED BY <1>10, <1>11

LEMMA AttemptFailsLone ==
  ASSUME RankInv, Lone, NEW r \in Run, AttemptFails(r)
  PROVE  Lone'
  <1> SUFFICES ASSUME Untroubled' PROVE Lone'
    BY Troubled
  <1>1. r \in Active /\ UNCHANGED <<rows, stored, schema, manifest, pending>>
    BY DEF AttemptFails
  <1>2. /\ Only(r)
        /\ run'[r].pc = IF At(r, "commit") THEN "tags" ELSE run[r].pc
        /\ run'[r].schema = run[r].schema
        /\ run'[r].edition = run[r].edition
        /\ run'[r].plan = run[r].plan
        /\ run'[r].done = run[r].done
        /\ Untroubled
    BY <1>1, AttemptEffect DEF RankInv, Untroubled
  <1>3. CASE run[r].pc \in Early
    <2>1. Reads(r) /\ late' = {}
      BY <1>1, <1>2, <1>3 DEF Lone, Reading, Reads, AttemptFails, InFlight, At, Early
    <2>2. Reads(r)'
      BY <1>1, <1>2, <1>3, <2>1 DEF Reads, At, Early, EditionOf
    <2>3. Active' = {r} /\ run'[r].pc \in Early
      BY <1>1, <1>2, <1>3, Sole DEF At, Early
    <2> QED BY <2>2, <2>3 DEF Lone, Alone, Reading, Writing
  <1>4. CASE run[r].pc \notin Early
    <2>1. PICK p \in Ranks : Follows(p)
      BY <1>1, <1>2, <1>4, PlanFollowed
    <2>2. Good(p) /\ Obeys(p, r) /\ r \in Run
      BY <1>1, <2>1 DEF Follows
    <2>3. \A w \in late' : Agrees(p, w)
      BY <2>1, <2>2, InFlightAgrees DEF Follows, AttemptFails
    <2>4. Honours(p)
      BY <1>1 DEF Honours, Told, stored
    <2>5. Obeys(p, r)'
      BY <1>1, <1>2, <2>2, <2>4, ObeysKept DEF At
    <2>6. run'[r].pc \notin Early
      BY <1>2, <1>4 DEF Early
    <2> QED BY <1>1, <1>2, <2>1, <2>3, <2>5, <2>6, WriterMoves DEF Active, At
  <1> QED BY <1>3, <1>4

\* A step that moves no run: a late transaction, or nothing at all.
LEMMA WritersStay ==
  ASSUME RankInv, Lone, UNCHANGED <<rows, schema, manifest, run, pending, disturbed>>,
         late' \subseteq late,
         \A p \in Ranks : Follows(p) => Honours(p)
  PROVE  Lone'
  <1>1. Untroubled' <=> Untroubled
    BY DEF Untroubled
  <1>2. Active' = Active
    BY DEF Active, At
  <1>3. Alone'
    BY <1>1, <1>2 DEF Lone, Alone
  <1>4. Reading'
    BY <1>1, <1>2 DEF Lone, Reading, Reads, At, EditionOf
  <1>5. ASSUME Untroubled, \A r \in Active : run[r].pc \notin Early
        PROVE  \E p \in Ranks : Follows(p)'
    <2>1. PICK p \in Ranks : Follows(p)
      BY <1>5 DEF Lone, Writing
    <2>2. Honours(p)
      BY <2>1
    <2>3. Good(p)' /\ \A w \in late' : Agrees(p, w)'
      BY <2>1, GoodKept DEF Follows, Agrees
    <2>4. ASSUME NEW r \in Active PROVE Obeys(p, r)'
      BY <2>1, <2>2, ObeysKept DEF Follows, Active
    <2>5. Active = {} => /\ \A v \in rows : Told(p, v)'
                         /\ \A v \in rows \cap Tagged[schema] : tags'[v] = {schema}
      BY <2>1, <2>2 DEF Follows, Honours
    <2>6. Follows(p)'
      BY <1>2, <2>3, <2>4, <2>5 DEF Follows
    <2> QED BY <2>6
  <1>6. Writing'
    BY <1>1, <1>2, <1>5 DEF Writing
  <1> QED BY <1>3, <1>4, <1>6 DEF Lone

LEMMA LateEndsLone ==
  ASSUME RankInv, Lone, NEW w \in late, LateEnds(w)
  PROVE  Lone'
  <1>1. w \in Write
    BY DEF RankInv, TypeOK
  <1>2. ASSUME NEW p \in Ranks, Follows(p) PROVE Honours(p)
    <2>1. CASE Commit(w)
      BY <1>1, <1>2, <2>1, CommitHonours DEF Follows, LateEnds
    <2>2. CASE UNCHANGED stored
      BY <2>2 DEF Honours, Told, stored, LateEnds
    <2> QED BY <2>1, <2>2 DEF LateEnds
  <1> QED BY <1>2, WritersStay DEF LateEnds

LEMMA InitLone == Init => Lone
  <1> SUFFICES ASSUME Init PROVE Lone
    OBVIOUS
  <1>1. Active = {}
    BY DEF Init, Active, At, Idle
  <1>2. Good(NoPlan)
    <2>1. rows = {} /\ Cardinality(rows) = 0
      BY FS_EmptySet DEF Init
    <2>2. \A v \in Version : ~(NoPlan[v] > 0)
      BY DEF NoPlan
    <2> QED BY <2>1, <2>2 DEF Good
  <1>3. Follows(NoPlan)
    BY <1>1, <1>2 DEF Follows, Init
  <1> QED BY <1>1, <1>3, IdleTyped DEF Lone, Alone, Reading, Writing

-----------------------------------------------------------------------------
(* What a run that was alone leaves behind. *)

LEMMA InitInv == Init => IInv
  BY InitRank, InitLone DEF IInv

LEMMA NextInv ==
  ASSUME IInv, [Next]_vars
  PROVE  IInv'
  <1>1. RankInv'
    BY NextRank DEF IInv
  <1>2. Lone'
    <2>1. CASE UNCHANGED vars
      BY <2>1, WritersStay DEF IInv, vars, Honours, Told
    <2>2. CASE \E r \in Sync, new \in SUBSET Version : Fire(r, new)
      BY <2>2, FireLone DEF IInv
    <2>3. CASE \E s \in Schema : PutSchema(s)
      BY <2>3, PutSchemaLone DEF IInv
    <2>4. CASE StartOrdering
      BY <2>4, StartOrderingLone DEF IInv
    <2>5. CASE StartFails \/ NewEdition
      BY <2>5, Troubled DEF StartFails, NewEdition, Untroubled
    <2>6. CASE \E r \in Run : Activity(r) \/ AttemptFails(r)
      BY <2>6, SchemaLone, ManifestLone, ComputeLone, ApplyLone, BeginTagsLone,
         SkipTagsLone, StoreTagsLone, AttemptFailsLone DEF IInv, Activity
    <2>7. CASE \E w \in late : LateEnds(w)
      BY <2>7, LateEndsLone DEF IInv
    <2> QED BY <2>1, <2>2, <2>3, <2>4, <2>5, <2>6, <2>7 DEF Next
  <1> QED BY <1>1, <1>2 DEF IInv

\* A run that had the database to itself leaves the rows numbered without gaps
\* in the order of the current schema, with its recommendations and its tags,
\* although attempts were repeated and the transactions of those that timed out
\* committed late, tags that had been deleted by what they saw before included.
THEOREM LeavesExactOrder == Spec => []Settled
  <1>1. Init => IInv
    BY InitInv
  <1>2. IInv /\ [Next]_vars => IInv'
    BY NextInv
  <1>3. ASSUME IInv PROVE Settled
    <2> SUFFICES ASSUME Quiet, ~disturbed
                 PROVE  {order[v] : v \in rows} = 1..Cardinality(rows) /\ Shown(schema)
      BY DEF Settled
    <2>1. PICK p \in Ranks : Follows(p) /\ Active = {}
      BY <1>3 DEF IInv, Lone, Writing, Untroubled, Quiet
    <2>2. \A v \in rows : order[v] = p[v] /\ (v \in recommended <=> v \in Release[schema])
      BY <2>1 DEF Follows, Told
    <2>3. {order[v] : v \in rows} = 1..Cardinality(rows)
      BY <2>1, <2>2 DEF Follows, Good
    <2>4. Respects(schema, EditionOf(schema))
      BY <2>1, <2>2 DEF Follows, Good, Respects
    <2>5. Shown(schema)
      BY <2>1, <2>2, <2>4 DEF Follows, Shown
    <2> QED BY <2>3, <2>5
  <1> QED BY <1>1, <1>2, <1>3, PTL DEF Spec
=============================================================================
