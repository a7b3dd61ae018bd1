------------------------- MODULE VersionSyncProofs -------------------------
(***************************************************************************)
(* Theorems about VersionSync, for any number of overlapping runs of       *)
(* either source, any page size, probe cap and number of faults.           *)
(***************************************************************************)
EXTENDS VersionSync, FiniteSetTheorems, TLAPS

-----------------------------------------------------------------------------
(* The paged read. *)

\* A row's rank is at most the number of rows and only grows with inserts.
LEMMA RankGrows ==
  ASSUME NEW R \in SUBSET Version, NEW R2 \in SUBSET Version, R \subseteq R2,
         NEW v
  PROVE  /\ RankIn(R, v) \in Nat
         /\ RankIn(R, v) <= RankIn(R2, v)
         /\ Cardinality(R) \in Nat
         /\ RankIn(R, v) <= Cardinality(R)
  <1>1. IsFiniteSet(Version)
    BY FS_Interval, SyncAssumption DEF Version
  <1>2. IsFiniteSet(R) /\ IsFiniteSet(R2)
    BY <1>1, FS_Subset
  <1> DEFINE below == {w \in R : w <= v}
             below2 == {w \in R2 : w <= v}
  <1>3. below \in SUBSET R /\ below2 \in SUBSET R2 /\ below \in SUBSET below2
    OBVIOUS
  <1> HIDE DEF below, below2
  <1>4. IsFiniteSet(below) /\ IsFiniteSet(below2)
    BY <1>2, <1>3, FS_Subset
  <1>5. /\ Cardinality(below) <= Cardinality(R)
        /\ Cardinality(below) <= Cardinality(below2)
    BY <1>2, <1>3, <1>4, FS_Subset
  <1>6. Cardinality(below) \in Nat /\ Cardinality(R) \in Nat
    BY <1>2, <1>4, FS_CardinalityType
  <1> USE DEF below, below2
  <1> QED BY <1>5, <1>6 DEF RankIn

\* When the page at hand is short, the read has seen every row that was there
\* when it began.
LEMMA ReadIsComplete ==
  ASSUME rows \in SUBSET Version, NEW l \in Local, ReadInv(l, rows),
         l.pc \in {"known", "storing"}, ShortPage(l.offset)
  PROVE  l.before \subseteq l.existing \cup Page(l.offset)
  <1> SUFFICES ASSUME NEW v \in l.before, v \notin l.existing
               PROVE  v \in Page(l.offset)
    OBVIOUS
  <1>1. v \in rows /\ l.offset \in Nat
    BY DEF ReadInv, Local
  <1>2. /\ RankIn(rows, v) \in Nat
        /\ Cardinality(rows) \in Nat
        /\ RankIn(rows, v) <= Cardinality(rows)
    BY RankGrows
  <1>3. ~(RankIn(rows, v) <= l.offset)
    BY DEF ReadInv
  <1>4. Cardinality(rows) < l.offset + PageSize
    BY DEF ShortPage
  <1>5. PageSize \in Nat
    BY SyncAssumption
  <1>6. l.offset < RankIn(rows, v) /\ RankIn(rows, v) <= l.offset + PageSize
    BY <1>1, <1>2, <1>3, <1>4, <1>5
  <1> QED BY <1>1, <1>6 DEF Page, Rank

\* The local invariant survives whatever other runs and upstream add.
LEMMA LocalInvGrows ==
  ASSUME NEW l \in Local, NEW source,
         NEW R \in SUBSET Version, NEW R2 \in SUBSET Version, R \subseteq R2,
         NEW S, NEW S2, S \subseteq S2,
         LocalInv(l, source, R, S)
  PROVE  LocalInv(l, source, R2, S2)
  <1>1. ReadInv(l, R) /\ FetchedInv(l, S)
        /\ (source = "metadata" => ProbedInv(l, R, S))
    BY DEF LocalInv
  <1>2. ReadInv(l, R2)
    <2>1. \A v \in l.before : RankIn(R2, v) <= l.offset => RankIn(R, v) <= l.offset
      <3> SUFFICES ASSUME NEW v \in l.before, RankIn(R2, v) <= l.offset
                   PROVE  RankIn(R, v) <= l.offset
        OBVIOUS
      <3>1. RankIn(R, v) \in Nat /\ RankIn(R, v) <= RankIn(R2, v)
        BY RankGrows
      <3>2. RankIn(R2, v) \in Nat
        BY RankGrows
      <3>3. l.offset \in Nat
        BY DEF Local
      <3> QED BY <3>1, <3>2, <3>3
    <2> QED BY <1>1, <2>1 DEF ReadInv
  <1>3. FetchedInv(l, S2)
    BY <1>1 DEF FetchedInv
  <1>4. source = "metadata" => ProbedInv(l, R2, S2)
    BY <1>1 DEF ProbedInv
  <1> QED BY <1>2, <1>3, <1>4 DEF LocalInv

-----------------------------------------------------------------------------
(* One run moves. *)

LEMMA MoveRun ==
  ASSUME run \in [Run -> Local], NEW r \in Run, NEW l \in Local, Move(r, l)
  PROVE  /\ run' \in [Run -> Local]
         /\ run'[r] = l
         /\ \A s \in Run \ {r} : run'[s] = run[s]
  BY DEF Move

\* When run r moves to l, the other runs keep their local invariant.
LEMMA MoveKeepsLocalInv ==
  ASSUME IInv, NEW r \in Run, NEW l \in Local, Move(r, l),
         rows' \in SUBSET Version, rows \subseteq rows', searchable \subseteq searchable',
         LocalInv(l, Source[r], rows', searchable')
  PROVE  \A s \in Run : LocalInv(run'[s], Source[s], rows', searchable')
  <1>1. /\ run \in [Run -> Local]
        /\ rows \in SUBSET Version
    BY DEF IInv, TypeOK
  <1>2. \A s \in Run : LocalInv(run[s], Source[s], rows, searchable)
    BY DEF IInv
  <1>3. run'[r] = l /\ \A s \in Run \ {r} : run'[s] = run[s]
    BY <1>1, MoveRun
  <1> SUFFICES ASSUME NEW s \in Run
               PROVE  LocalInv(run'[s], Source[s], rows', searchable')
    OBVIOUS
  <1>4. CASE s = r
    BY <1>3, <1>4
  <1>5. CASE s # r
    <2>1. LocalInv(run[s], Source[s], rows', searchable')
      BY <1>1, <1>2, LocalInvGrows
    <2> QED BY <1>3, <1>5, <2>1
  <1> QED BY <1>4, <1>5

\* A run that gives up no version it was going to index leaves none behind.
LEMMA MoveKeepsRowsIndexed ==
  ASSUME IInv, NEW r \in Run, NEW l \in Local, Move(r, l),
         rows' = rows, indexed \subseteq indexed', faults' = faults,
         \A v \in rows \ Denied :
            PendingIn(run[r], v) => PendingIn(l, v) \/ v \in indexed'
  PROVE  RowsAreIndexed'
  <1>1. run \in [Run -> Local] /\ RowsAreIndexed
    BY DEF IInv, TypeOK
  <1>2. run'[r] = l /\ \A s \in Run \ {r} : run'[s] = run[s]
    BY <1>1, MoveRun
  <1> SUFFICES ASSUME NEW v \in rows \ Denied, v \notin indexed', ~(faults > 0)
               PROVE  \E s \in Run : PendingIn(run'[s], v)
    BY DEF RowsAreIndexed, Pending
  <1>3. PICK s \in Run : PendingIn(run[s], v)
    BY <1>1 DEF RowsAreIndexed, Pending
  <1>4. CASE s = r
    BY <1>2, <1>3, <1>4
  <1>5. CASE s # r
    BY <1>2, <1>3, <1>5
  <1> QED BY <1>4, <1>5

\* After a fault nothing is claimed of the rows.
LEMMA FaultExcuses == ASSUME TypeOK, Fault PROVE RowsAreIndexed' /\ faults' \in 0..MaxFaults
  BY SyncAssumption DEF TypeOK, Fault, RowsAreIndexed

-----------------------------------------------------------------------------
(* The kinds of steps. *)

\* A step of one run that changes neither the tables nor upstream.
LEMMA QuietMove ==
  ASSUME IInv, NEW r \in Run, NEW l \in Local, Move(r, l),
         UNCHANGED <<upstream, database, faults>>,
         LocalInv(l, Source[r], rows, searchable),
         \A v \in rows \ Denied :
            PendingIn(run[r], v) => PendingIn(l, v) \/ v \in indexed
  PROVE  IInv'
  <1>1. /\ UNCHANGED <<listed, searchable, rows, ordered, indexed, faults>>
        /\ run \in [Run -> Local]
        /\ TypeOK
    BY DEF upstream, database, IInv, TypeOK
  <1>2. rows' \in SUBSET Version
    BY <1>1 DEF TypeOK
  <1>3. run' \in [Run -> Local]
    BY <1>1, MoveRun
  <1>4. TypeOK'
    BY <1>1, <1>3 DEF TypeOK
  <1>5. LocalInv(l, Source[r], rows', searchable')
    BY <1>1
  <1>6. \A s \in Run : LocalInv(run'[s], Source[s], rows', searchable')
    BY <1>1, <1>2, <1>5, MoveKeepsLocalInv
  <1>7. RowsAreIndexed'
    BY <1>1, MoveKeepsRowsIndexed
  <1> QED BY <1>4, <1>6, <1>7 DEF IInv

\* A fault that moves one run.
LEMMA FaultMove ==
  ASSUME IInv, NEW r \in Run, NEW l \in Local, Move(r, l), Fault,
         UNCHANGED <<upstream, database>>,
         LocalInv(l, Source[r], rows, searchable)
  PROVE  IInv'
  <1>1. /\ UNCHANGED <<listed, searchable, rows, ordered, indexed>>
        /\ run \in [Run -> Local]
        /\ TypeOK
    BY DEF upstream, database, IInv, TypeOK
  <1>2. rows' \in SUBSET Version
    BY <1>1 DEF TypeOK
  <1>3. run' \in [Run -> Local]
    BY <1>1, MoveRun
  <1>4. RowsAreIndexed' /\ faults' \in 0..MaxFaults
    BY <1>1, FaultExcuses
  <1>5. TypeOK'
    BY <1>1, <1>3, <1>4 DEF TypeOK
  <1>6. LocalInv(l, Source[r], rows', searchable')
    BY <1>1
  <1>7. \A s \in Run : LocalInv(run'[s], Source[s], rows', searchable')
    BY <1>1, <1>2, <1>6, MoveKeepsLocalInv
  <1> QED BY <1>4, <1>5, <1>7 DEF IInv

LEMMA IdleFacts ==
  /\ Idle \in Local
  /\ \A source, R, S : LocalInv(Idle, source, R, S)
  /\ \A v : ~PendingIn(Idle, v)
  <1>1. Idle \in Local
    BY SyncAssumption DEF Idle, Local, Step
  <1>2. \A v : ~PendingIn(Idle, v)
    BY DEF Idle, PendingIn
  <1>3. \A source, R, S : LocalInv(Idle, source, R, S)
    BY DEF Idle, LocalInv, ReadInv, FetchedInv, ProbedInv
  <1> QED BY <1>1, <1>2, <1>3

\* The run's own local state, as the action lemmas need it.
LEMMA RunFacts ==
  ASSUME IInv, NEW r \in Run
  PROVE  /\ run[r] \in Local
         /\ ReadInv(run[r], rows)
         /\ FetchedInv(run[r], searchable)
         /\ Source[r] = "metadata" => ProbedInv(run[r], rows, searchable)
         /\ LocalInv(run[r], Source[r], rows, searchable)
         /\ rows \in SUBSET Version
         /\ searchable \in SUBSET Version
         /\ rows \subseteq searchable
  BY DEF IInv, TypeOK, LocalInv

\* A read begins.
LEMMA FirstPage ==
  ASSUME rows \in SUBSET Version, NEW l \in Local, NEW step \in {"known", "storing"},
         NEW source, l.newVersions = {}, l.toIndex = {},
         step = "storing" => l.fetched \subseteq searchable,
         step = "storing" /\ source = "metadata" =>
            l.fetched \subseteq rows \cup (searchable \ Denied)
  PROVE  /\ AtFirstPage(l, step) \in Local
         /\ LocalInv(AtFirstPage(l, step), source, rows, searchable)
         /\ \A v : ~PendingIn(AtFirstPage(l, step), v)
  <1> DEFINE m == AtFirstPage(l, step)
  <1>1. m \in Local
    BY DEF AtFirstPage, Local, Step
  <1>2. /\ m.pc = step /\ m.existing = {} /\ m.offset = 0 /\ m.before = rows
        /\ m.fetched = l.fetched /\ m.newVersions = {} /\ m.toIndex = {}
    BY DEF AtFirstPage, Local
  <1> HIDE DEF m
  <1>3. ReadInv(m, rows)
    <2>1. \A v \in rows : ~(RankIn(rows, v) <= 0)
      <3> SUFFICES ASSUME NEW v \in rows PROVE ~(RankIn(rows, v) <= 0)
        OBVIOUS
      <3> DEFINE below == {w \in rows : w <= v}
      <3>1. v \in below
        BY SyncAssumption DEF Version
      <3>2. IsFiniteSet(below)
        <4>1. IsFiniteSet(Version)
          BY FS_Interval, SyncAssumption DEF Version
        <4>2. below \in SUBSET Version
          OBVIOUS
        <4> QED BY <4>1, <4>2, FS_Subset
      <3>3. Cardinality(below) # 0 /\ Cardinality(below) \in Nat
        BY <3>1, <3>2, FS_EmptySet, FS_CardinalityType
      <3> QED BY <3>3 DEF RankIn
    <2> QED BY <1>2, <2>1 DEF ReadInv
  <1>4. FetchedInv(m, searchable)
    BY <1>2 DEF FetchedInv
  <1>5. source = "metadata" => ProbedInv(m, rows, searchable)
    BY <1>2 DEF ProbedInv
  <1>6. \A v : ~PendingIn(m, v)
    BY <1>2 DEF PendingIn
  <1>7. LocalInv(m, source, rows, searchable)
    BY <1>3, <1>4, <1>5 DEF LocalInv
  <1> QED BY <1>1, <1>6, <1>7 DEF m

-----------------------------------------------------------------------------
(* One lemma per action. *)

LEMMA PublishIInv == ASSUME IInv, NEW v \in Version, Publish(v) PROVE IInv'
  <1>1. TypeOK'
    BY DEF IInv, TypeOK, Publish, database
  <1>2. RowsAreIndexed'
    BY DEF IInv, RowsAreIndexed, Pending, Publish, database
  <1> QED BY <1>1, <1>2 DEF IInv, Publish, database

LEMMA IndexUpstreamIInv ==
  ASSUME IInv, NEW v \in Version, IndexUpstream(v)
  PROVE  IInv'
  <1>1. TypeOK'
    BY DEF IInv, TypeOK, IndexUpstream, database
  <1>2. RowsAreIndexed'
    BY DEF IInv, RowsAreIndexed, Pending, IndexUpstream, database
  <1>3. ASSUME NEW r \in Run
        PROVE  LocalInv(run'[r], Source[r], rows', searchable')
    <2>1. run' = run /\ rows' = rows /\ searchable \subseteq searchable'
      BY DEF IndexUpstream, database
    <2>2. LocalInv(run[r], Source[r], rows, searchable) /\ run[r] \in Local
          /\ rows \in SUBSET Version
      BY RunFacts
    <2> QED BY <2>1, <2>2, LocalInvGrows
  <1> QED BY <1>1, <1>2, <1>3 DEF IInv

LEMMA EndRunIInv ==
  ASSUME IInv, NEW r \in Run, EndRun(r), UNCHANGED <<upstream, database, faults>>,
         \A v \in rows \ Denied : ~PendingIn(run[r], v)
  PROVE  IInv'
  BY IdleFacts, QuietMove DEF EndRun

LEMMA FireIInv == ASSUME IInv, NEW r \in Run, Fire(r) PROVE IInv'
  <1> DEFINE l == [Idle EXCEPT !.pc = "fetch"]
  <1>1. l \in Local
    BY IdleFacts DEF Local, Step
  <1>2. LocalInv(l, Source[r], rows, searchable) /\ \A v : ~PendingIn(run[r], v)
    BY DEF Idle, LocalInv, ReadInv, FetchedInv, ProbedInv, PendingIn, Fire, At
  <1>3. Move(r, l) /\ UNCHANGED <<upstream, database, faults>>
    BY DEF Fire
  <1> HIDE DEF l
  <1> QED BY <1>1, <1>2, <1>3, QuietMove

LEMMA FetchSearchIInv == ASSUME IInv, NEW r \in Run, FetchSearch(r) PROVE IInv'
  <1>1. \A v : ~PendingIn(run[r], v)
    BY DEF PendingIn, FetchSearch, At
  <1>2. CASE EndRun(r)
    BY <1>1, <1>2, EndRunIInv DEF FetchSearch
  <1>3. CASE ~EndRun(r)
    <2> DEFINE l == [Idle EXCEPT !.fetched = searchable]
               m == AtFirstPage(l, "storing")
    <2>1. /\ l \in Local /\ l.newVersions = {} /\ l.toIndex = {}
          /\ l.fetched = searchable
      BY IdleFacts, RunFacts DEF Local, Idle
    <2>2. /\ Move(r, m) /\ UNCHANGED <<upstream, database, faults>>
          /\ Source[r] # "metadata"
      BY <1>3 DEF FetchSearch
    <2> HIDE DEF l
    <2>3. m \in Local /\ LocalInv(m, Source[r], rows, searchable)
      BY <2>1, <2>2, RunFacts, FirstPage
    <2> HIDE DEF m
    <2> QED BY <1>1, <2>2, <2>3, QuietMove
  <1> QED BY <1>2, <1>3

LEMMA FetchMetadataIInv == ASSUME IInv, NEW r \in Run, FetchMetadata(r) PROVE IInv'
  <1>1. \A v : ~PendingIn(run[r], v)
    BY DEF PendingIn, FetchMetadata, At
  <1>2. CASE EndRun(r)
    BY <1>1, <1>2, EndRunIInv DEF FetchMetadata
  <1>3. CASE ~EndRun(r)
    <2> DEFINE l == [run[r] EXCEPT !.fetched = listed]
               m == AtFirstPage(l, "known")
    <2>1. l \in Local /\ l.newVersions = {} /\ l.toIndex = {}
      BY RunFacts DEF Local, IInv, TypeOK, FetchMetadata, At, FetchedInv
    <2>2. Move(r, m) /\ UNCHANGED <<upstream, database, faults>>
      BY <1>3 DEF FetchMetadata
    <2> HIDE DEF l
    <2>3. m \in Local /\ LocalInv(m, Source[r], rows, searchable)
      BY <2>1, RunFacts, FirstPage
    <2> HIDE DEF m
    <2> QED BY <1>1, <2>2, <2>3, QuietMove
  <1> QED BY <1>2, <1>3

LEMMA ReadPageIInv == ASSUME IInv, NEW r \in Run, ReadPage(r) PROVE IInv'
  <1> DEFINE l == run[r]
             m == AfterPage(l)
  <1>1. /\ l \in Local /\ ReadInv(l, rows) /\ FetchedInv(l, searchable)
        /\ Source[r] = "metadata" => ProbedInv(l, rows, searchable)
        /\ rows \in SUBSET Version
    BY RunFacts
  <1>2. l.pc \in {"known", "storing"} /\ l.offset \in Nat /\ PageSize \in Nat
    BY <1>1, SyncAssumption DEF ReadPage, Local
  <1>3. /\ Page(l.offset) \subseteq rows
        /\ \A v \in rows : RankIn(rows, v) \in Nat
    BY <1>1, RankGrows DEF Page
  <1>4. m \in Local
    <2> DEFINE e == l.existing \cup Page(l.offset)
               o == l.offset + PageSize
    <2>1. e \in SUBSET Version
      BY <1>1, <1>3 DEF Local
    <2>2. o \in Nat
      BY <1>2
    <2>3. m = [l EXCEPT !.existing = e, !.offset = o]
      BY DEF AfterPage
    <2> HIDE DEF e, o, m, l
    <2> QED BY <1>1, <2>1, <2>2, <2>3 DEF Local
  <1>5. /\ m.pc = l.pc /\ m.existing = l.existing \cup Page(l.offset)
        /\ m.offset = l.offset + PageSize /\ m.before = l.before
        /\ m.fetched = l.fetched /\ m.newVersions = l.newVersions
        /\ m.toIndex = l.toIndex
    BY <1>1 DEF AfterPage, Local
  <1>6. Move(r, m) /\ UNCHANGED <<upstream, database, faults>>
    BY DEF ReadPage
  <1>7. \A v : ~PendingIn(l, v)
    BY <1>2 DEF PendingIn
  <1> HIDE DEF m
  <1>8. ReadInv(m, rows)
    <2>1. ASSUME NEW v \in l.before, RankIn(rows, v) <= l.offset + PageSize
          PROVE  v \in l.existing \cup Page(l.offset)
      <3>1. v \in rows
        BY <1>1 DEF ReadInv
      <3>2. CASE RankIn(rows, v) <= l.offset
        BY <1>1, <1>2, <3>2 DEF ReadInv
      <3>3. CASE ~(RankIn(rows, v) <= l.offset)
        BY <1>2, <1>3, <2>1, <3>1, <3>3 DEF Page, Rank
      <3> QED BY <3>2, <3>3
    <2> QED BY <1>1, <1>3, <1>5, <2>1 DEF ReadInv
  <1>9. FetchedInv(m, searchable)
    BY <1>1, <1>5 DEF FetchedInv
  <1>10. Source[r] = "metadata" => ProbedInv(m, rows, searchable)
    BY <1>1, <1>5 DEF ProbedInv
  <1>11. LocalInv(m, Source[r], rows, searchable)
    BY <1>8, <1>9, <1>10 DEF LocalInv
  <1> QED BY <1>4, <1>6, <1>7, <1>11, QuietMove

LEMMA DeferIInv == ASSUME IInv, NEW r \in Run, Defer(r) PROVE IInv'
  <1>1. \A v : ~PendingIn(run[r], v)
    BY DEF PendingIn, Defer, LastPageAt, At
  <1> QED BY <1>1, EndRunIInv DEF Defer

\* What a complete read of the existing versions knows.
LEMMA KnownFacts ==
  ASSUME IInv, NEW r \in Run, NEW step \in {"known", "storing"},
         LastPageAt(r, step)
  PROVE  /\ run[r].pc = step
         /\ Known(r) \subseteq rows
         /\ run[r].before \subseteq Known(r)
         /\ \A v : ~PendingIn(run[r], v)
  <1>1. run[r].pc = step /\ ShortPage(run[r].offset)
    BY DEF LastPageAt, At
  <1>2. run[r] \in Local /\ ReadInv(run[r], rows) /\ rows \in SUBSET Version
    BY RunFacts
  <1>3. run[r].before \subseteq run[r].existing \cup Page(run[r].offset)
    BY <1>1, <1>2, ReadIsComplete
  <1>4. Known(r) \subseteq rows
    BY <1>2 DEF Known, Page, ReadInv
  <1>5. \A v : ~PendingIn(run[r], v)
    BY <1>1 DEF PendingIn
  <1> QED BY <1>1, <1>3, <1>4, <1>5 DEF Known

LEMMA BeginProbingIInv == ASSUME IInv, NEW r \in Run, BeginProbing(r) PROVE IInv'
  <1> DEFINE l == run[r]
             m == [l EXCEPT !.pc = "probe", !.fetched = @ \cap Known(r),
                            !.toProbe = Unknown(r), !.existing = {}, !.offset = 0]
  <1>1. LastPageAt(r, "known")
    BY DEF BeginProbing
  <1>2. /\ l.pc = "known" /\ Known(r) \subseteq rows
        /\ \A v : ~PendingIn(l, v)
    BY <1>1, KnownFacts
  <1>3. /\ l \in Local /\ ReadInv(l, rows) /\ FetchedInv(l, searchable)
        /\ rows \subseteq searchable
    BY RunFacts
  <1>4. m \in Local
    BY <1>3 DEF Local, Step, Unknown
  <1>5. /\ m.pc = "probe" /\ m.fetched = l.fetched \cap Known(r)
        /\ m.existing = {} /\ m.before = l.before /\ m.toIndex = l.toIndex
        /\ m.newVersions = l.newVersions
    BY <1>3 DEF Local
  <1>6. Move(r, m) /\ UNCHANGED <<upstream, database, faults>>
    BY DEF BeginProbing
  <1> HIDE DEF m
  <1>7. ReadInv(m, rows)
    BY <1>3, <1>5 DEF ReadInv
  <1>8. FetchedInv(m, searchable)
    BY <1>2, <1>3, <1>5 DEF FetchedInv
  <1>9. ProbedInv(m, rows, searchable)
    BY <1>2, <1>3, <1>5 DEF ProbedInv, FetchedInv
  <1>10. LocalInv(m, Source[r], rows, searchable)
    BY <1>7, <1>8, <1>9 DEF LocalInv
  <1> QED BY <1>2, <1>4, <1>6, <1>10, QuietMove

LEMMA ProbeIInv == ASSUME IInv, NEW r \in Run, Probe(r) PROVE IInv'
  <1> DEFINE l == run[r]
  <1>1. PICK v \in l.toProbe :
          Move(r, [l EXCEPT !.toProbe = @ \ {v},
                            !.fetched = IF HasAssets(v) THEN @ \cup {v} ELSE @])
    BY DEF Probe
  <1> DEFINE m == [l EXCEPT !.toProbe = @ \ {v},
                            !.fetched = IF HasAssets(v) THEN @ \cup {v} ELSE @]
  <1>2. l.pc = "probe" /\ UNCHANGED <<upstream, database, faults>>
    BY DEF Probe, At
  <1>3. /\ l \in Local /\ ReadInv(l, rows) /\ FetchedInv(l, searchable)
        /\ Source[r] = "metadata" => ProbedInv(l, rows, searchable)
    BY RunFacts
  <1>4. m \in Local
    BY <1>3 DEF Local
  <1>5. /\ m.pc = "probe" /\ m.existing = l.existing /\ m.before = l.before
        /\ m.toIndex = l.toIndex /\ m.newVersions = l.newVersions
        /\ l.fetched \subseteq m.fetched
        /\ m.fetched \subseteq l.fetched \cup (searchable \ Denied)
    BY <1>2, <1>3 DEF Local, HasAssets
  <1>6. \A w : ~PendingIn(l, w)
    BY <1>2 DEF PendingIn
  <1>7. Move(r, m)
    BY <1>1
  <1> HIDE DEF m
  <1>8. ReadInv(m, rows)
    BY <1>3, <1>5 DEF ReadInv
  <1>9. FetchedInv(m, searchable)
    BY <1>2, <1>3, <1>5 DEF FetchedInv
  <1>10. Source[r] = "metadata" => ProbedInv(m, rows, searchable)
    BY <1>2, <1>3, <1>5 DEF ProbedInv
  <1>11. LocalInv(m, Source[r], rows, searchable)
    BY <1>8, <1>9, <1>10 DEF LocalInv
  <1> QED BY <1>2, <1>4, <1>6, <1>7, <1>11, QuietMove

LEMMA EndProbingIInv == ASSUME IInv, NEW r \in Run, EndProbing(r) PROVE IInv'
  <1>1. \A v : ~PendingIn(run[r], v)
    BY DEF PendingIn, EndProbing, At
  <1>2. CASE EndRun(r)
    BY <1>1, <1>2, EndRunIInv DEF EndProbing
  <1>3. CASE ~EndRun(r)
    <2> DEFINE l == [run[r] EXCEPT !.attempt = 1]
               m == AtFirstPage(l, "storing")
    <2>1. /\ l \in Local /\ l.newVersions = {} /\ l.toIndex = {}
          /\ l.fetched = run[r].fetched
      BY RunFacts, SyncAssumption DEF Local, EndProbing, At, FetchedInv
    <2>2. Move(r, m) /\ UNCHANGED <<upstream, database, faults>>
      BY <1>3 DEF EndProbing
    <2>3. /\ run[r].fetched \subseteq searchable
          /\ Source[r] = "metadata" =>
               run[r].fetched \subseteq rows \cup (searchable \ Denied)
      BY RunFacts DEF EndProbing, At, FetchedInv, ProbedInv
    <2> HIDE DEF l
    <2>4. m \in Local /\ LocalInv(m, Source[r], rows, searchable)
      BY <2>1, <2>3, RunFacts, FirstPage
    <2> HIDE DEF m
    <2> QED BY <1>1, <2>2, <2>4, QuietMove
  <1> QED BY <1>2, <1>3

LEMMA FilterIInv == ASSUME IInv, NEW r \in Run, Filter(r) PROVE IInv'
  <1> DEFINE l == run[r]
             m == [l EXCEPT !.pc = IF Unknown(r) = {} THEN "reply" ELSE "insert",
                            !.newVersions = Unknown(r),
                            !.existing = {}, !.offset = 0]
  <1>1. LastPageAt(r, "storing")
    BY DEF Filter
  <1>2. /\ l.pc = "storing" /\ l.before \subseteq Known(r)
        /\ \A v : ~PendingIn(l, v)
    BY <1>1, KnownFacts
  <1>3. /\ l \in Local /\ ReadInv(l, rows) /\ FetchedInv(l, searchable)
        /\ Source[r] = "metadata" => ProbedInv(l, rows, searchable)
    BY RunFacts
  <1>4. m \in Local
    BY <1>3 DEF Local, Step, Unknown
  <1>5. /\ m.pc \in {"reply", "insert"} /\ m.fetched = l.fetched
        /\ m.existing = {} /\ m.before = l.before /\ m.toIndex = l.toIndex
        /\ m.newVersions = l.fetched \ Known(r)
    BY <1>3 DEF Local, Unknown
  <1>6. Move(r, m) /\ UNCHANGED <<upstream, database, faults>>
    BY DEF Filter
  <1> HIDE DEF m
  <1>7. ReadInv(m, rows)
    BY <1>3, <1>5 DEF ReadInv
  <1>8. FetchedInv(m, searchable)
    BY <1>2, <1>3, <1>5 DEF FetchedInv
  <1>9. Source[r] = "metadata" => ProbedInv(m, rows, searchable)
    BY <1>2, <1>3, <1>5 DEF ProbedInv
  <1>10. LocalInv(m, Source[r], rows, searchable)
    BY <1>7, <1>8, <1>9 DEF LocalInv
  <1> QED BY <1>2, <1>4, <1>6, <1>10, QuietMove

LEMMA InsertIInv == ASSUME IInv, NEW r \in Run, Insert(r) PROVE IInv'
  <1> DEFINE l == run[r]
             m == [l EXCEPT !.pc = "reply"]
  <1>1. /\ l.pc = "insert" /\ rows' = rows \cup l.newVersions
        /\ UNCHANGED <<listed, searchable, ordered, indexed, faults>>
        /\ Move(r, m)
    BY DEF Insert, At, upstream
  <1>2. /\ l \in Local /\ ReadInv(l, rows) /\ FetchedInv(l, searchable)
        /\ Source[r] = "metadata" => ProbedInv(l, rows, searchable)
        /\ rows \in SUBSET Version
        /\ searchable \in SUBSET Version
        /\ run \in [Run -> Local]
    BY RunFacts DEF IInv, TypeOK
  <1>3. m \in Local
    BY <1>2 DEF Local, Step
  <1>4. /\ m.pc = "reply" /\ m.existing = l.existing /\ m.before = l.before
        /\ m.fetched = l.fetched /\ m.toIndex = l.toIndex
        /\ m.newVersions = l.newVersions
    BY <1>2 DEF Local
  <1> HIDE DEF m
  <1>5. l.newVersions \subseteq searchable
    BY <1>1, <1>2 DEF FetchedInv
  <1>6. LocalInv(m, Source[r], rows', searchable')
    <2>1. ReadInv(m, rows')
      BY <1>1, <1>2, <1>4 DEF ReadInv
    <2>2. FetchedInv(m, searchable')
      BY <1>1, <1>2, <1>4 DEF FetchedInv
    <2>3. Source[r] = "metadata" => ProbedInv(m, rows', searchable')
      BY <1>1, <1>2, <1>4 DEF ProbedInv
    <2> QED BY <2>1, <2>2, <2>3 DEF LocalInv
  <1>7. /\ rows' \in SUBSET searchable' /\ rows' \in SUBSET Version
        /\ rows \subseteq rows' /\ searchable \subseteq searchable'
    BY <1>1, <1>2, <1>5 DEF IInv, TypeOK
  <1>8. \A s \in Run : LocalInv(run'[s], Source[s], rows', searchable')
    BY <1>1, <1>3, <1>6, <1>7, MoveKeepsLocalInv
  <1>9. /\ run' \in [Run -> Local] /\ run'[r] = m
        /\ \A s \in Run \ {r} : run'[s] = run[s]
    BY <1>1, <1>2, <1>3, MoveRun
  <1>10. TypeOK'
    BY <1>1, <1>7, <1>9 DEF IInv, TypeOK
  <1>11. RowsAreIndexed'
    <2> SUFFICES ASSUME NEW v \in rows' \ Denied, v \notin indexed', ~(faults' > 0)
                 PROVE  \E s \in Run : PendingIn(run'[s], v)
      BY DEF RowsAreIndexed, Pending
    <2>1. CASE v \in l.newVersions
      BY <1>4, <1>9, <2>1 DEF PendingIn
    <2>2. CASE v \notin l.newVersions
      <3>1. PICK s \in Run : PendingIn(run[s], v)
        BY <1>1, <2>2 DEF IInv, RowsAreIndexed, Pending
      <3>2. s # r
        BY <1>1, <3>1 DEF PendingIn
      <3> QED BY <1>9, <3>1, <3>2
    <2> QED BY <2>1, <2>2
  <1> QED BY <1>8, <1>10, <1>11 DEF IInv

LEMMA StoredIInv == ASSUME IInv, NEW r \in Run, Stored(r) PROVE IInv'
  <1> DEFINE l == run[r]
             ti == IF ForceReindex[r] THEN l.fetched ELSE l.newVersions
             m == [l EXCEPT !.pc = "children", !.toIndex = ti, !.unordered = TRUE]
  <1>1. /\ l.pc = "reply" /\ Move(r, m)
        /\ UNCHANGED <<upstream, database, faults>>
    BY DEF Stored, At
  <1>2. /\ l \in Local /\ ReadInv(l, rows) /\ FetchedInv(l, searchable)
        /\ Source[r] = "metadata" => ProbedInv(l, rows, searchable)
    BY RunFacts
  <1>3. ti \in SUBSET l.fetched /\ l.newVersions \subseteq ti
    BY <1>2 DEF FetchedInv
  <1> HIDE DEF ti
  <1>4. m \in Local
    BY <1>2, <1>3 DEF Local, Step
  <1>5. /\ m.pc = "children" /\ m.existing = l.existing /\ m.before = l.before
        /\ m.fetched = l.fetched /\ m.toIndex = ti
        /\ m.newVersions = l.newVersions
    BY <1>2 DEF Local
  <1> HIDE DEF m
  <1>6. ReadInv(m, rows)
    BY <1>2, <1>5 DEF ReadInv
  <1>7. FetchedInv(m, searchable)
    BY <1>1, <1>2, <1>3, <1>5 DEF FetchedInv
  <1>8. Source[r] = "metadata" => ProbedInv(m, rows, searchable)
    BY <1>2, <1>5 DEF ProbedInv
  <1>9. LocalInv(m, Source[r], rows, searchable)
    BY <1>6, <1>7, <1>8 DEF LocalInv
  <1>10. \A v : PendingIn(l, v) => PendingIn(m, v)
    BY <1>1, <1>3, <1>5 DEF PendingIn
  <1> QED BY <1>1, <1>4, <1>9, <1>10, QuietMove

\* A run takes one version off its list.
LEMMA OneLessToIndex ==
  ASSUME IInv, NEW r \in Run, At(r, "children"), NEW v \in run[r].toIndex,
         NEW m, m = [run[r] EXCEPT !.toIndex = @ \ {v}]
  PROVE  /\ m \in Local
         /\ LocalInv(m, Source[r], rows, searchable)
         /\ v \in searchable
         /\ \A w : PendingIn(run[r], w) => PendingIn(m, w) \/ w = v
  <1> DEFINE l == run[r]
  <1>1. /\ l \in Local /\ ReadInv(l, rows) /\ FetchedInv(l, searchable)
        /\ Source[r] = "metadata" => ProbedInv(l, rows, searchable)
        /\ l.pc = "children"
    BY RunFacts DEF At
  <1>2. m \in Local
    BY <1>1 DEF Local
  <1>3. /\ m.pc = "children" /\ m.existing = l.existing /\ m.before = l.before
        /\ m.fetched = l.fetched /\ m.toIndex = l.toIndex \ {v}
        /\ m.newVersions = l.newVersions
    BY <1>1 DEF Local
  <1>4. ReadInv(m, rows)
    BY <1>1, <1>3 DEF ReadInv
  <1>5. FetchedInv(m, searchable)
    BY <1>1, <1>3 DEF FetchedInv
  <1>6. Source[r] = "metadata" => ProbedInv(m, rows, searchable)
    BY <1>1, <1>3 DEF ProbedInv
  <1>7. v \in searchable
    BY <1>1 DEF FetchedInv
  <1>8. \A w : PendingIn(l, w) => PendingIn(m, w) \/ w = v
    BY <1>1, <1>3 DEF PendingIn
  <1> QED BY <1>2, <1>4, <1>5, <1>6, <1>7, <1>8 DEF LocalInv

LEMMA IndexVersionIInv == ASSUME IInv, NEW r \in Run, IndexVersion(r) PROVE IInv'
  <1>1. PICK v \in run[r].toIndex :
          /\ indexed' = IF HasAssets(v) THEN indexed \cup {v} ELSE indexed
          /\ Move(r, [run[r] EXCEPT !.toIndex = @ \ {v}])
    BY DEF IndexVersion
  <1>2. /\ At(r, "children")
        /\ UNCHANGED <<listed, searchable, rows, ordered, faults>>
    BY DEF IndexVersion, upstream
  <1> DEFINE m == [run[r] EXCEPT !.toIndex = @ \ {v}]
  <1>3. /\ m \in Local /\ LocalInv(m, Source[r], rows, searchable)
        /\ v \in searchable
        /\ \A w : PendingIn(run[r], w) => PendingIn(m, w) \/ w = v
    BY <1>2, OneLessToIndex
  <1>4. Move(r, m)
    BY <1>1
  <1> HIDE DEF m
  <1>5. /\ rows' \in SUBSET Version /\ rows \subseteq rows'
        /\ searchable \subseteq searchable'
        /\ LocalInv(m, Source[r], rows', searchable')
    BY <1>2, <1>3, RunFacts
  <1>6. \A s \in Run : LocalInv(run'[s], Source[s], rows', searchable')
    BY <1>3, <1>4, <1>5, MoveKeepsLocalInv
  <1>7. /\ indexed \subseteq indexed' /\ indexed' \in SUBSET Version
        /\ v \notin Denied => v \in indexed'
    BY <1>1, <1>3, RunFacts DEF HasAssets, IInv, TypeOK
  <1>8. RowsAreIndexed'
    BY <1>2, <1>3, <1>4, <1>7, MoveKeepsRowsIndexed
  <1>9. run' \in [Run -> Local]
    BY <1>3, <1>4, MoveRun DEF IInv, TypeOK
  <1>10. TypeOK'
    BY <1>2, <1>7, <1>9 DEF IInv, TypeOK
  <1> QED BY <1>6, <1>8, <1>10 DEF IInv

LEMMA OrderVersionsIInv == ASSUME IInv, NEW r \in Run, OrderVersions(r) PROVE IInv'
  <1> DEFINE l == run[r]
             m == [l EXCEPT !.unordered = FALSE]
  <1>1. /\ Move(r, m) /\ ordered' = rows
        /\ UNCHANGED <<listed, searchable, rows, indexed, faults>>
    BY DEF OrderVersions, upstream
  <1>2. /\ l \in Local /\ LocalInv(l, Source[r], rows, searchable)
        /\ rows \in SUBSET Version
    BY RunFacts
  <1>3. m \in Local
    BY <1>2 DEF Local
  <1>4. /\ m.pc = l.pc /\ m.existing = l.existing /\ m.before = l.before
        /\ m.fetched = l.fetched /\ m.toIndex = l.toIndex
        /\ m.newVersions = l.newVersions /\ m.offset = l.offset
    BY <1>2 DEF Local
  <1> HIDE DEF m
  <1>5. LocalInv(m, Source[r], rows, searchable)
    BY <1>2, <1>4 DEF LocalInv, ReadInv, FetchedInv, ProbedInv
  <1>6. LocalInv(m, Source[r], rows', searchable')
    BY <1>1, <1>5
  <1>7. \A s \in Run : LocalInv(run'[s], Source[s], rows', searchable')
    BY <1>1, <1>2, <1>3, <1>6, MoveKeepsLocalInv
  <1>8. \A v : PendingIn(l, v) => PendingIn(m, v)
    BY <1>4 DEF PendingIn
  <1>9. RowsAreIndexed'
    BY <1>1, <1>3, <1>8, MoveKeepsRowsIndexed
  <1>10. run' \in [Run -> Local]
    BY <1>1, <1>3, MoveRun DEF IInv, TypeOK
  <1>11. TypeOK'
    BY <1>1, <1>10 DEF IInv, TypeOK
  <1> QED BY <1>7, <1>9, <1>11 DEF IInv

LEMMA FinishIInv == ASSUME IInv, NEW r \in Run, Finish(r) PROVE IInv'
  <1>1. \A v : ~PendingIn(run[r], v)
    BY DEF PendingIn, Finish, At
  <1> QED BY <1>1, EndRunIInv DEF Finish

LEMMA AttemptFailsIInv == ASSUME IInv, NEW r \in Run, AttemptFails(r) PROVE IInv'
  <1>1. Fault /\ UNCHANGED <<upstream, database>>
    BY DEF AttemptFails
  <1>2. /\ run[r] \in Local /\ FetchedInv(run[r], searchable)
        /\ ReadInv(run[r], rows)
        /\ Source[r] = "metadata" => ProbedInv(run[r], rows, searchable)
    BY RunFacts
  <1>3. CASE EndRun(r)
    BY <1>1, <1>3, IdleFacts, FaultMove DEF EndRun
  <1>4. CASE /\ run[r].attempt < MaxAttempts
             /\ Move(r, [Idle EXCEPT !.pc = "fetch", !.attempt = run[r].attempt + 1])
    <2> DEFINE a == run[r].attempt + 1
               m == [Idle EXCEPT !.pc = "fetch", !.attempt = a]
    <2>1. a \in 1..MaxAttempts
      BY <1>2, <1>4, SyncAssumption DEF Local
    <2>2. Move(r, m)
      BY <1>4
    <2> HIDE DEF a
    <2>3. m \in Local
      BY <2>1, IdleFacts DEF Local, Step
    <2>4. LocalInv(m, Source[r], rows, searchable)
      BY DEF Idle, LocalInv, ReadInv, FetchedInv, ProbedInv
    <2> HIDE DEF m
    <2> QED BY <1>1, <2>2, <2>3, <2>4, FaultMove
  <1>5. CASE /\ run[r].attempt < MaxAttempts
             /\ run[r].pc \in {"storing", "insert", "reply"}
             /\ Move(r, AtFirstPage([Idle EXCEPT !.fetched = run[r].fetched,
                                                 !.attempt = run[r].attempt + 1],
                                    "storing"))
    <2> DEFINE a == run[r].attempt + 1
               l == [Idle EXCEPT !.fetched = run[r].fetched, !.attempt = a]
               m == AtFirstPage(l, "storing")
    <2>1. a \in 1..MaxAttempts
      BY <1>2, <1>5, SyncAssumption DEF Local
    <2>2. Move(r, m)
      BY <1>5
    <2> HIDE DEF a
    <2>3. /\ l \in Local /\ l.newVersions = {} /\ l.toIndex = {}
          /\ l.fetched = run[r].fetched
      BY <1>2, <2>1, IdleFacts DEF Local, Idle
    <2>4. /\ run[r].fetched \subseteq searchable
          /\ Source[r] = "metadata" =>
               run[r].fetched \subseteq rows \cup (searchable \ Denied)
      BY <1>2, <1>5 DEF FetchedInv, ProbedInv, ReadInv
    <2> HIDE DEF l
    <2>5. m \in Local /\ LocalInv(m, Source[r], rows, searchable)
      BY <2>3, <2>4, RunFacts, FirstPage
    <2> HIDE DEF m
    <2> QED BY <1>1, <2>2, <2>5, FaultMove
  <1> QED BY <1>3, <1>4, <1>5 DEF AttemptFails

LEMMA IndexFailsIInv == ASSUME IInv, NEW r \in Run, IndexFails(r) PROVE IInv'
  <1>1. /\ At(r, "children") /\ Fault /\ UNCHANGED <<upstream, database>>
    BY DEF IndexFails
  <1>2. PICK v \in run[r].toIndex : Move(r, [run[r] EXCEPT !.toIndex = @ \ {v}])
    BY DEF IndexFails
  <1> DEFINE m == [run[r] EXCEPT !.toIndex = @ \ {v}]
  <1>3. m \in Local /\ LocalInv(m, Source[r], rows, searchable)
    BY <1>1, OneLessToIndex
  <1>4. Move(r, m)
    BY <1>2
  <1> HIDE DEF m
  <1> QED BY <1>1, <1>3, <1>4, FaultMove

LEMMA TimeOutIInv == ASSUME IInv, NEW r \in Run, TimeOut(r) PROVE IInv'
  BY IdleFacts, FaultMove DEF TimeOut, EndRun

-----------------------------------------------------------------------------
(* The theorems. *)

LEMMA InitIInv == Init => IInv
  <1> SUFFICES ASSUME Init PROVE IInv
    OBVIOUS
  <1>1. \A r \in Run : run[r] = Idle
    BY DEF Init
  <1>2. TypeOK
    BY IdleFacts, SyncAssumption DEF Init, TypeOK
  <1>3. \A r \in Run : LocalInv(run[r], Source[r], rows, searchable)
    BY <1>1, IdleFacts
  <1>4. RowsAreIndexed
    BY DEF Init, RowsAreIndexed
  <1> QED BY <1>2, <1>3, <1>4 DEF IInv

LEMMA NextIInv == IInv /\ [Next]_vars => IInv'
  <1> SUFFICES ASSUME IInv, [Next]_vars PROVE IInv'
    OBVIOUS
  <1>1. CASE UNCHANGED vars
    BY <1>1 DEF vars, IInv, TypeOK, RowsAreIndexed, Pending
  <1>2. ASSUME NEW v \in Version, Publish(v) \/ IndexUpstream(v) PROVE IInv'
    BY <1>2, PublishIInv, IndexUpstreamIInv
  <1>3. ASSUME NEW r \in Run, Progress(r) PROVE IInv'
    <2>1. CASE Fire(r)
      BY <2>1, FireIInv
    <2>2. CASE Fetch(r)
      BY <2>2, FetchSearchIInv, FetchMetadataIInv, ReadPageIInv, DeferIInv,
         BeginProbingIInv, ProbeIInv, EndProbingIInv DEF Fetch
    <2>3. CASE Store(r)
      BY <2>3, FilterIInv, InsertIInv, StoredIInv DEF Store
    <2>4. CASE Children(r)
      BY <2>4, IndexVersionIInv, OrderVersionsIInv, FinishIInv DEF Children
    <2> QED BY <1>3, <2>1, <2>2, <2>3, <2>4 DEF Progress, Work
  <1>4. ASSUME NEW r \in Run, AttemptFails(r) \/ IndexFails(r) \/ TimeOut(r)
        PROVE  IInv'
    BY <1>4, AttemptFailsIInv, IndexFailsIInv, TimeOutIInv
  <1> QED BY <1>1, <1>2, <1>3, <1>4 DEF Next

\* The conjunction that is preserved by every step.
THEOREM Invariance == Spec => []IInv
  BY InitIInv, NextIInv, PTL DEF Spec

\* Only what the search could return is ever stored, and only rows are
\* ordered: the variables stay in range.
THEOREM TypeCorrect == Spec => []TypeOK
  <1>1. IInv => TypeOK
    BY DEF IInv
  <1> QED BY <1>1, Invariance, PTL

\* The paged read of StoreNewVersions misses no row that was there when it
\* began, however many runs insert while it pages.
THEOREM NewVersionsWereNotThere == Spec => []NewWasNotThere
  <1>1. IInv => NewWasNotThere
    BY DEF IInv, NewWasNotThere, LocalInv, FetchedInv
  <1> QED BY <1>1, Invariance, PTL

\* A metadata run inserts nothing but versions with assets.
THEOREM MetadataIsGhostFree == Spec => []MetadataAddsNoGhost
  <1>1. IInv => MetadataAddsNoGhost
    BY DEF IInv, MetadataAddsNoGhost, LocalInv, ProbedInv, HasAssets
  <1> QED BY <1>1, Invariance, PTL

\* Without a fault, every row is indexed or about to be.
THEOREM NoRowLeftBehind == Spec => []RowsAreIndexed
  <1>1. IInv => RowsAreIndexed
    BY DEF IInv
  <1> QED BY <1>1, Invariance, PTL

\* No step takes a sort_order away.
THEOREM OrderIsKept == Spec => OrderKept
  <1>1. IInv /\ [Next]_vars => ordered \subseteq ordered'
    BY DEF IInv, TypeOK, Next, vars, database, upstream, Publish, IndexUpstream,
       Progress, Work, Fire, Fetch, FetchSearch, FetchMetadata, ReadPage, Defer,
       BeginProbing, Probe, EndProbing, Store, Filter, Insert, Stored, Children,
       IndexVersion, OrderVersions, Finish, AttemptFails, IndexFails, TimeOut
  <1> QED BY <1>1, Invariance, PTL DEF Spec, OrderKept
=============================================================================
