---------------------------- MODULE VersionSync ----------------------------
(***************************************************************************)
(* Discovery of versions.  Several runs of VersionSyncWorkflow for one     *)
(* artifact overlap: the fast schedule's reads maven-metadata.xml and      *)
(* probes what the database does not know, the full schedule's pages       *)
(* through the component search, and an operator's may force a reindex.    *)
(* Nothing serialises them but the unique key of artifact_versions.        *)
(*                                                                         *)
(* Versions are numbered in the order of their version strings, which is   *)
(* the order the paged read of existing versions relies on.  The batches   *)
(* a run starts are models of their own (SlidingWindow); here indexing     *)
(* one version is one step.                                                *)
(***************************************************************************)
EXTENDS Naturals, FiniteSets

CONSTANTS N,             \* versions that may ever be published
          Denied,        \* versions whose assets are all in a denied repository
          Run,           \* one element per schedule, or operator
          Source,        \* "metadata" or "search", for each element of Run
          ForceReindex,  \* whether its runs index every fetched version
          PageSize,      \* versionPageSize (100 in the code)
          ProbeCap,      \* metadataInitialSeedProbeCap (50 in the code)
          MaxAttempts,   \* attempts of an activity (3 in the code)
          MaxFaults      \* bound on failures, lost results and timeouts

Version == 1..N

ASSUME SyncAssumption ==
    /\ N \in Nat
    /\ Denied \subseteq Version
    /\ Source \in [Run -> {"metadata", "search"}]
    /\ ForceReindex \in [Run -> BOOLEAN]
    /\ PageSize \in Nat \ {0}
    /\ ProbeCap \in Nat
    /\ MaxAttempts \in Nat \ {0}
    /\ MaxFaults \in Nat

VARIABLES listed,      \* versions in maven-metadata.xml
          searchable,  \* versions the component search returns
          rows,        \* versions with a row in artifact_versions
          ordered,     \* rows whose sort_order has been written
          indexed,     \* versions whose assets have been stored
          run,         \* local state of each schedule's current run
          faults       \* failures so far

vars == <<listed, searchable, rows, ordered, indexed, run, faults>>

\* known and storing are the two paged reads; before is history: the rows that
\* were there when the read began.
Step == {"idle", "fetch", "known", "probe", "storing", "insert", "reply",
         "children"}

Local == [pc: Step, fetched: SUBSET Version, existing: SUBSET Version,
          offset: Nat, toProbe: SUBSET Version, newVersions: SUBSET Version,
          toIndex: SUBSET Version, unordered: BOOLEAN, attempt: 1..MaxAttempts,
          before: SUBSET Version]

Idle == [pc |-> "idle", fetched |-> {}, existing |-> {}, offset |-> 0,
         toProbe |-> {}, newVersions |-> {}, toIndex |-> {},
         unordered |-> FALSE, attempt |-> 1, before |-> {}]

Init == /\ listed = {}
        /\ searchable = {}
        /\ rows = {}
        /\ ordered = {}
        /\ indexed = {}
        /\ run = [r \in Run |-> Idle]
        /\ faults = 0

Move(r, l) == run' = [run EXCEPT ![r] = l]

At(r, step) == run[r].pc = step

upstream == <<listed, searchable>>
database == <<rows, ordered, indexed>>

\* The run ends, with an output or an error.
EndRun(r) == Move(r, Idle)

-----------------------------------------------------------------------------
(* Upstream: a version is listed before its assets are searchable. *)

Publish(v) == /\ v \notin listed
              /\ listed' = listed \cup {v}
              /\ UNCHANGED <<searchable, database, run, faults>>

IndexUpstream(v) == /\ v \in listed \ searchable
                    /\ searchable' = searchable \cup {v}
                    /\ UNCHANGED <<listed, database, run, faults>>

\* SearchAssets returns something for v: its assets are searchable and not
\* all in a denied repository.
HasAssets(v) == v \in searchable \ Denied

-----------------------------------------------------------------------------
(* The paged read of existing versions, ORDER BY version LIMIT ... OFFSET,  *)
(* one query per page: rows may be inserted between two pages.              *)

RankIn(S, v) == Cardinality({w \in S : w <= v})

Rank(v) == RankIn(rows, v)

Page(offset) == {v \in rows : offset < Rank(v) /\ Rank(v) <= offset + PageSize}

\* Mutant: a page counts as the last one when it has at most PageSize rows,
\* which every page has.
ShortPage_NotStrict(offset) == TRUE

\* The page at this offset is not full: the read ends with it.
ShortPage(offset) == Cardinality(rows) < offset + PageSize

AfterPage(l) == [l EXCEPT !.existing = @ \cup Page(l.offset),
                          !.offset = @ + PageSize]

AtFirstPage(l, step) == [l EXCEPT !.pc = step, !.existing = {}, !.offset = 0,
                                  !.before = rows]

\* A page that is full: read it and go on.
ReadPage(r) == /\ run[r].pc \in {"known", "storing"}
               /\ ~ShortPage(run[r].offset)
               /\ Move(r, AfterPage(run[r]))
               /\ UNCHANGED <<upstream, database, faults>>

\* All of the existing versions, once the last page is there.
Known(r) == run[r].existing \cup Page(run[r].offset)

LastPageAt(r, step) == At(r, step) /\ ShortPage(run[r].offset)

-----------------------------------------------------------------------------
(* A run: FetchVersions, StoreNewVersions, then its children. *)

\* A schedule fires.  Each skips or buffers a tick while its own run goes on.
Fire(r) == /\ At(r, "idle")
           /\ Move(r, [Idle EXCEPT !.pc = "fetch"])
           /\ UNCHANGED <<upstream, database, faults>>

\* Mutant: the search, too, leaves an empty database to someone else.
FetchSearch_Defers(r) ==
    /\ At(r, "fetch")
    /\ Source[r] = "search"
    /\ \/ rows = {} /\ EndRun(r)
       \/ /\ rows # {}
          /\ Move(r, AtFirstPage([Idle EXCEPT !.fetched = searchable], "storing"))
    /\ UNCHANGED <<upstream, database, faults>>

\* fetchVersionsSearch.
FetchSearch(r) ==
    /\ At(r, "fetch")
    /\ Source[r] = "search"
    /\ \/ searchable = {} /\ EndRun(r)
       \/ /\ searchable # {}
          /\ Move(r, AtFirstPage([Idle EXCEPT !.fetched = searchable], "storing"))
    /\ UNCHANGED <<upstream, database, faults>>

\* fetchVersionsMetadata: the candidates are what maven-metadata.xml lists.
FetchMetadata(r) ==
    /\ At(r, "fetch")
    /\ Source[r] = "metadata"
    /\ \/ listed = {} /\ EndRun(r)
       \/ /\ listed # {}
          /\ Move(r, AtFirstPage([run[r] EXCEPT !.fetched = listed], "known"))
    /\ UNCHANGED <<upstream, database, faults>>

Unknown(r) == run[r].fetched \ Known(r)

\* An empty database or too many unknown candidates: leave them to the full
\* schedule.
Defer(r) == /\ LastPageAt(r, "known")
            /\ \/ Known(r) = {}
               \/ Cardinality(Unknown(r)) > ProbeCap
            /\ EndRun(r)
            /\ UNCHANGED <<upstream, database, faults>>

\* Known candidates pass through, unknown ones are to be probed.
BeginProbing(r) ==
    /\ LastPageAt(r, "known")
    /\ Known(r) # {}
    /\ Cardinality(Unknown(r)) <= ProbeCap
    /\ Move(r, [run[r] EXCEPT !.pc = "probe",
                              !.fetched = @ \cap Known(r),
                              !.toProbe = Unknown(r),
                              !.existing = {},
                              !.offset = 0])
    /\ UNCHANGED <<upstream, database, faults>>

\* Mutant: a version without assets is accepted as well.
Probe_AcceptAll(r) ==
    /\ At(r, "probe")
    /\ \E v \in run[r].toProbe :
         Move(r, [run[r] EXCEPT !.toProbe = @ \ {v}, !.fetched = @ \cup {v}])
    /\ UNCHANGED <<upstream, database, faults>>

\* VersionHasAssets for one unknown candidate.
Probe(r) ==
    /\ At(r, "probe")
    /\ \E v \in run[r].toProbe :
         Move(r, [run[r] EXCEPT
                    !.toProbe = @ \ {v},
                    !.fetched = IF HasAssets(v) THEN @ \cup {v} ELSE @])
    /\ UNCHANGED <<upstream, database, faults>>

\* FetchVersions returns; the workflow ends when it returned nothing.
EndProbing(r) ==
    /\ At(r, "probe")
    /\ run[r].toProbe = {}
    /\ \/ run[r].fetched = {} /\ EndRun(r)
       \/ /\ run[r].fetched # {}
          /\ Move(r, AtFirstPage([run[r] EXCEPT !.attempt = 1], "storing"))
    /\ UNCHANGED <<upstream, database, faults>>

\* StoreNewVersions has read every page: keep what it did not see.
Filter(r) ==
    /\ LastPageAt(r, "storing")
    /\ Move(r, [run[r] EXCEPT
                  !.pc = IF Unknown(r) = {} THEN "reply" ELSE "insert",
                  !.newVersions = Unknown(r),
                  !.existing = {},
                  !.offset = 0])
    /\ UNCHANGED <<upstream, database, faults>>

\* Mutant: the full upsert, which writes sort_order as well.
Insert_Upsert(r) ==
    /\ At(r, "insert")
    /\ rows' = rows \cup run[r].newVersions
    /\ ordered' = ordered \ run[r].newVersions
    /\ Move(r, [run[r] EXCEPT !.pc = "reply"])
    /\ UNCHANGED <<upstream, indexed, faults>>

\* Mutant: the existing rows are read after the insert, so nothing is new.
Insert_BeforeFilter(r) ==
    /\ At(r, "insert")
    /\ rows' = rows \cup run[r].newVersions
    /\ Move(r, [run[r] EXCEPT !.pc = "reply", !.newVersions = {}])
    /\ UNCHANGED <<upstream, ordered, indexed, faults>>

\* The transaction: one INSERT ... ON CONFLICT DO NOTHING per new version.
Insert(r) ==
    /\ At(r, "insert")
    /\ rows' = rows \cup run[r].newVersions
    /\ Move(r, [run[r] EXCEPT !.pc = "reply"])
    /\ UNCHANGED <<upstream, ordered, indexed, faults>>

\* The workflow receives newVersions and starts the index batch and the
\* ordering.
Stored(r) ==
    /\ At(r, "reply")
    /\ Move(r, [run[r] EXCEPT
                  !.pc = "children",
                  !.toIndex = IF ForceReindex[r] THEN run[r].fetched
                                                 ELSE run[r].newVersions,
                  !.unordered = TRUE])
    /\ UNCHANGED <<upstream, database, faults>>

\* A child of the index batch: it stores the assets it finds and returns
\* without an error when there are none.
IndexVersion(r) ==
    /\ At(r, "children")
    /\ \E v \in run[r].toIndex :
         /\ indexed' = IF HasAssets(v) THEN indexed \cup {v} ELSE indexed
         /\ Move(r, [run[r] EXCEPT !.toIndex = @ \ {v}])
    /\ UNCHANGED <<upstream, rows, ordered, faults>>

\* The ordering child, in parallel with the index batch, numbers every row.
OrderVersions(r) ==
    /\ At(r, "children")
    /\ run[r].unordered
    /\ ordered' = rows
    /\ Move(r, [run[r] EXCEPT !.unordered = FALSE])
    /\ UNCHANGED <<upstream, rows, indexed, faults>>

Finish(r) == /\ At(r, "children")
             /\ run[r].toIndex = {}
             /\ ~run[r].unordered
             /\ EndRun(r)
             /\ UNCHANGED <<upstream, database, faults>>

-----------------------------------------------------------------------------
(* Failures, at most MaxFaults of them. *)

Fault == /\ faults < MaxFaults
         /\ faults' = faults + 1

\* An attempt of an activity fails, times out, or its result is lost (at
\* "reply" its transaction has committed): the server schedules another one
\* from the activity's beginning, or fails the run when attempts are used up.
AttemptFails(r) ==
    /\ run[r].pc \in Step \ {"idle", "children"}
    /\ Fault
    /\ \/ /\ run[r].attempt = MaxAttempts
          /\ EndRun(r)
       \/ /\ run[r].attempt < MaxAttempts
          /\ run[r].pc \in {"fetch", "known", "probe"}
          /\ Move(r, [Idle EXCEPT !.pc = "fetch", !.attempt = run[r].attempt + 1])
       \/ /\ run[r].attempt < MaxAttempts
          /\ run[r].pc \in {"storing", "insert", "reply"}
          /\ Move(r, AtFirstPage([Idle EXCEPT !.fetched = run[r].fetched,
                                              !.attempt = run[r].attempt + 1],
                                 "storing"))
    /\ UNCHANGED <<upstream, database>>

\* Every attempt of a version's index child fails; the batch goes on.
IndexFails(r) ==
    /\ At(r, "children")
    /\ Fault
    /\ \E v \in run[r].toIndex : Move(r, [run[r] EXCEPT !.toIndex = @ \ {v}])
    /\ UNCHANGED <<upstream, database>>

\* The run's execution timeout takes its children with it.  (Index children
\* already started are abandoned and may still finish: that is the trace in
\* which they finish first.)
TimeOut(r) == /\ ~At(r, "idle")
              /\ Fault
              /\ EndRun(r)
              /\ UNCHANGED <<upstream, database>>

-----------------------------------------------------------------------------

Fetch(r) == \/ FetchSearch(r) \/ FetchMetadata(r) \/ ReadPage(r) \/ Defer(r)
            \/ BeginProbing(r) \/ Probe(r) \/ EndProbing(r)

Store(r) == Filter(r) \/ Insert(r) \/ Stored(r)

Children(r) == IndexVersion(r) \/ OrderVersions(r) \/ Finish(r)

Work(r) == Fetch(r) \/ Store(r) \/ Children(r)

Progress(r) == Fire(r) \/ Work(r)

Next == \/ \E v \in Version : Publish(v) \/ IndexUpstream(v)
        \/ \E r \in Run :
             Progress(r) \/ AttemptFails(r) \/ IndexFails(r) \/ TimeOut(r)

Spec == Init /\ [][Next]_vars

\* A schedule keeps firing, an operator need not; what has started is worked
\* on; faults are finite.
FairSpec == Spec /\ \A r \in Run : /\ WF_vars(Work(r))
                                   /\ ~ForceReindex[r] => WF_vars(Fire(r))

-----------------------------------------------------------------------------
(* Properties. *)

\* The variables stay in range; only what the search could return is stored,
\* whichever path found it, and only rows are ordered.
TypeOK ==
    /\ listed \in SUBSET Version
    /\ searchable \in SUBSET listed
    /\ rows \in SUBSET searchable
    /\ ordered \in SUBSET rows
    /\ indexed \in SUBSET Version
    /\ run \in [Run -> Local]
    /\ faults \in 0..MaxFaults

\* The paged read misses nothing that was there when it began, however many
\* rows other runs insert between its pages: StoreNewVersions never reports
\* such a version as new, so it is not indexed again.
NewWasNotThere ==
    \A r \in Run : run[r].newVersions \cap run[r].before = {}

\* The metadata path never creates a ghost row: what a metadata run is about
\* to insert has assets, although what it fetched holds unprobed versions and
\* the two activities read the table at different times.
MetadataAddsNoGhost ==
    \A r \in Run : Source[r] = "metadata" =>
        \A v \in run[r].newVersions : HasAssets(v)

\* Overlapping runs do not clobber each other: no step of any run takes away
\* a sort_order that another run's ordering has written.
OrderKept == [][ordered \subseteq ordered']_vars

\* A run with local state l is going to index v.
PendingIn(l, v) == \/ l.pc = "reply" /\ v \in l.newVersions
                   \/ l.pc = "children" /\ v \in l.toIndex

Pending(v) == \E r \in Run : PendingIn(run[r], v)

\* As long as nothing fails, no row is left behind: whichever of the
\* overlapping runs inserted it, one of them still indexes it.  Only a fault
\* (a lost result, a failed child, a timeout) leaves a row no run will index.
RowsAreIndexed ==
    \A v \in rows \ Denied : v \in indexed \/ Pending(v) \/ faults > 0

\* What the search returns is stored in the end, faults and deferrals of the
\* fast schedule notwithstanding, as long as the full schedule goes on.
Discovered == \A v \in Version : v \in searchable ~> v \in rows

\* What has assets is indexed in the end, unless something fails.
Indexed == \A v \in Version : HasAssets(v) ~> v \in indexed \/ faults > 0

-----------------------------------------------------------------------------
(* The inductive invariant behind the safety properties: what holds of the  *)
(* local state l of a run, with R the rows and S the searchable versions.   *)

\* A read in progress has seen every row that was there when it began, up to
\* the rank it has reached; inserts only push rows to higher ranks.
ReadInv(l, R) ==
    /\ l.before \subseteq R
    /\ l.existing \subseteq R
    /\ l.pc \in {"known", "storing"} =>
         \A v \in l.before : RankIn(R, v) <= l.offset => v \in l.existing

\* What a run has fetched is searchable, and what it calls new is part of it.
FetchedInv(l, S) ==
    /\ l.pc \in {"probe", "storing", "insert", "reply", "children"} =>
         l.fetched \subseteq S
    /\ l.newVersions \subseteq l.fetched
    /\ l.toIndex \subseteq l.fetched
    /\ l.pc \notin {"insert", "reply", "children"} => l.newVersions = {}
    /\ l.pc # "children" => l.toIndex = {}
    /\ l.newVersions \cap l.before = {}

\* What a metadata run has fetched was stored already or has assets.
ProbedInv(l, R, S) ==
    /\ l.pc = "probe" => l.fetched \subseteq R \cup (S \ Denied)
    /\ l.pc \in {"storing", "insert", "reply"} =>
         l.fetched \subseteq l.before \cup (S \ Denied)
    /\ l.newVersions \subseteq S \ Denied

LocalInv(l, source, R, S) ==
    /\ ReadInv(l, R)
    /\ FetchedInv(l, S)
    /\ source = "metadata" => ProbedInv(l, R, S)

IInv == /\ TypeOK
        /\ \A r \in Run : LocalInv(run[r], Source[r], rows, searchable)
        /\ RowsAreIndexed
=============================================================================
