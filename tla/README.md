# SystemOfADownload: a TLA+ model of the artifact indexer

SystemOfADownload discovers the published versions of Maven artifacts in a
Sonatype Nexus, stores them in PostgreSQL, orders them, reads the git commit
out of their jars, computes changelogs from git and serves the result over
HTTP. The work is done by Temporal workflows; this directory holds TLA+ models
of them, the TLC configurations that check the models on small instances, and
theorems proved with TLAPS.

## 1. Inventory

### Components, their state and operations

| Component | State | Operations |
|---|---|---|
| Version sync (`internal/workflow/version_sync.go`, `internal/activity/version_sync.go`) | rows of `artifact_versions`; local results of a run | fired by two schedules per artifact (2 min metadata, 1 h search) or an operator: `FetchVersions`, `StoreNewVersions`, then index batch and ordering in parallel, then commit enrichment |
| Sliding-window batches (`version_batch_index.go`, `enrichment_batch.go`, `changelog_batch.go`) | the list, `currentRecords`, `childrenStarted`, `offset`, `progress`, the signal channel | start children within a window, receive completion signals, continue as new per page, drain |
| Version indexing (`version_index.go`) | assets, `commit_body` | fetch and store assets, pick a jar, extract the commit, store it |
| Version ordering (`version_ordering.go`, `domain/version_*.go`) | `sort_order`, `recommended`, tags, the schema | compute an order from schema and manifest, apply it in batches, replace tags |
| Commit enrichment (`commit_enrichment.go` and the two batches) | `commit_body` (sha, details, submodules, changelog, `enrichedAt`, `changelogStatus`) | enrich versions, then compute changelogs against the previous version |
| Git cache (`internal/gitcache`) | bare clones on disk, one mutex per URL | clone or fetch, read commits, submodules, logs |
| Registration and API (`internal/app`, `internal/httpapi`) | groups, artifacts, schedules | register, update schema, trigger syncs, list versions |
| Sonatype client (`internal/sonatype`) | none | metadata, component search, asset search with denied repositories |
| Frontend (`internal/frontend`) | none | builds of a page, page links |

A run of `VersionSyncWorkflow` is one parent workflow. It calls two activities
(fetch, store), then starts the index batch and the ordering as children side by
side and, when both have returned, commit enrichment, which is two batches one
after the other. A batch starts one child workflow per version and hears of its
end from a signal. Components share state only through PostgreSQL, where each
statement or `WithTx` block is a READ COMMITTED transaction, and the git cache
through a directory of the worker. Nothing serialises two runs for one artifact:
the two schedules overlap, operators start runs of their own, children are
started with `PARENT_CLOSE_POLICY_ABANDON` and outlive their batch. API requests
overlap each other and all of this; `PutArtifactSchema` starts an ordering of its
own.

### What is hard

* signals that cross continue-as-new and page boundaries, children that signal
  and are then retried, windows that must not leak slots;
* overlapping runs that read, decide and write at different times;
* activities whose transaction commits and whose result is lost; transactions
  that go on after their workflow was terminated or their attempt timed out;
* a `commit_body` that several stages overwrite wholesale;
* deferrals that rely on another schedule to do the work later;
* waits that nothing wakes, and children that can never end;
* a directory that one process writes under a lock and others read without one,
  and that a killed process leaves half made;
* checks and upserts that are two statements;
* comparisons, walks and pages that are right on the inputs a test thinks of.

### What makes each component correct

| Component | Correct when |
|---|---|
| Batches | every listed version is handed out once, the window holds, no completion is lost, the batch returns with the right count |
| Version sync | everything the search returns is stored, everything with assets is indexed, the metadata path stores no version without assets, no run undoes another's work |
| Commit record | every version with a sha is enriched and gets a changelog or a mark; runs end, unless an operator's own waits for a child that panics |
| Ordering | a run that was alone leaves exact ranks, flags and tags; whatever overlapped or failed, the syncs that follow converge to what the current schema says; no reader sees a version go bare |
| Comparison | a strict weak order on the versions an artifact has, but for those it compares by rules of two kinds (section 5) |
| Git cache | what was cloned stays, a commit that is there is found by a lookup that is repeated, and the first repository that has it is recorded; every lookup ends |
| Changelogs | exactly what one commit reaches and the other does not, from what the previous version had |
| Registry | an artifact is registered once, keeps its schema and has its schedules |
| Listing | pages followed one by one show every version once; a page is within its total, but for the rows that left the filter meanwhile; the page bar reaches every page |

`PROJECT.json` lists the hazards by source line.

## 2. Modules

| Module | Models | State and actions |
|---|---|---|
| `SlidingWindow` | the algorithm of the three batch workflows, their children and the server | the fields of `versionBatchState`, the signal channel, a state and an attempt count per child; `StartChild` is one pass of the page loop, `PumpReceive` and `DrainCompletionSignals` take signals, `ContinueAsNew`, `Complete` and `Terminate` end a run; `ServerStart`, `ChildSucceeds`, `ChildFails`, `RetryChild` are the children. `Handover` says how the rest of the list reaches the next run: by a slice (index batch) or an offset (the other two) |
| `BatchPromise` | what a batch promises its caller | how far the list is handed out, how many are out, how many reported |
| `VersionSync` | overlapping runs of `VersionSyncWorkflow` over one artifact | what upstream lists and can search, the rows, their order and assets, the locals of each run; one action per activity step or child: `FetchSearch`, `FetchMetadata`, `Defer`, `Probe`, `ReadPage` (one page of the paged read), `Filter`, `Insert` (one transaction), `Stored`, `IndexVersion`, `OrderVersions`, `Finish`, and `AttemptFails`, `IndexFails`, `TimeOut` |
| `CommitRecord` | the life of `commit_body` through indexing, enrichment and changelogs | the record of each version, the stage of each run, the state of each child; `Start`, `StartEnrichment`, `StartChangelogs`, `ForceChangelog`, `Finish`, `TimeOut` for the run, `IndexVersion` and `EnrichVersion` (one blind write each), `ReadPrevious`, `Poll`, `Reread`, `Merge`, `StoreChangelog`, `MarkPending` for a changelog child, and the failures of each |
| `VersionOrdering` | `VersionOrderingWorkflow` as a child of syncs and as what `PutArtifactSchema` starts | rows with rank, flag and tags, the schema, the edition of Mojang's manifest, the locals of each run, transactions nobody waits for; one action per activity (`FetchVersionSchema`, `FetchMojangManifest`, `ComputeVersionOrdering`, one `ApplyVersionOrdering` and one `BeginTags`/`StoreVersionTags` per batch), `Fire`, `PutSchema`, `StartOrdering` (terminates), `StartFails`, `AttemptFails`, `LateEnds` |
| `GitCache` | `EnsureCloned` and the lookup of a commit by `enrichVersionWork` | what each remote has, how far each clone has got, the objects in it, the mutex of each URL, the locals of each enrichment; `Lock`, `Stat`, `CloneMkdir`, `CloneInit`, `FetchBegin`, `Receive`, `ReadFound`, `ReadMissing`, and `NetworkError`, `Killed`, `LockTimeout`, `ReadFails` |
| `Registry` | the write requests of the API | groups, columns and schema of each artifact, schedules, the request each client waits for; a check and a write per request, `CreateFast` and `CreateFull` after the commit, `Crash` |
| `VersionCompare` | parsing and `CompareVersions` | pure operators; a text is what the regular expressions capture of it |
| `Changelogs` | the walk of `ComputeChangelog`, the choice of the repository, stored submodules and their changelogs | pure operators; a history is a graph with committer times |
| `Listing` | filters, pages and totals of the API and of the downloads page, `buildPageList` | pure operators; a query returns the set of results the rows allow |
| `PureFunctions` | the inputs of the last three: one state per input | |
| `SlidingWindowProofs`, `VersionSyncProofs`, `CommitRecordProofs`, `VersionOrderingProofs`, `GitCacheProofs`, `RegistryProofs`, `VersionCompareProofs`, `PureFunctionsProofs` | theorems | |
| `MC*` | instances for TLC | |

How they fit together. `SlidingWindow` says how a batch and its children behave;
`CommitRecord` uses that result in place of the mechanism: a batch is over when
none of its children is `working`, and a child whose attempt failed has
reported, is no longer waited for, and is `late`. `VersionSync` says which
versions a run stores and indexes; `CommitRecord` takes a run's new versions to
be any set of them, those another run has just stored included, which is what
`VersionSync` shows. `VersionSync` has the ordering child as one step that numbers
every row; `VersionOrdering` opens that step. The "found or not" of
`CommitRecord`'s enrichment is the end of a `GitCache` enrichment. `VersionOrdering`
orders by weights that stand for a total preorder, which `VersionCompare` is shown
to be for versions that are not entangled (section 4).

Abstractions: versions are numbers (their rank in the query's order, or their
sort order); an HTTP answer is a set of versions; a commit is known or not, its
details one flag; times are not modelled, a poll is a step. The versions of
`CommitRecord` are those whose jar holds a commit, the others have no record.
Tags are the schema they were extracted by, since two schemas use different keys.
In `GitCache` a clone is five stages on disk and a set of commits. In `Registry`
each group holds one artifact, whose columns hold the number of the call that
wrote them.

## 3. Runs

| Run | Checks | Instance |
|---|---|---|
| `batches` | type, `WindowRespected`, `ProgressExact`, `NoLostCompletion`, `CompletedAccountsForAll`, `HandedOutOnce`, and that the batch implements `BatchPromise`, its liveness included | 4 versions, pages of 3 (the second one partial), window 2, 2 attempts per child, each handover by slice or by offset |
| `sync_safety` | type, `NewWasNotThere`, `MetadataAddsNoGhost`, `RowsAreIndexed`, `OrderKept` | 2 versions, one with denied assets only; a fast, a full and a forcing operator's run; pages of 1, probe cap 1, 2 attempts, 1 fault: 4.2 M states |
| `sync_live` | `Discovered`, `Indexed` | 3 versions, one denied, fast and full schedule, pages of 2, probe cap 1 (so that a backlog can exceed it), 1 attempt, 1 fault |
| `record_overlap` | type, `Settled`, `CommitKept` | 3 versions, one not found in git, fast and full run, no fault: 0.9 M states |
| `record_forced` | `EventuallyEnriched`, `EventuallyChangelog`, `RunEnds` | 2 versions, one not found, a schedule and a forcing operator, 1 fault |
| `ordering` | type, `Settled`, `Ranked`, `NeverBare`, `Converges` | 3 versions, 2 schemas (one follows the manifest, whose second edition turns the order round), a schedule and one `PutArtifactSchema`, batches of 2, 2 attempts, 1 fault |
| `git_lookup` | type, `NotFoundExplained`, `FirstThatHasIt`, `CommitsStay`, `Recovers`, `Ends` | 2 remotes, one with two URLs, 2 enrichments that try them in opposite orders, 2 attempts, 1 fault |
| `registration` | type, `RegisteredOnce`, `BothSchedules`, `SchemaStays` | 2 spellings of one group, 2 clients, 5 requests, 1 fault |
| `functions` | `OrderIsWeak`, `ChangelogExact`, `PagesComplete`, `TotalNeverShort`, `PageBar` | simple versions with every tail and manifest order; 82 versions of a schema with three variants, one of them between two that are alike, with and without the optional group, and versions no variant matches; histories of 4 commits with 3 times, changelogs of at most 2; 3 versions with two submodules, nested; up to 3 rows with equal and different orders, asked for with `recommended` true, false and not given; 2 rows whose order, flag and tags change, or that are added, between a page and its total; up to 40 builds: 1.7 M inputs |
| `record_pending` | violation: a version marked `pending_predecessor` stays so | 2 versions, two schedules, no fault |
| `record_stuck` | violation: a changelog child panics for ever | 2 versions, one schedule, a failed enrichment and a failed query |
| `submodule_changes` | violation: a submodule that moved has no changelog | as `functions` |

The bounds are the smallest where the interesting cases meet. A list longer than
a page, a partial last page, a window smaller than what is left of the list, and
a retry that signals again are all there with four versions. Two versions are
enough for an insert to shift a page of the paged read while a third run goes on;
three let a run find one row known and two unknown, more than its probe cap.
Three versions give a changelog a predecessor, and a second one that can take its
place. Three versions in batches of two give an ordering a full and a partial
transaction, between which another run, a late transaction or a new edition may
come. Two remotes in opposite orders are what a cycle of locks would need.
`BUFFER_ONE` and `SKIP` keep a schedule from overlapping itself, so the runs that
overlap are those of two schedules and an operator. One fault hits any one step;
two are needed where the retry must fail as well, or by `record_stuck`. The
constants of the code (pages of 50, windows of 10 and 5, 3 attempts, 20 polls,
batches of 500) are only larger. The page bar is checked with the code's window
of 5 up to 20 pages, beyond which both ends are far apart.

`functions` and `submodule_changes` have one state per input and stop there;
`registration` stops at its bound on requests: these say `CHECK_DEADLOCK FALSE`.
In all others schedules fire for ever, enrichments are taken up again, and a batch
that is over stutters in `Quiet`.

### Fairness

* `SlidingWindow`: every step of the batch, of the server and of the children is
  weakly fair. A worker polls its task queue, activities have start-to-close
  timeouts, the retry policy is bounded. Termination by the caller is not fair.
* `VersionSync`: what a run has started is worked on, and a schedule fires again
  (weak fairness). An operator's run need not start. Faults are bounded by
  `MaxFaults` and never fair; upstream publishing is not fair.
* `CommitRecord`: the same for runs and children; moreover a schedule's run that
  waits for a child that cannot end is ended by its execution timeout
  (`versionSyncWorkflowExecutionTimeout`, 30 minutes), which is weakly fair in
  that state alone. The timeout is in the options of the two schedules
  (`handler.go:58`, `:85`, `:114`), and `TriggerSync` (`handler.go:321`) fires these.
  A forced run, which only an operator starts, has none: it waits for ever on a
  child that panics, unless its operator terminates it (a fault), and `RunEnds`
  leaves that state out.
* `VersionOrdering`: the activities of a schedule's run, and its firing again, are
  weakly fair. What `PutArtifactSchema` starts may hang, so may a transaction
  nobody waits for: `Converges` does not need them.
* `GitCache`: the steps of an enrichment are weakly fair; taking a lock is
  strongly fair, because Go's mutex hands over to a waiter that has starved for a
  millisecond. A git process that hangs is killed at its timeout, a fault. That an
  enrichment begins, or is repeated, is not fair: `error_commit_not_found` is stored
  with an `enrichedAt` (`enrichment_batch.go:282`), and
  `ListVersionsNeedingEnrichment` (`query.sql.go:886`) does not return that version
  again. `Recovers` therefore has the repetition as its hypothesis: whoever looks for
  a commit again and again finds it once it is pushed, or meets a directory a kill
  has left behind.

## 4. What is proved

Every invariant and every action property of the runs is a theorem. The proofs
about a component follow one pattern: `Init => IInv`, one lemma per action for
`IInv /\ [Next]_vars => IInv'`, then each property from `IInv`. Each `IInv` was an
invariant of a TLC run on the instance of its component's run before it was
proved, and on larger ones: 5.0 M states of `VersionOrdering` (2 versions, batches
of 1, two `PutArtifactSchema`), 2.4 M of `GitCache` (3 faults), 1.3 M of
`CommitRecord` (3 versions). The pure functions have one state per input, so the
invariant there (`Given`) is only what the inputs are, and all is in the lemmas.

`SlidingWindowProofs`, for every list without repetitions, page size, window,
number of attempts and ways of handing over (`BatchAssumption`):

* `TypeCorrect`, `WindowSafe`, `ProgressSafe`, `NoCompletionLost`,
  `CompletionAccounted`, `HandedOutOnceHolds`;
* `ImplementsPromiseSafely`: every step maps to a step of `BatchPromise` or to a
  stutter.

`IInv` adds to the stated properties that exactly the versions before the
hand-out point have a child, that a version off the record has signalled, that a
child waiting for a retry has an attempt left, and that a completed batch has an
empty record. `NoLostCompletion` is inductive only with the link between record
and children: a completion could otherwise be received for a child that never
ran.

`VersionSyncProofs`, for every number of versions, runs, page size, probe cap,
attempts and faults (`SyncAssumption`), forced runs included:

* `TypeCorrect`: only what the search could return is stored;
* `NewVersionsWereNotThere`: a read by pages with OFFSET misses no row that was
  there when it began. The argument is that rows are only ever inserted, so a row
  moves to higher ranks only: `ReadInv` says every row of rank up to the offset
  that was there at the beginning has been read;
* `MetadataIsGhostFree`: what a metadata run inserts has assets, from `ProbedInv`:
  what it fetched was stored when it was fetched, hence before the second read
  began, or has been probed;
* `NoRowLeftBehind`: without a fault each row is indexed or in some run's hands;
* `OrderIsKept`: the action property that no run takes a `sort_order` away.

`CommitRecordProofs`, for every number of versions, runs, forced runs, polls and
faults (`RecordAssumption`):

* `TypeCorrect`: the second read of the predecessor finds one where the first
  did, and polls are bounded;
* `CommitIsKept`: no write takes a commit away. `StoreChangelog` writes back a
  record it has read, so this rests on `ClogInv`: only versions with a sha are
  handed to enrichment and changelogs, what a child has seen had one, and so had
  the predecessor it found. That a set of versions has a largest one comes from
  the well-foundedness of < on the naturals;
* `NobodyIsForgotten`: `Settled` while no fault has happened. `Smooth` says that
  every version that is owed a changelog (`Owed`) is in the list of an enrichment
  batch or has a changelog child (`InHand`), and that what a child does belongs to
  the stage its run is in (`Orderly`). It speaks of no fault because with one it is
  false: an enrichment attempt that stored its record and lost its result is
  retried, and the retry wipes a changelog computed in between. A forced run and
  overlapping runs are included.

`VersionOrderingProofs`, for every number of versions, runs, schemas and editions,
batch size, attempts and faults (`OrderingAssumption`):

* `TypeCorrect`, `NeverGoesBare`;
* `RowsAreRanked`: without a fault every row has a rank once no ordering child of a
  sync is active. `Covered` says who owes it: a row without a rank is still ahead
  of some sync, which has no plan yet or a plan that ranks it further on;
* `LeavesExactOrder`: what a run leaves when nothing overlapped or failed. This is
  the longest argument. `Alone`: only one run is active. `Reading`: before it has a
  plan nothing is on its way and what it has read is current. `Writing`: afterwards
  one plan numbers the rows from 1 in the order of the current schema, and every
  transaction still on its way, the run up to its position and, when it is over, the
  rows follow that plan. A late transaction of an attempt that timed out need
  not have ended for that: it can only write again what the plan says.

`GitCacheProofs`, for every set of URLs, directories and commits, every list of
repositories, any number of enrichments, attempts and faults (`CacheAssumption`):

* `TypeCorrect`; `LockDiscipline`: the mutex of a URL is held by the enrichment that
  is at work under it and by no other;
* `CommitsAreKept`, and `PoisonIsForGood`: no step repairs a directory that a killed
  clone left behind;
* `NotFoundIsTrue` and `RecordsTheFirst`. `Knows`, `Stage` and `Skips` follow one
  enrichment: what was upstream when it began is in what its clone or fetch sees, and
  then in the clone it reads, if nobody else is in the directory; a repository it
  has done with had not the commit, or cannot be repaired. `Crowds` makes the
  flag of the two properties right: of two that work in one directory each has it.

`VersionCompareProofs` and `PureFunctionsProofs`, for every input:

* `ComparisonIsWeakOrder`. A comparison is a chain of fields of which the first
  that differs decides, so the argument is one about chains (`ChainConsistent`): if
  each field is a weak order then so is the chain. Slices of numbers of different
  lengths are chains padded with zeros. Versions of a schema are harder, since
  `CompareVersions` compares segments only as far as their types agree, and then by
  variant, so three versions do not share a chain. `TextAssumption` only says what
  the types of the code say: any variant may match, or none, and any of its groups
  may be left out. The comparison is then antisymmetric on all versions, and
  transitive on any three that are not `Entangled`. Entangled are three of one place
  in the manifest (0, not listed, included) of which two have segments and

  - the third has no segments and no number but zero: it is compared by its
    qualifier with both, while these are compared by their segments; or
  - the third is tied with one of them in all they share, they share less than the
    two do, and its variant does not lie outside theirs: an optional group is left
    out, or a third variant stands between two of one form.

  With that, of two composite versions and a third either the shared segments decide
  (`LeadingConsistent`), or the variants do (`CompositeConsistent`); and a version
  without segments stands above or below all that have some (`StandsAloof`). On the
  82 versions of the instance 16 440 of 551 368 triples are entangled, and the order
  does fail in each way: for 478 triples with a version without segments, for 320
  with an optional group and for 384 with a variant in between. The schemas of
  `docs/WORKFLOWS.md` and of the tests of `internal/domain` give neither of the last
  two: only qualifier and build are optional there, and variants that begin alike are
  neighbours;
* `ChangelogsAreExact`. A history has any shape and any committer times, as long as
  parents are older in the graph. `Walking` holds after each visited commit: what
  was visited has its parents visited or in the heap, and nothing is there twice. A
  walk that may visit as many commits as there are (`InputsAssumption`; the code
  visits 100 000) ends with an empty heap, so it has visited exactly what is
  reached; the loop of `NotExcluded` keeps of it what the other walk has not. That
  reaching is well defined is shown by the least set that is closed under parents. A
  submodule's stored pointer, when there is one, is the version's own, in whatever
  order versions were enriched;
* `PagesAreComplete`: rows of different orders have exactly one descending
  sequence (`OrderingExists`, `OrderingUnique`), a page starts where the one before
  it ends (`PageJoins`), so the pages put together are that sequence; the tag filter
  that counts and the one with a subquery for each tag choose the same rows
  (`FiltersAgree`);
* `TotalsHold`: ids are unique and no row is deleted, so the rows a query wants are
  no fewer when the total is read than when the page was, but for those it no longer
  wants (`FilteredLost`); without a filter there are none of these (`NothingLost`);
* `PageBarHolds`: for any size of a page and any window of more than 3
  (`ListingAssumption`). Each stage of `buildPageList` keeps a fact about its window:
  it fits into the pages, its dots hide at least two, it is cut at the last page,
  and from that the links are drawn.

Definitions by recursion are met by a function that satisfies their equation,
built step by step (`StepsDefine`) or given outright, and two such functions are
equal by the least argument where they would differ (`LeastIs`).

`RegistryProofs`, for every set of spellings, columns, clients and schemas, and
any number of faults (`RegistryAssumption`):

* `TypeCorrect`, `RegisteredOnceHolds`, `BothSchedulesHold`, `SchemaIsKept`. What
  a request found missing is missing when it writes (`StillMissing`), because
  nobody else is registering it (`Alone`) and nothing is ever removed
  (`CreatedIsThere`, `Belongs`); `FastFirst` orders the two schedules.

Only model-checked: liveness (`ImplementsPromise`'s liveness half, `Discovered`,
`Indexed`, `RunEnds`, `EventuallyEnriched`, `EventuallyChangelog`, `Converges`,
`Recovers`, `Ends`), because neither fairness nor ENABLED is within the prover's
reach.

## 5. What the runs found

* `record_pending`: the mark carries an `enrichedAt`; `ListVersionsNeedingChangelog`,
  which looks for marks, is called by no workflow.
* `record_stuck`: `GetPreviousVersionCommit` turns every error into "not found";
  after the wait its result is dereferenced unchecked.
* `submodule_changes`: only submodules whose pointer differs from what the
  previous version stored are stored, and the next changelog looks for its base
  in that incomplete list: with pointers 1, 1, 2 the third version's change is not
  reported.

Seen while modelling, and left without a run of their own:

Batches and records. A failing attempt signals completion like a successful one
and is retried afterwards, so a batch returns while a child is still going to run
(`version_batch_index.go:129` says it waits for all children), and more than the
window's number can run. Two overlapping runs both report a row as new (nobody
looks at what `ON CONFLICT DO NOTHING` did), both index it, and the second
`StoreCommitInfo`, or a pending mark, replaces the record the first run has
enriched (`changelog_batch.go:387` calls the data immutable at this point). The
second read of the predecessor can find another version, which may not be enriched
(`changelog_batch.go:256`). A version published below an enriched one does not
shorten that one's changelog, since only versions without `enrichedAt` reach the
changelog phase. The search path stores versions whose only assets lie in a denied
repository (`httpclient.go:158`). Assets have no unique key: two runs that index one
version at once each delete what they see and both inserts stay
(`activity/version_index.go:97`).

Ordering. The child of every sync starts over from the schema in force, which is
why a stale order repairs itself (`Converges`). Until then, batches of two runs mix:
`docs/WORKFLOWS.md:183` says an in-flight ordering with a stale schema is
cancelled, but only one that `PutArtifactSchema` started is. Rows with equal keys
trade places at each run, because the stable sort starts from
`ORDER BY sort_order DESC`. A version that the new schema gives no tags keeps its
old ones (`activity/version_ordering.go:317`, `docs/WORKFLOWS.md:144`).

Comparison. It is no weak order on versions that are entangled (section 4): those of
a schema with optional groups or with a variant between two that are alike, and
versions without a number beside composite ones (the comment at
`domain/version_ordering.go:160` takes both sides for non-composite there).
`Validate` of a schema checks only patterns and the names of types, so all of these
are possible; a stable sort then depends on the order of the rows it starts from.

Git. The lock is found by the URL as written, though `manager.go:75` calls it
normalized: `x` and `x.git` share a directory and not a lock, and nothing
normalizes a URL before. So two clones, or a clone and a fetch, may meet. No
commit is read wrongly then, since git refuses a directory that is taken, but a
refusal ends an attempt at once, attempts are 2 and 4 seconds apart and a clone
takes longer: the enrichment gives the repository up, and `error_commit_not_found`
is stored for good. A clone that fails also removes what a fetch under the other
spelling has brought. The instance of `git_lookup` has such a pair. `NotFoundExplained` and
`FirstThatHasIt` leave out the enrichments that met another one in this way
(`crowded`), `CommitsStay` a directory that is being cloned; `Recovers` and `Ends`
hold for all. A clone that is killed leaves a directory that no later call gets past.

Changelogs. `changelogVersionWork` takes the repository from the list fetched before
phase 1, though its comment (`changelog_batch.go:265`) prefers the enriched one. One
submodule that cannot be cloned drops all submodule data of the version. A
submodule pointer that moved back has no changelog.

API and pages. Registering a group again is answered with a plain error, an
artifact with 409. Two registrations of one artifact that overlap both answer 201,
and the second sets a schema put in between to NULL. The "migration binary" that
`handler.go:122` refers to for lost schedules is not in the repository. Rows of
equal `sort_order` may appear on two pages or none; a page past the end has total
0. A page filtered by flag or tag can end past the total it states, because the page,
the tags shown on it and the total are three statements (`service.go:170`, `:185`,
`:208`) between which a sync's ordering moves the recommended flag or replaces tags:
`TotalNeverShort` bounds the difference by the rows that left the filter. A submodule's changelog is shown only when the main one has commits.

## 6. Not modelled

HTTP, XML, JSON and zip decoding, regular expressions, the choice of the jar and
its download, authentication, templates, preferences, telemetry, process wiring
and generated code. `BuildAndStoreTags` is registered and never called. Temporal,
PostgreSQL and git are external: Temporal starts children, retries, delivers
signals once, times out; PostgreSQL commits transactions atomically at READ
COMMITTED; git clones and fetches in stages. Denied repositories never change and
rows are never deleted, as in the code. Assets are a flag per version, not a bag
of rows. In the runs of `VersionOrdering` one schedule stands for both, which adds
no step another run could not take but halves the state space; its constants
allow any number. The walks of a changelog drop the error that ends
them half way (`gogit.go:175`, `:200`), so a damaged repository gives a wrong
changelog; this is not modelled: `GitCache` fails whole reads, `Changelogs` walks to
the end. Upstream repositories only gain commits, although `manager.go:136` fetches
with `--prune` and so would follow a ref that was removed. The tags an API page shows
are read by a statement of their own, which `Listing` leaves out: no filter looks at
what it returns.

## 7. Plan

Done: all modules of section 2, and every safety property of the runs as a theorem.

Left, most valuable first:

1. Models: assets as a bag of rows that two runs may both insert, and the choice of
   the jar a commit is read from; the batch that returns while a failed child is
   about to be retried, as a property of `CommitRecord`.
2. Proofs: that the polls of a changelog child and the attempts of every step are
   bounded, as the variant that `RunEnds` and `Ends` rest on; `Settled` of
   `CommitRecord` with faults, for the versions that none has hit.
