---------------------------- MODULE CommitRecord ----------------------------
(***************************************************************************)
(* The life of artifact_versions.commit_body.  A sync run indexes its new  *)
(* versions (a commit found in a jar is written), then enriches every      *)
(* version that has a sha and no enrichedAt, then computes the changelogs  *)
(* of the versions it enriched against their predecessors.  Each stage is  *)
(* a batch of children (SlidingWindow); every write replaces the whole     *)
(* record, StoreChangelog's after a read in the same transaction.          *)
(*                                                                         *)
(* Versions are those whose jar holds a commit, numbered by sort_order,    *)
(* taken as settled (VersionOrdering is where they come from).  Two kinds  *)
(* of overlap are modelled: runs of several schedules, and children that   *)
(* go on after their batch has ended, because a failed attempt reports     *)
(* like a finished one and is then retried.                                *)
(***************************************************************************)
EXTENDS Naturals, FiniteSets, FiniteSetsExt

CONSTANTS N,          \* number of versions
          NotFound,   \* versions whose sha is in none of the repositories
          Run,        \* the schedules, and operators, that run syncs
          Forced,     \* those of Run that force: they reindex every version,
                      \* or compute the changelogs again and nothing else
          MaxPolls,   \* changelogPollMaxAttempts (20 in the code)
          MaxFaults   \* bound on failed attempts and timeouts

Version == 1..N

ASSUME RecordAssumption ==
    /\ N \in Nat
    /\ NotFound \subseteq Version
    /\ Forced \subseteq Run
    /\ MaxPolls \in Nat \ {0}
    /\ MaxFaults \in Nat

VARIABLES known,   \* versions with a row
          body,    \* commit_body of each version
          run,     \* stage of each sync run, and the versions it works on
          index,   \* children of the index batch
          enrich,  \* children of the enrichment batch
          clog,    \* children of the changelog batch
          alone,   \* history: versions whose changelog child found no predecessor
          faults

recordVars == <<known, body, alone>>
childVars == <<index, enrich, clog>>
vars == <<known, body, run, index, enrich, clog, alone, faults>>

\* details: message, author, date and submodules are there; changelog: the
\* version it was computed against, 0 for none.
Body == [sha: BOOLEAN, enriched: BOOLEAN, details: BOOLEAN,
         changelog: 0..N, status: {"", "not_found", "pending"}]

NoBody == [sha |-> FALSE, enriched |-> FALSE, details |-> FALSE,
           changelog |-> 0, status |-> ""]

\* What the index writes: the jar's sha and nothing else.
IndexedBody == [NoBody EXCEPT !.sha = TRUE]

\* What the enrichment of v writes.
EnrichedBody(v) == [sha |-> TRUE, enriched |-> TRUE, details |-> v \notin NotFound,
                    changelog |-> 0,
                    status |-> IF v \in NotFound THEN "not_found" ELSE ""]

\* (Mutant: a new record that holds the mark alone.)
PendingBody_MarkOnly == [NoBody EXCEPT !.enriched = TRUE, !.status = "pending"]

\* What markPendingPredecessor writes.
PendingBody == [IndexedBody EXCEPT !.enriched = TRUE, !.status = "pending"]

Stage == {"idle", "index", "enrich", "changelog"}

\* A child that is "working" is one its batch waits for; a "late" one has
\* reported, or lost its batch, and still runs or waits for its retry.
ChildState == {"none", "working", "late"}

\* prev is the predecessor found last; seen, the record StoreChangelog has read
\* in its open transaction.  A "stuck" child panics on every replay.
ClogStep == {"read", "poll", "reread", "merge", "write", "mark", "stuck"}
Clog == [state: ChildState, step: ClogStep, prev: 0..N,
         polls: 0..MaxPolls, seen: Body]

NoClog == [state |-> "none", step |-> "read", prev |-> 0,
           polls |-> 0, seen |-> NoBody]

Init == /\ known = {}
        /\ body = [v \in Version |-> NoBody]
        /\ run = [r \in Run |-> [stage |-> "idle", list |-> {}]]
        /\ index = [r \in Run |-> [v \in Version |-> "none"]]
        /\ enrich = [r \in Run |-> [v \in Version |-> "none"]]
        /\ clog = [r \in Run |-> [v \in Version |-> NoClog]]
        /\ alone = {}
        /\ faults = 0

Enter(r, stage, list) == run' = [run EXCEPT ![r] = [stage |-> stage, list |-> list]]

EndRun(r) == Enter(r, "idle", {})

Fault == /\ faults < MaxFaults
         /\ faults' = faults + 1

\* The versions a changelog of v is computed against come before it and have
\* a sha; the previous one is the last of them.
Predecessors(v) == {w \in 1..(v - 1) : body[w].sha}

Previous(v) == Max(Predecessors(v))

-----------------------------------------------------------------------------
(* The run: index batch, enrichment batch, changelog batch.                 *)

\* Versions a run may find new: those without a row, and those an overlapping
\* run has just stored.
MaybeNew(r) ==
    (Version \ known) \cup
        UNION {run[q].list : q \in {p \in Run \ Forced : run[p].stage = "index"}}

\* The changelog child of v is there and can still do something.
Alive(r, v) == clog[r][v].state # "none" /\ clog[r][v].step # "stuck"

NoLateChild(r) == \A v \in Version : /\ index[r][v] = "none"
                                     /\ enrich[r][v] = "none"
                                     /\ ~Alive(r, v)

\* A run starts, stores the versions it finds new and starts the index batch.
\* (Its schedule fires again only when its own late children are over: what
\* overlaps them is the other schedule's run.)
Start(r) ==
    /\ run[r].stage = "idle"
    /\ NoLateChild(r)
    /\ \E new \in SUBSET MaybeNew(r) :
         /\ known' = known \cup new
         /\ LET list == IF r \in Forced THEN known' ELSE new IN
              /\ Enter(r, "index", list)
              /\ index' = [index EXCEPT ![r] =
                             [v \in Version |-> IF v \in list THEN "working" ELSE "none"]]
    /\ UNCHANGED <<body, alone, enrich, clog, faults>>

\* (Mutant: only the records the index has written and nobody since.)
Needing_Untouched == {v \in known : body[v] = IndexedBody}

\* ListVersionsNeedingEnrichment.
Needing == {v \in known : body[v].sha /\ ~body[v].enriched}

\* The index batch is over (ordering too): fetch the versions that need
\* enrichment and start the enrichment batch, or end when there are none.
StartEnrichment(r) ==
    /\ run[r].stage = "index"
    /\ \A v \in Version : index[r][v] # "working"
    /\ \/ Needing = {} /\ EndRun(r) /\ UNCHANGED enrich
       \/ /\ Needing # {}
          /\ Enter(r, "enrich", Needing)
          /\ enrich' = [enrich EXCEPT ![r] =
                          [v \in Version |-> IF v \in Needing THEN "working" ELSE "none"]]
    /\ UNCHANGED <<recordVars, index, clog, faults>>

\* The changelog batch of a run over the versions in list.
ChangelogBatch(r, list) ==
    /\ Enter(r, "changelog", list)
    /\ clog' = [clog EXCEPT ![r] =
                  [v \in Version |-> IF v \in list
                                     THEN [NoClog EXCEPT !.state = "working"]
                                     ELSE NoClog]]

\* (Mutant: the versions are fetched again for the second phase.)
StartChangelogs_Refetch(r) ==
    /\ run[r].stage = "enrich"
    /\ \A v \in Version : enrich[r][v] # "working"
    /\ ChangelogBatch(r, Needing)
    /\ UNCHANGED <<recordVars, index, enrich, faults>>

\* The enrichment batch is over: the changelog batch gets the same list.
StartChangelogs(r) ==
    /\ run[r].stage = "enrich"
    /\ \A v \in Version : enrich[r][v] # "working"
    /\ ChangelogBatch(r, run[r].list)
    /\ UNCHANGED <<recordVars, index, enrich, faults>>

\* ListEnrichedVersions.
Enriched == {v \in known : body[v].sha /\ body[v].enriched}

\* A run that only computes changelogs, for all that is enriched.
ForceChangelog(r) ==
    /\ r \in Forced
    /\ run[r].stage = "idle"
    /\ NoLateChild(r)
    /\ Enriched # {}
    /\ ChangelogBatch(r, Enriched)
    /\ UNCHANGED <<recordVars, index, enrich, faults>>

Finish(r) ==
    /\ run[r].stage = "changelog"
    /\ \A v \in Version : clog[r][v].state # "working"
    /\ EndRun(r)
    /\ UNCHANGED <<recordVars, childVars, faults>>

\* What a batch stops waiting for still runs.
Lated(state) == IF state = "none" THEN "none" ELSE "late"

\* A batch that waits for a stuck child.
Wedged(r) == \E v \in Version : clog[r][v].state = "working" /\ clog[r][v].step = "stuck"

\* The execution timeout of a schedule's run, which comes too early (Fault) or ends
\* one that waits in vain; a forced run has none, but its operator may terminate it
\* (Fault).  Its batches are terminated with it, their children abandoned.
TimeOut(r) ==
    /\ run[r].stage # "idle"
    /\ \/ Fault
       \/ Wedged(r) /\ r \notin Forced /\ UNCHANGED faults
    /\ EndRun(r)
    /\ index' = [index EXCEPT ![r] = [v \in Version |-> Lated(@[v])]]
    /\ enrich' = [enrich EXCEPT ![r] = [v \in Version |-> Lated(@[v])]]
    /\ clog' = [clog EXCEPT ![r] =
                  [v \in Version |-> [clog[r][v] EXCEPT !.state = Lated(@)]]]
    /\ UNCHANGED recordVars

-----------------------------------------------------------------------------
(* Index and enrichment children: one write each, blind. *)

Write(v, b) == body' = [body EXCEPT ![v] = b]

\* VersionIndexWorkflow, to StoreCommitInfo.
IndexVersion(r, v) ==
    /\ index[r][v] # "none"
    /\ Write(v, IndexedBody)
    /\ index' = [index EXCEPT ![r][v] = "none"]
    /\ UNCHANGED <<known, alone, run, enrich, clog, faults>>

\* An attempt fails, before its write or after it when the result is lost; it
\* reports all the same and is retried.  A late child may also give up.
IndexFails(r, v) ==
    /\ index[r][v] # "none"
    /\ Fault
    /\ body' \in {body, [body EXCEPT ![v] = IndexedBody]}
    /\ \/ index' = [index EXCEPT ![r][v] = "late"]
       \/ index[r][v] = "late" /\ index' = [index EXCEPT ![r][v] = "none"]
    /\ UNCHANGED <<known, alone, run, enrich, clog>>

\* EnrichVersionWorkflow, to StoreEnrichedCommit.  When no repository has the
\* sha, a store that fails is ignored.
EnrichVersion(r, v) ==
    /\ enrich[r][v] # "none"
    /\ Write(v, EnrichedBody(v))
    /\ enrich' = [enrich EXCEPT ![r][v] = "none"]
    /\ UNCHANGED <<known, alone, run, index, clog, faults>>

EnrichFails(r, v) ==
    /\ enrich[r][v] # "none"
    /\ Fault
    /\ body' \in {body, [body EXCEPT ![v] = EnrichedBody(v)]}
    /\ \/ enrich' = [enrich EXCEPT ![r][v] = "late"]
       \/ /\ enrich[r][v] = "late" \/ v \in NotFound
          /\ enrich' = [enrich EXCEPT ![r][v] = "none"]
    /\ UNCHANGED <<known, alone, run, index, clog>>

-----------------------------------------------------------------------------
(* A changelog child. *)

ClogAt(r, v, step) == clog[r][v].state # "none" /\ clog[r][v].step = step

ClogMove(r, v, c) == clog' = [clog EXCEPT ![r][v] = c]

ClogDone(r, v) == ClogMove(r, v, NoClog)

\* GetPreviousVersionCommit: without a predecessor there is nothing to do.
ReadPrevious(r, v) ==
    /\ ClogAt(r, v, "read")
    /\ \/ /\ Predecessors(v) = {}
          /\ ClogDone(r, v)
          /\ alone' = alone \cup {v}
       \/ /\ Predecessors(v) # {}
          /\ LET p == Previous(v) IN
               ClogMove(r, v, [clog[r][v] EXCEPT
                                 !.step = IF body[p].enriched THEN "merge" ELSE "poll",
                                 !.prev = p])
          /\ UNCHANGED alone
    /\ UNCHANGED <<known, body, run, index, enrich, faults>>

\* (Mutant: one check too many.)
Poll_OneMore(r, v) ==
    /\ ClogAt(r, v, "poll")
    /\ LET c == clog[r][v] IN
         \/ body[c.prev].enriched /\ ClogMove(r, v, [c EXCEPT !.step = "reread"])
         \/ /\ ~body[c.prev].enriched
            /\ ClogMove(r, v, [c EXCEPT !.polls = @ + 1,
                                        !.step = IF c.polls = MaxPolls THEN "mark" ELSE "poll"])
    /\ UNCHANGED <<recordVars, run, index, enrich, faults>>

\* (Mutant: the checks are not counted.)
Poll_Forever(r, v) ==
    /\ ClogAt(r, v, "poll")
    /\ body[clog[r][v].prev].enriched
    /\ ClogMove(r, v, [clog[r][v] EXCEPT !.step = "reread"])
    /\ UNCHANGED <<recordVars, run, index, enrich, faults>>

\* waitForPredecessorEnrichment, one check of the row found before.
Poll(r, v) ==
    /\ ClogAt(r, v, "poll")
    /\ LET c == clog[r][v] IN
         \/ /\ body[c.prev].enriched
            /\ ClogMove(r, v, [c EXCEPT !.step = "reread"])
         \/ /\ ~body[c.prev].enriched
            /\ ClogMove(r, v, [c EXCEPT
                                 !.polls = @ + 1,
                                 !.step = IF c.polls + 1 = MaxPolls THEN "mark"
                                                                    ELSE "poll"])
    /\ UNCHANGED <<recordVars, run, index, enrich, faults>>

\* The previous version is read once more: another row may have become it.
Reread(r, v) ==
    /\ ClogAt(r, v, "reread")
    /\ ClogMove(r, v, [clog[r][v] EXCEPT !.step = "merge",
                                         !.prev = Previous(v)])
    /\ UNCHANGED <<recordVars, run, index, enrich, faults>>

\* StoreChangelog's transaction reads the record ...
Merge(r, v) ==
    /\ ClogAt(r, v, "merge")
    /\ ClogMove(r, v, [clog[r][v] EXCEPT !.step = "write", !.seen = body[v]])
    /\ UNCHANGED <<recordVars, run, index, enrich, faults>>

\* ... and writes it back with the changelog: READ COMMITTED, no row lock.
StoreChangelog(r, v) ==
    /\ ClogAt(r, v, "write")
    /\ LET c == clog[r][v] IN
         Write(v, [c.seen EXCEPT !.changelog = c.prev,
                                 !.status = IF @ = "pending" THEN "" ELSE @])
    /\ ClogDone(r, v)
    /\ UNCHANGED <<known, alone, run, index, enrich, faults>>

\* markPendingPredecessor.
MarkPending(r, v) ==
    /\ ClogAt(r, v, "mark")
    /\ Write(v, PendingBody)
    /\ ClogDone(r, v)
    /\ UNCHANGED <<known, alone, run, index, enrich, faults>>

\* A query for the previous version fails, which reads as "there is none": at
\* first the child ends, later it dereferences the missing commit and panics.
ReadFails(r, v) ==
    /\ Fault
    /\ \/ /\ ClogAt(r, v, "read")
          /\ ClogDone(r, v)
          /\ alone' = alone \cup {v}
       \/ /\ ClogAt(r, v, "reread")
          /\ ClogMove(r, v, [clog[r][v] EXCEPT !.step = "stuck"])
          /\ UNCHANGED alone
    /\ UNCHANGED <<known, body, run, index, enrich>>

\* An attempt fails: it reports and starts again, or gives up when late.  A
\* mark that cannot be stored is ignored.
ClogFails(r, v) ==
    /\ Alive(r, v)
    /\ Fault
    /\ \/ ClogMove(r, v, [NoClog EXCEPT !.state = "late"])
       \/ /\ clog[r][v].state = "late" \/ ClogAt(r, v, "mark")
          /\ ClogDone(r, v)
    /\ UNCHANGED <<recordVars, run, index, enrich>>

-----------------------------------------------------------------------------

RunStep(r) == StartEnrichment(r) \/ StartChangelogs(r) \/ Finish(r)

ClogChild(r, v) == \/ ReadPrevious(r, v) \/ Poll(r, v) \/ Reread(r, v)
                   \/ Merge(r, v) \/ StoreChangelog(r, v) \/ MarkPending(r, v)

ChildStep(r, v) == IndexVersion(r, v) \/ EnrichVersion(r, v) \/ ClogChild(r, v)

Failure(r, v) == \/ IndexFails(r, v) \/ EnrichFails(r, v)
                 \/ ReadFails(r, v) \/ ClogFails(r, v)

Next == \E r \in Run :
          \/ Start(r) \/ ForceChangelog(r) \/ RunStep(r) \/ TimeOut(r)
          \/ \E v \in Version : ChildStep(r, v) \/ Failure(r, v)

Spec == Init /\ [][Next]_vars

\* Schedules keep firing, and the execution timeout ends those of their runs that
\* wait for ever; an operator need not start a run, nor terminate one.  The worker
\* keeps polling, and retries are bounded.
FairSpec ==
    /\ Spec
    /\ \A r \in Run :
         /\ WF_vars(RunStep(r))
         /\ \A v \in Version : WF_vars(ChildStep(r, v))
    /\ \A r \in Run \ Forced :
         /\ WF_vars(Start(r))
         /\ WF_vars(Wedged(r) /\ TimeOut(r))

-----------------------------------------------------------------------------
(* Properties. *)

TypeOK ==
    /\ known \in SUBSET Version
    /\ body \in [Version -> Body]
    /\ run \in [Run -> [stage: Stage, list: SUBSET Version]]
    /\ index \in [Run -> [Version -> ChildState]]
    /\ enrich \in [Run -> [Version -> ChildState]]
    /\ clog \in [Run -> [Version -> Clog]]
    /\ alone \in SUBSET Version
    /\ faults \in 0..MaxFaults

Quiescent == \A r \in Run : run[r].stage = "idle" /\ NoLateChild(r)

\* Who wrote a record last may undo an enrichment, a changelog or a mark, but a
\* commit that was found stays: no stale copy or wholesale write takes it away.
CommitKept == [][\A v \in Version : body[v].sha => body'[v].sha]_vars

\* When nothing runs, every enriched version has its changelog, or is marked
\* pending, unless its child found no predecessor: whatever two overlapping runs
\* overwrite, neither leaves a version enriched and forgotten.  (Without faults;
\* the retry of an enrichment that had been stored wipes a changelog.)
Settled ==
    Quiescent => \A v \in Version \ alone :
                   body[v].enriched => body[v].changelog # 0 \/ body[v].status = "pending"

\* A version with a sha is enriched in the end: no write of an index child, late
\* changelog or mark takes it out of what ListVersionsNeedingEnrichment finds
\* before enrichedAt is set.
EventuallyEnriched == \A v \in Version : body[v].sha ~> body[v].enriched

\* A version that is enriched gets its changelog, or its mark, even while forced
\* runs index it again, unless something fails.
EventuallyChangelog ==
    \A v \in Version :
        body[v].enriched ~> \/ body[v].changelog # 0
                            \/ body[v].status = "pending"
                            \/ v \in alone
                            \/ faults > 0

\* Every run ends: the polls of its changelog children are bounded, and a child
\* that panics holds a schedule's run no longer than its execution timeout.  A
\* forced run has no timeout: it ends unless it waits for such a child.
RunEnds == \A r \in Run :
    run[r].stage # "idle" ~> (run[r].stage = "idle" \/ (r \in Forced /\ Wedged(r)))

-----------------------------------------------------------------------------
(* What the documentation or the comments say, and the code does not do.    *)

\* A version marked pending is taken up again by a later run: its enrichedAt is
\* set, so no query a workflow uses finds it.
PendingRetried ==
    \A v \in Version : body[v].status = "pending" ~> body[v].status # "pending"

\* A changelog child ends, and reports, whatever fails: one that finds no
\* predecessor on the second read panics instead.
ChildEnds ==
    \A r \in Run, v \in Version : clog[r][v].state = "working" ~> clog[r][v].state = "none"
=============================================================================
