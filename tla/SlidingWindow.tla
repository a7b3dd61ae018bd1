--------------------------- MODULE SlidingWindow ---------------------------
(***************************************************************************)
(* The sliding-window batch workflow.  VersionBatchIndexWorkflow,          *)
(* EnrichmentBatchWorkflow and ChangelogBatchWorkflow are three copies of  *)
(* one algorithm: walk a list page by page, keep at most WindowSize child  *)
(* workflows outstanding, learn of a child's end from a signal it sends,   *)
(* and continue as new after each page.  They differ in one point, kept    *)
(* here as Handover: the index batch passes the rest of the list to its    *)
(* next run ("slice"), the two others pass the whole list and an offset    *)
(* ("offset").  An instance with both has the behaviours of each.          *)
(*                                                                         *)
(* A child signals its parent whatever its outcome and the server retries  *)
(* a failed child, so one child may signal up to MaxAttempts times.        *)
(***************************************************************************)
EXTENDS Naturals, Sequences, FiniteSets, Functions

CONSTANTS Versions,        \* the list of versions the batch is started with
          PageSize,        \* versions handed out by one run (50 in the code)
          WindowSize,      \* 10 for the index batch, 5 for the others
          MaxAttempts,     \* attempts of a child workflow (3 in the code)
          Handover         \* {"slice"} for the index batch, else {"offset"}

Version == Range(Versions)

ASSUME BatchAssumption ==
    /\ Versions \in Seq(Version)
    /\ \A i, j \in DOMAIN Versions : Versions[i] = Versions[j] => i = j
    /\ PageSize \in Nat \ {0}
    /\ WindowSize \in Nat \ {0}
    /\ MaxAttempts \in Nat \ {0}
    /\ Handover # {} /\ Handover \subseteq {"slice", "offset"}

VARIABLES versions,         \* input.Versions of the current run
          offset,           \* input.Offset: where the run's page begins
          position,         \* versions of the list the page loop has passed
          currentRecords,   \* started and not known to have completed
          childrenStarted,  \* the children this run asked the server for
          progress,         \* completions recorded, carried across runs
          channel,          \* completion signals delivered and not received
          status,           \* of the batch: running, completed, terminated
          child,            \* state of each version's child workflow
          attempt           \* runs of each child the server has scheduled

batchVars == <<versions, offset, position, currentRecords, childrenStarted,
               progress, status>>
childVars == <<child, attempt>>
vars == <<batchVars, channel, childVars>>

ChildState == {"none", "initiated", "working", "backoff", "done", "failed"}

Init == /\ versions = Versions
        /\ offset = 0
        /\ position = 0
        /\ currentRecords = {}
        /\ childrenStarted = {}
        /\ progress = 0
        /\ channel = <<>>
        /\ status = "running"
        /\ child = [v \in Version |-> "none"]
        /\ attempt = [v \in Version |-> 0]

-----------------------------------------------------------------------------
(* The batch workflow. *)

\* Where the current run's page ends.
PageEnd == IF offset + PageSize > Len(versions) THEN Len(versions)
                                                ELSE offset + PageSize

\* Mutant: a second signal of a retried child is counted as well.
RecordCompletions_NoLookup(S) ==
    /\ currentRecords' = currentRecords \ S
    /\ progress' = progress + Cardinality(S)

\* recordCompletion for each version of S: a version that is not (any more)
\* in currentRecords changes nothing.
RecordCompletions(S) ==
    /\ currentRecords' = currentRecords \ S
    /\ progress' = progress + Cardinality(currentRecords \cap S)

\* Mutant: off by one.
WindowHasRoom_OneMore == Cardinality(currentRecords) <= WindowSize

WindowHasRoom == Cardinality(currentRecords) < WindowSize

\* The body of the page loop, once the window has room.
StartChild ==
    /\ status = "running"
    /\ position < PageEnd
    /\ WindowHasRoom
    /\ LET v == versions[position + 1] IN
         /\ currentRecords' = currentRecords \cup {v}
         /\ childrenStarted' = childrenStarted \cup {v}
         /\ child' = [child EXCEPT ![v] = "initiated"]
    /\ position' = position + 1
    /\ UNCHANGED <<versions, offset, progress, channel, status, attempt>>

\* The pump coroutine receives one completion signal.
PumpReceive ==
    /\ status = "running"
    /\ channel # <<>>
    /\ RecordCompletions({Head(channel)})
    /\ channel' = Tail(channel)
    /\ UNCHANGED <<versions, offset, position, childrenStarted, status,
                   childVars>>

\* drainCompletionSignals: the pump is stopped and the channel emptied.  The
\* server refuses to close a run that has signals it has not seen, so the
\* drain and the close that follows it are one step.
DrainCompletionSignals ==
    /\ RecordCompletions(Range(channel))
    /\ channel' = <<>>

\* Mutant: the run closes without waiting for its children to be started.
AllStarted_NotAwaited == TRUE

AllStarted == \A v \in childrenStarted : child[v] \notin {"none", "initiated"}

\* Mutant: the rest of the list from one version too early.
NextRunInput_FromLast ==
    /\ versions' = SubSeq(versions, PageEnd, Len(versions))
    /\ offset' = 0
    /\ position' = 0

\* What the next run finds in its input.
NextRunInput ==
    \/ /\ "slice" \in Handover
       /\ versions' = SubSeq(versions, PageEnd + 1, Len(versions))
       /\ offset' = 0
       /\ position' = 0
    \/ /\ "offset" \in Handover
       /\ offset' = PageEnd
       /\ UNCHANGED <<versions, position>>

\* A page is done and the list is not: wait for the page's children to be
\* started, drain, continue as new.
ContinueAsNew ==
    /\ status = "running"
    /\ position = PageEnd
    /\ PageEnd < Len(versions)
    /\ AllStarted
    /\ DrainCompletionSignals
    /\ NextRunInput
    /\ childrenStarted' = {}
    /\ UNCHANGED <<status, childVars>>

\* The last run: wait for the records to empty, drain, return progress.
Complete ==
    /\ status = "running"
    /\ position = PageEnd
    /\ PageEnd = Len(versions)
    /\ currentRecords = {}
    /\ DrainCompletionSignals
    /\ status' = "completed"
    /\ UNCHANGED <<versions, offset, position, childrenStarted, childVars>>

\* The calling run ends first (execution timeout, failure of its own); its
\* default parent-close policy terminates the batch but the batch's own
\* children are abandoned, not terminated.
Terminate ==
    /\ status = "running"
    /\ status' = "terminated"
    /\ UNCHANGED <<versions, offset, position, currentRecords,
                   childrenStarted, progress, channel, childVars>>

-----------------------------------------------------------------------------
(* The children and the server. *)

\* The server starts a child.  It need not start one whose requesting run has
\* closed in the meantime: such a child is no longer in childrenStarted.
ServerStart(v) ==
    /\ v \in childrenStarted
    /\ child[v] = "initiated"
    /\ child' = [child EXCEPT ![v] = "working"]
    /\ attempt' = [attempt EXCEPT ![v] = 1]
    /\ UNCHANGED <<batchVars, channel>>

\* The signal goes to the batch's current run; the error is ignored when
\* there is none.
SignalParent(v) ==
    channel' = IF status = "running" THEN Append(channel, v) ELSE channel

\* The work succeeded: signal the parent, return.
ChildSucceeds(v) ==
    /\ child[v] = "working"
    /\ SignalParent(v)
    /\ child' = [child EXCEPT ![v] = "done"]
    /\ UNCHANGED <<batchVars, attempt>>

\* Mutant: a failed attempt does not signal.
ChildFails_Silent(v) ==
    /\ child[v] = "working"
    /\ child' = [child EXCEPT ![v] = IF attempt[v] < MaxAttempts THEN "backoff"
                                                                 ELSE "failed"]
    /\ UNCHANGED <<batchVars, channel, attempt>>

\* Mutant: one attempt more than the policy allows.
ChildFails_OneMore(v) ==
    /\ child[v] = "working"
    /\ SignalParent(v)
    /\ child' = [child EXCEPT ![v] = IF attempt[v] <= MaxAttempts THEN "backoff"
                                                                  ELSE "failed"]
    /\ UNCHANGED <<batchVars, attempt>>

\* The work failed: signal the parent all the same, return the error.  The
\* server schedules another run while the retry policy allows one.
ChildFails(v) ==
    /\ child[v] = "working"
    /\ SignalParent(v)
    /\ child' = [child EXCEPT ![v] = IF attempt[v] < MaxAttempts THEN "backoff"
                                                                 ELSE "failed"]
    /\ UNCHANGED <<batchVars, attempt>>

\* The retry interval is over: the child's work begins again.
RetryChild(v) ==
    /\ child[v] = "backoff"
    /\ child' = [child EXCEPT ![v] = "working"]
    /\ attempt' = [attempt EXCEPT ![v] = @ + 1]
    /\ UNCHANGED <<batchVars, channel>>

\* Nothing is left to happen: the batch is closed and no child can run.
Quiet == /\ status # "running"
         /\ \A v \in Version : child[v] \notin {"working", "backoff"}
         /\ \A v \in childrenStarted : child[v] # "initiated"
         /\ UNCHANGED vars

-----------------------------------------------------------------------------

BatchStep == StartChild \/ PumpReceive \/ ContinueAsNew \/ Complete

ChildStep(v) ==
    ServerStart(v) \/ ChildSucceeds(v) \/ ChildFails(v) \/ RetryChild(v)

Next == \/ BatchStep
        \/ Terminate
        \/ \E v \in Version : ChildStep(v)
        \/ Quiet

Spec == Init /\ [][Next]_vars

\* The worker polls for workflow tasks, the server starts children and fires
\* retry timers, and a child's activities have timeouts and bounded attempts.
Fairness == /\ WF_vars(BatchStep)
            /\ \A v \in Version : WF_vars(ChildStep(v))

FairSpec == Spec /\ Fairness

-----------------------------------------------------------------------------
(* Properties. *)

\* Versions of the list handed out by this run and the runs before it.
HandedOut == Len(Versions) - Len(versions) + position

\* s is what is left of the caller's list after its first k elements.
IsRestOfList(s) ==
    \E k \in 0..Len(Versions) : s = SubSeq(Versions, k + 1, Len(Versions))

\* The variables stay in range: the run's list is what is left of the
\* caller's (all of it unless the batch slices), its page lies within it, and
\* attempts stay within the children's retry policy.
TypeOK ==
    /\ IsRestOfList(versions)
    /\ offset \in 0..Len(versions)
    /\ position \in offset..PageEnd
    /\ currentRecords \in SUBSET Version
    /\ childrenStarted \in SUBSET Version
    /\ progress \in Nat
    /\ channel \in Seq(Version)
    /\ status \in {"running", "completed", "terminated"}
    /\ child \in [Version -> ChildState]
    /\ attempt \in [Version -> 0..MaxAttempts]

\* Bounded concurrency as the batch sees it, across pages and continue-as-new:
\* never more than WindowSize versions on record.
WindowRespected == Cardinality(currentRecords) <= WindowSize

\* The progress a batch reports is exact: what was handed out and is no longer
\* on record has been counted, once, however often its child signalled and
\* whichever run received the signal.
ProgressExact == progress + Cardinality(currentRecords) = HandedOut

\* The child of v has not yet sent its first signal, and will.
FirstSignalPending(v) == \/ (child[v] = "initiated" /\ v \in childrenStarted)
                         \/ (child[v] = "working" /\ attempt[v] = 1)

\* No completion is lost: a version on record has a child that is still going
\* to signal, or its signal waits in the channel.  Otherwise the window would
\* lose a slot for good and the batch would never return.
NoLostCompletion ==
    status = "running" =>
        \A v \in currentRecords : FirstSignalPending(v) \/ v \in Range(channel)

\* A version is handed to a child at most once, whatever the page boundaries:
\* no step of the batch starts a child that already exists.
HandedOutOnce ==
    [][\A v \in Version :
          child'[v] = "initiated" /\ child[v] # "initiated" => child[v] = "none"]_vars

\* The child of v has signalled at least once.
HasSignalled(v) == \/ child[v] \in {"backoff", "done", "failed"}
                   \/ (child[v] = "working" /\ attempt[v] > 1)

\* A batch that returns returns the length of its list, and every child has
\* run to the end of at least one attempt.
CompletedAccountsForAll ==
    status = "completed" =>
        progress = Len(Versions) /\ \A v \in Version : HasSignalled(v)

\* The batch implements what its caller relies on, pages, signals and retries
\* hidden: SafePromise is the safety half, ImplementsPromise adds that under
\* the children's and the worker's fairness the batch ends.
Promise == INSTANCE BatchPromise WITH next <- HandedOut,
                                      active <- currentRecords,
                                      reported <- progress,
                                      outcome <- status
SafePromise == Promise!SafeSpec
ImplementsPromise == Promise!Spec

-----------------------------------------------------------------------------
(* The inductive invariant behind the safety properties. *)

\* The versions that have a child are those handed out.
StartedIsHandedOut ==
    \A i \in 1..Len(Versions) : child[Versions[i]] = "none" <=> i > HandedOut

\* Only a started child is on record, and a child that is off the record, or
\* has a signal in the channel, has signalled.
RecordsMatchChildren ==
    /\ IsFiniteSet(currentRecords)
    /\ \A v \in currentRecords : child[v] # "none"
    /\ \A v \in Version \ currentRecords : child[v] = "none" \/ HasSignalled(v)
    /\ \A v \in Range(channel) : HasSignalled(v)

\* A child that has run has been given an attempt, and one that waits for a
\* retry has an attempt left.
AttemptsCounted ==
    \A v \in Version :
        /\ child[v] \in {"working", "backoff", "done", "failed"} => attempt[v] >= 1
        /\ child[v] = "backoff" => attempt[v] < MaxAttempts

CompletedIsEmpty ==
    status = "completed" => HandedOut = Len(Versions) /\ currentRecords = {}

IInv == /\ TypeOK
        /\ WindowRespected
        /\ ProgressExact
        /\ NoLostCompletion
        /\ StartedIsHandedOut
        /\ RecordsMatchChildren
        /\ AttemptsCounted
        /\ CompletedIsEmpty

=============================================================================
