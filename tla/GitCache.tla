------------------------------ MODULE GitCache ------------------------------
(***************************************************************************)
(* The bare clones a worker keeps, and the enrichments that look a commit  *)
(* up in them.  EnrichVersionWorkflow tries its repositories in order; for *)
(* each it calls EnsureCloned (clone the first time, fetch later, under a  *)
(* lock) and then reads the commit without one.  The lock is found by the  *)
(* URL as it is written, the directory by the URL without ".git".          *)
(*                                                                         *)
(* git itself is outside the repository: a clone that fails removes what   *)
(* it made, a clone that is killed does not.                               *)
(***************************************************************************)
EXTENDS Naturals, Sequences

CONSTANTS Url,          \* repository URLs as registered, recorded or in .gitmodules
          Dir,          \* directories of bare clones, one per remote repository
          RepoPath,     \* repoPath: the directory of each URL
          Commit,
          Job,          \* concurrent enrichments on one worker
          ReposToTry,   \* the URLs each tries, in order
          CommitSha,    \* the commit each looks for
          None,
          MaxAttempts,  \* attempts of EnsureRepoCloned (3 in the code)
          MaxFaults     \* bound on network errors, timeouts and failed reads

ASSUME CacheAssumption ==
    /\ RepoPath \in [Url -> Dir]
    /\ ReposToTry \in [Job -> Seq(Url)]
    /\ \A j \in Job : ReposToTry[j] # <<>>
    /\ CommitSha \in [Job -> Commit]
    /\ None \notin Url \cup Job
    /\ MaxAttempts \in Nat \ {0}
    /\ MaxFaults \in Nat

VARIABLES upstream,  \* commits reachable from the refs of each remote
          disk,      \* how far the clone in each directory has got
          objects,   \* commits in each directory
          lock,      \* who holds the mutex of each URL
          job,       \* local state of each enrichment
          faults     \* failures so far

vars == <<upstream, disk, objects, lock, job, faults>>

\* git clone --bare makes the directory, then HEAD, then the remote "origin",
\* then brings the objects.
Disk == {"absent", "debris", "head", "origin", "whole"}

Step == {"idle", "lock", "stat", "clone", "cloning", "fetch", "fetching",
         "read", "done"}

\* sees: what the remote offered when git asked; found: the URL that had the
\* commit; history: trouble, a fault hit this job; crowded, it was at work in a
\* directory together with another; before, the directories whose remotes had
\* the commit when the job began.
Local == [pc: Step, i: Nat \ {0}, attempt: 1..MaxAttempts, sees: SUBSET Commit,
          found: Url \cup {None}, trouble: BOOLEAN, crowded: BOOLEAN, before: SUBSET Dir]

TypeOK == /\ upstream \in [Dir -> SUBSET Commit]
          /\ disk \in [Dir -> Disk]
          /\ objects \in [Dir -> SUBSET Commit]
          /\ lock \in [Url -> Job \cup {None}]
          /\ job \in [Job -> Local]
          /\ faults \in 0..MaxFaults

Idle == [pc |-> "idle", i |-> 1, attempt |-> 1, sees |-> {}, found |-> None,
         trouble |-> FALSE, crowded |-> FALSE, before |-> {}]

Init == /\ upstream = [d \in Dir |-> {}]
        /\ disk = [d \in Dir |-> "absent"]
        /\ objects = [d \in Dir |-> {}]
        /\ lock = [u \in Url |-> None]
        /\ job = [j \in Job |-> Idle]
        /\ faults = 0

At(j, step) == job[j].pc = step
Move(j, l)  == job' = [job EXCEPT ![j] = l]
Goto(j, step) == job' = [job EXCEPT ![j].pc = step]

RepoUrl(j) == ReposToTry[j][job[j].i]
Path(j)    == RepoPath[RepoUrl(j)]

Fault == /\ faults < MaxFaults
         /\ faults' = faults + 1

cache == <<disk, objects>>

-----------------------------------------------------------------------------
(* Upstream. *)

Push(d, c) ==
    /\ c \notin upstream[d]
    /\ upstream' = [upstream EXCEPT ![d] = @ \cup {c}]
    /\ UNCHANGED <<cache, lock, job, faults>>

-----------------------------------------------------------------------------
(* How the workflow goes on. *)

\* The next repository in the list, or the end: error_commit_not_found.
TryNext(j, l) == IF l.i < Len(ReposToTry[j])
                 THEN Move(j, [l EXCEPT !.pc = "lock", !.i = @ + 1, !.attempt = 1])
                 ELSE Move(j, [l EXCEPT !.pc = "done"])

\* Mutant: MaximumAttempts counts the retries only.
Retry_OneMore(j, l) == IF l.attempt <= MaxAttempts
                       THEN Move(j, [l EXCEPT !.pc = "lock", !.attempt = @ + 1])
                       ELSE TryNext(j, l)

\* Mutant: no maximum, which to Temporal is unlimited attempts.
Retry_Unlimited(j, l) == Move(j, [l EXCEPT !.pc = "lock"])

\* An attempt of EnsureRepoCloned ends with an error.
Retry(j, l) == IF l.attempt < MaxAttempts
               THEN Move(j, [l EXCEPT !.pc = "lock", !.attempt = @ + 1])
               ELSE TryNext(j, l)

Unlock(j) == lock' = [lock EXCEPT ![RepoUrl(j)] = None]

Start(j) ==
    /\ At(j, "idle")
    /\ Move(j, [Idle EXCEPT !.pc = "lock",
                  !.before = {d \in Dir : CommitSha[j] \in upstream[d]}])
    /\ UNCHANGED <<upstream, cache, lock, faults>>

-----------------------------------------------------------------------------
(* EnsureCloned. *)

\* Mutant: EnsureCloned takes the shared side of the RWMutex.
Lock_Shared(j) ==
    /\ At(j, "lock")
    /\ lock' = [lock EXCEPT ![RepoUrl(j)] = j]
    /\ Goto(j, "stat")
    /\ UNCHANGED <<upstream, cache, faults>>

\* Those that are at work in the directory of j under the lock of another URL.
Others(j) == {lock[u] : u \in {v \in Url : RepoPath[v] = Path(j)}} \ {None}

Lock(j) ==
    /\ At(j, "lock")
    /\ lock[RepoUrl(j)] = None
    /\ lock' = [lock EXCEPT ![RepoUrl(j)] = j]
    /\ job' = [k \in Job |->
                 [job[k] EXCEPT !.pc = IF k = j THEN "stat" ELSE @,
                                !.crowded = \/ @
                                            \/ k \in Others(j)
                                            \/ k = j /\ Others(j) # {}]]
    /\ UNCHANGED <<upstream, cache, faults>>

\* Mutant: a clone that was interrupted is cloned again instead of fetched.
HasHead_Whole(d) == disk[d] = "whole"

\* The test for HEAD, which an interrupted clone may have as well.
HasHead(d) == disk[d] \in {"head", "origin", "whole"}

Stat(j) ==
    /\ At(j, "stat")
    /\ Goto(j, IF HasHead(Path(j)) THEN "fetch" ELSE "clone")
    /\ UNCHANGED <<upstream, cache, lock, faults>>

\* git clone refuses a directory that is there and not empty.
CloneRefused(j) ==
    /\ At(j, "clone")
    /\ disk[Path(j)] # "absent"
    /\ Unlock(j)
    /\ Retry(j, job[j])
    /\ UNCHANGED <<upstream, cache, faults>>

CloneMkdir(j) ==
    /\ At(j, "clone")
    /\ disk[Path(j)] = "absent"
    /\ disk' = [disk EXCEPT ![Path(j)] = "debris"]
    /\ Move(j, [job[j] EXCEPT !.pc = "cloning", !.sees = upstream[Path(j)]])
    /\ UNCHANGED <<upstream, objects, lock, faults>>

\* HEAD, then origin.
CloneInit(j) ==
    /\ At(j, "cloning")
    /\ disk[Path(j)] \in {"debris", "head"}
    /\ disk' = [disk EXCEPT ![Path(j)] = IF @ = "debris" THEN "head" ELSE "origin"]
    /\ UNCHANGED <<upstream, objects, lock, job, faults>>

\* git fetch fails when there is no remote called origin, or no longer: a clone
\* under another spelling has removed the directory.
FetchRefused(j) ==
    /\ job[j].pc \in {"fetch", "fetching"}
    /\ disk[Path(j)] \notin {"origin", "whole"}
    /\ Unlock(j)
    /\ Retry(j, job[j])
    /\ UNCHANGED <<upstream, cache, faults>>

FetchBegin(j) ==
    /\ At(j, "fetch")
    /\ disk[Path(j)] \in {"origin", "whole"}
    /\ Move(j, [job[j] EXCEPT !.pc = "fetching", !.sees = upstream[Path(j)]])
    /\ UNCHANGED <<upstream, cache, lock, faults>>

\* The objects are there: EnsureCloned returns.
Receive(j) ==
    /\ job[j].pc \in {"cloning", "fetching"}
    /\ disk[Path(j)] \in {"origin", "whole"}
    /\ disk' = [disk EXCEPT ![Path(j)] = "whole"]
    /\ objects' = [objects EXCEPT ![Path(j)] = @ \cup job[j].sees]
    /\ Unlock(j)
    /\ Goto(j, "read")
    /\ UNCHANGED <<upstream, faults>>

Troubled(j) == [job[j] EXCEPT !.trouble = TRUE]

\* Mutant: whatever fails, the directory is removed so as to clone it again.
NetworkError_Removes(j) ==
    /\ job[j].pc \in {"cloning", "fetching"}
    /\ Fault
    /\ disk' = [disk EXCEPT ![Path(j)] = "absent"]
    /\ objects' = [objects EXCEPT ![Path(j)] = {}]
    /\ Unlock(j)
    /\ Retry(j, Troubled(j))
    /\ UNCHANGED upstream

\* A network error: git ends by itself, and a clone removes what it made.
NetworkError(j) ==
    /\ \/ At(j, "fetching") /\ UNCHANGED cache
       \/ /\ At(j, "cloning")
          /\ disk' = [disk EXCEPT ![Path(j)] = "absent"]
          /\ objects' = [objects EXCEPT ![Path(j)] = {}]
    /\ Fault
    /\ Unlock(j)
    /\ Retry(j, Troubled(j))
    /\ UNCHANGED upstream

\* The activity's timeout, or gitNetworkTimeout: the process group is killed,
\* and what is on disk stays.
Killed(j) ==
    /\ job[j].pc \in {"stat", "clone", "cloning", "fetch", "fetching"}
    /\ Fault
    /\ Unlock(j)
    /\ Retry(j, Troubled(j))
    /\ UNCHANGED <<upstream, cache>>

\* Waiting for the lock lasts longer than the activity may.
LockTimeout(j) ==
    /\ At(j, "lock")
    /\ lock[RepoUrl(j)] # None
    /\ Fault
    /\ Retry(j, Troubled(j))
    /\ UNCHANGED <<upstream, cache, lock>>

-----------------------------------------------------------------------------
(* GetCommitDetails: one attempt, no lock; on an error the next repository. *)

Readable(d, c) == HasHead(d) /\ c \in objects[d]

\* Mutant: the first repository that could be cloned is taken for the one
\* that has the commit.
ReadFound_First(j) ==
    /\ At(j, "read")
    /\ Move(j, [job[j] EXCEPT !.pc = "done", !.found = RepoUrl(j)])
    /\ UNCHANGED <<upstream, cache, lock, faults>>

ReadFound(j) ==
    /\ At(j, "read")
    /\ Readable(Path(j), CommitSha[j])
    /\ Move(j, [job[j] EXCEPT !.pc = "done", !.found = RepoUrl(j)])
    /\ UNCHANGED <<upstream, cache, lock, faults>>

ReadMissing(j) ==
    /\ At(j, "read")
    /\ ~Readable(Path(j), CommitSha[j])
    /\ TryNext(j, job[j])
    /\ UNCHANGED <<upstream, cache, lock, faults>>

ReadFails(j) ==
    /\ At(j, "read")
    /\ Fault
    /\ TryNext(j, Troubled(j))
    /\ UNCHANGED <<upstream, cache, lock>>

\* The lookup is to be repeated: an operator has all versions indexed again, or
\* another version has the same commit.  A version whose commit was not found is
\* stored as enriched, and no schedule takes it up again.
Again(j) ==
    /\ At(j, "done")
    /\ Move(j, Idle)
    /\ UNCHANGED <<upstream, cache, lock, faults>>

Works(j) == \/ Stat(j)
            \/ CloneRefused(j) \/ CloneMkdir(j) \/ CloneInit(j)
            \/ FetchRefused(j) \/ FetchBegin(j) \/ Receive(j)
            \/ ReadFound(j) \/ ReadMissing(j)

Fails(j) == NetworkError(j) \/ Killed(j) \/ LockTimeout(j) \/ ReadFails(j)

Next == \/ \E d \in Dir, c \in Commit : Push(d, c)
        \/ \E j \in Job : Start(j) \/ Lock(j) \/ Works(j) \/ Fails(j) \/ Again(j)

Spec == Init /\ [][Next]_vars

\* git and the worker make progress with an enrichment that has begun; none has to
\* begin, or to be repeated.  A mutex is not fair by itself, but Go's hands over to a
\* waiter that has starved for a millisecond.
FairSpec == Spec /\ \A j \in Job : WF_vars(Works(j)) /\ SF_vars(Lock(j))

-----------------------------------------------------------------------------
(* Properties. *)

\* A directory no clone or fetch gets past: a kill left it without HEAD or
\* without origin, and nobody is at work in it.
Working(d) == \E j \in Job : Path(j) = d /\ At(j, "cloning")
Poisoned(d) == disk[d] \in {"debris", "head"} /\ ~Working(d)

\* error_commit_not_found, which is stored for good, is the truth: the commit
\* had not been pushed when the enrichment began - or a fault hit this very
\* enrichment, or a killed clone had poisoned a directory, or another worked in
\* the same one under another spelling of its URL.
NotFoundExplained == \A j \in Job :
    At(j, "done") /\ job[j].found = None /\ ~job[j].trouble /\ ~job[j].crowded =>
        \A i \in DOMAIN ReposToTry[j] :
            LET d == RepoPath[ReposToTry[j][i]]
            IN  d \in job[j].before => Poisoned(d)

\* The repository that is recorded has the commit, and none before it in the
\* list had it when the enrichment began, unless it was unreachable then.
FirstThatHasIt == \A j \in Job :
    At(j, "done") /\ job[j].found # None =>
        /\ CommitSha[j] \in upstream[RepoPath[job[j].found]]
        /\ ~job[j].trouble /\ ~job[j].crowded => \A i \in 1..(job[j].i - 1) :
              LET d == RepoPath[ReposToTry[j][i]]
              IN  d \in job[j].before => Poisoned(d)

\* What a bare clone has been given stays: a reader without a lock never sees
\* a commit disappear under a fetch.  (Under a clone it may: one that fails
\* removes what a fetch under another spelling has brought meanwhile.)
CommitsStay == [][\A d \in Dir : disk[d] = "whole" /\ ~Working(d) =>
                    disk'[d] = "whole" /\ objects[d] \subseteq objects'[d]]_vars

\* Once a commit has been pushed, whoever looks it up again and again finds it,
\* although clones are interrupted and repeated and URLs have two spellings, unless a
\* directory is poisoned.  That it is looked up again is a hypothesis: no schedule
\* does that, an operator may (see Again).
Recovers == \A j \in Job : []<><<Start(j)>>_vars =>
    (\E i \in DOMAIN ReposToTry[j] : CommitSha[j] \in upstream[RepoPath[ReposToTry[j][i]]])
        ~> \/ At(j, "done") /\ job[j].found # None
           \/ \E d \in Dir : Poisoned(d)

\* Every enrichment ends, whatever is killed while it holds or awaits a lock.
Ends == \A j \in Job : At(j, "lock") ~> At(j, "done")
=============================================================================
