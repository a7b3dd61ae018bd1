--------------------------- MODULE GitCacheProofs ---------------------------
(***************************************************************************)
(* Theorems about GitCache, for any URLs, directories, commits, jobs and   *)
(* lists of repositories, any number of attempts and of faults.            *)
(***************************************************************************)
EXTENDS GitCache, TLAPS

-----------------------------------------------------------------------------
(* The inductive invariant. *)

\* The steps of EnsureCloned that run under the lock.
Holding  == {"stat", "clone", "cloning", "fetch", "fetching"}
Holds(j) == job[j].pc \in Holding

InList == \A j \in Job : job[j].i \in 1..Len(ReposToTry[j])

\* The lock of a URL is held by the job that is at work under it, and no other.
Locked == /\ \A j \in Job : Holds(j) => lock[RepoUrl(j)] = j
          /\ \A u \in Url, j \in Job : lock[u] = j => Holds(j) /\ RepoUrl(j) = u

\* Two that are at work in one directory know it from their flags.
Crowds == \A j, k \in Job :
    j # k /\ Holds(j) /\ Holds(k) /\ Path(j) = Path(k) => job[j].crowded

\* A clone has nothing its remote had not.
Brought == \A d \in Dir : objects[d] \subseteq upstream[d]

Knows(j) ==
    /\ \A d \in job[j].before : CommitSha[j] \in upstream[d]
    /\ job[j].pc \in {"cloning", "fetching"} =>
          /\ job[j].sees \subseteq upstream[Path(j)]
          /\ Path(j) \in job[j].before => CommitSha[j] \in job[j].sees
    /\ job[j].found # None => /\ At(j, "done")
                              /\ CommitSha[j] \in upstream[RepoPath[job[j].found]]

\* Alone in its directory, a job finds it as it left it; a clone it has
\* completed nobody removes.
Stage(j) == ~job[j].crowded =>
    /\ At(j, "clone") => disk[Path(j)] \in {"absent", "debris"}
    /\ At(j, "fetch") => disk[Path(j)] \in {"head", "origin", "whole"}
    /\ At(j, "fetching") => disk[Path(j)] \in {"origin", "whole"}
    /\ At(j, "read") => /\ disk[Path(j)] = "whole"
                        /\ ~Working(Path(j))
                        /\ Path(j) \in job[j].before => CommitSha[j] \in objects[Path(j)]

\* The repositories a job has done with.
Tried(j) == IF At(j, "done") /\ job[j].found = None
            THEN 1..Len(ReposToTry[j]) ELSE 1..(job[j].i - 1)

Skips(j) == ~job[j].trouble /\ ~job[j].crowded => \A i \in Tried(j) :
    RepoPath[ReposToTry[j][i]] \in job[j].before => Poisoned(RepoPath[ReposToTry[j][i]])

IInv == /\ TypeOK
        /\ InList
        /\ Locked
        /\ Crowds
        /\ Brought
        /\ \A j \in Job : Knows(j) /\ Stage(j) /\ Skips(j)

-----------------------------------------------------------------------------
(* Types of the helpers, and what a move of one job leaves alone. *)

LEMMA PathTyped ==
  ASSUME TypeOK, InList, NEW j \in Job
  PROVE  /\ Len(ReposToTry[j]) \in Nat
         /\ Len(ReposToTry[j]) # 0
         /\ \A i \in 1..Len(ReposToTry[j]) : /\ ReposToTry[j][i] \in Url
                                             /\ RepoPath[ReposToTry[j][i]] \in Dir
         /\ RepoUrl(j) \in Url
         /\ Path(j) \in Dir
  <1>1. ReposToTry[j] \in Seq(Url) /\ ReposToTry[j] # <<>>
    BY CacheAssumption
  <1>2. \A i \in 1..Len(ReposToTry[j]) : /\ ReposToTry[j][i] \in Url
                                         /\ RepoPath[ReposToTry[j][i]] \in Dir
    BY <1>1, CacheAssumption
  <1>3. job[j].i \in 1..Len(ReposToTry[j])
    BY DEF InList
  <1> QED BY <1>1, <1>2, <1>3 DEF RepoUrl, Path

LEMMA IdleTyped == Idle \in Local
  <1>1. 1 \in 1..MaxAttempts /\ 1 \in Nat \ {0}
    BY CacheAssumption
  <1> QED BY <1>1 DEF Idle, Local, Step

\* Every job but j is as it was.
Only(j) == /\ job' \in [Job -> Local]
           /\ \A k \in Job : k # j => job'[k] = job[k]

LEMMA MoveEffect ==
  ASSUME TypeOK, NEW j \in Job, NEW l \in Local, Move(j, l)
  PROVE  Only(j) /\ job'[j] = l
  BY DEF TypeOK, Move, Only

LEMMA GotoEffect ==
  ASSUME TypeOK, NEW j \in Job, NEW step \in Step, Goto(j, step)
  PROVE  /\ Only(j)
         /\ job'[j].pc = step
         /\ job'[j].i = job[j].i
         /\ job'[j].sees = job[j].sees
         /\ job'[j].found = job[j].found
         /\ job'[j].trouble = job[j].trouble
         /\ job'[j].crowded = job[j].crowded
         /\ job'[j].before = job[j].before
  <1> DEFINE n == [job[j] EXCEPT !.pc = step]
  <1>1. job[j] \in Local
    BY DEF TypeOK
  <1>2. /\ n \in Local /\ n.pc = step
        /\ n.i = job[j].i /\ n.sees = job[j].sees /\ n.found = job[j].found
        /\ n.trouble = job[j].trouble /\ n.crowded = job[j].crowded
        /\ n.before = job[j].before
    BY <1>1 DEF Local
  <1>3. Move(j, n)
    BY DEF Goto, Move
  <1> HIDE DEF n
  <1> QED BY <1>2, <1>3, MoveEffect

\* A job that is through with a repository, or tries it once more.
Leaves(j, l) ==
    /\ Only(j)
    /\ job'[j].found = l.found
    /\ job'[j].trouble = l.trouble
    /\ job'[j].crowded = l.crowded
    /\ job'[j].before = l.before
    /\ \/ job'[j].pc = "lock" /\ job'[j].i = l.i
       \/ job'[j].pc = "lock" /\ job'[j].i = l.i + 1 /\ l.i < Len(ReposToTry[j])
       \/ job'[j].pc = "done" /\ job'[j].i = l.i /\ ~(l.i < Len(ReposToTry[j]))

LEMMA TryNextLeaves ==
  ASSUME TypeOK, NEW j \in Job, NEW l \in Local, TryNext(j, l)
  PROVE  Leaves(j, l)
  <1>1. CASE l.i < Len(ReposToTry[j])
    <2> DEFINE n == [l EXCEPT !.pc = "lock", !.i = @ + 1, !.attempt = 1]
    <2>1. l.i + 1 \in Nat \ {0} /\ 1 \in 1..MaxAttempts
      BY CacheAssumption DEF Local
    <2>2. /\ n \in Local /\ n.pc = "lock" /\ n.i = l.i + 1 /\ n.found = l.found
          /\ n.trouble = l.trouble /\ n.crowded = l.crowded /\ n.before = l.before
      BY <2>1 DEF Local, Step
    <2>3. Move(j, n)
      BY <1>1 DEF TryNext
    <2> HIDE DEF n
    <2> QED BY <1>1, <2>2, <2>3, MoveEffect DEF Leaves
  <1>2. CASE ~(l.i < Len(ReposToTry[j]))
    <2> DEFINE n == [l EXCEPT !.pc = "done"]
    <2>1. /\ n \in Local /\ n.pc = "done" /\ n.i = l.i /\ n.found = l.found
          /\ n.trouble = l.trouble /\ n.crowded = l.crowded /\ n.before = l.before
      BY DEF Local, Step
    <2>2. Move(j, n)
      BY <1>2 DEF TryNext
    <2> HIDE DEF n
    <2> QED BY <1>2, <2>1, <2>2, MoveEffect DEF Leaves
  <1> QED BY <1>1, <1>2

LEMMA RetryLeaves ==
  ASSUME TypeOK, NEW j \in Job, NEW l \in Local, Retry(j, l)
  PROVE  Leaves(j, l)
  <1>1. CASE l.attempt < MaxAttempts
    <2> DEFINE n == [l EXCEPT !.pc = "lock", !.attempt = @ + 1]
    <2>1. l.attempt + 1 \in 1..MaxAttempts
      BY <1>1, CacheAssumption DEF Local
    <2>2. /\ n \in Local /\ n.pc = "lock" /\ n.i = l.i /\ n.found = l.found
          /\ n.trouble = l.trouble /\ n.crowded = l.crowded /\ n.before = l.before
      BY <2>1 DEF Local, Step
    <2>3. Move(j, n)
      BY <1>1 DEF Retry
    <2> HIDE DEF n
    <2> QED BY <2>2, <2>3, MoveEffect DEF Leaves
  <1>2. CASE ~(l.attempt < MaxAttempts)
    BY <1>2, TryNextLeaves DEF Retry
  <1> QED BY <1>1, <1>2

LEMMA TroubledTyped ==
  ASSUME TypeOK, NEW j \in Job
  PROVE  /\ Troubled(j) \in Local
         /\ Troubled(j).trouble = TRUE
         /\ Troubled(j).i = job[j].i
         /\ Troubled(j).found = job[j].found
         /\ Troubled(j).crowded = job[j].crowded
         /\ Troubled(j).before = job[j].before
  BY DEF TypeOK, Troubled, Local

-----------------------------------------------------------------------------
(* What no step undoes: a completed clone nobody is cloning into, and a    *)
(* poisoned directory.                                                     *)

Whole(d) == disk[d] = "whole" /\ ~Working(d)

Steady(d) == /\ Whole(d) => Whole(d)' /\ objects[d] \subseteq objects'[d]
             /\ Poisoned(d) => Poisoned(d)'

\* A job begins to clone only where there is nothing.
LEMMA NobodyBegins ==
  ASSUME NEW j \in Job, Only(j), NEW d \in Dir, ~Working(d),
         job'[j].pc = "cloning" /\ Path(j)' = d => Working(d)
  PROVE  ~Working(d)'
  <1> SUFFICES ASSUME NEW k \in Job, Path(k)' = d, At(k, "cloning")' PROVE FALSE
    BY DEF Working
  <1>1. CASE k = j
    BY <1>1 DEF At
  <1>2. CASE k # j
    <2>1. Path(k) = d /\ At(k, "cloning")
      BY <1>2 DEF Only, Path, RepoUrl, At
    <2> QED BY <2>1 DEF Working
  <1> QED BY <1>1, <1>2

LEMMA CacheKeptSteady ==
  ASSUME NEW j \in Job, Only(j), UNCHANGED cache,
         job'[j].pc = "cloning" => At(j, "cloning") /\ job'[j].i = job[j].i
  PROVE  \A d \in Dir : Steady(d)
  <1> SUFFICES ASSUME NEW d \in Dir PROVE Steady(d)
    OBVIOUS
  <1>1. job'[j].pc = "cloning" /\ Path(j)' = d => Working(d)
    BY DEF Working, Path, RepoUrl
  <1>2. ~Working(d) => ~Working(d)'
    BY <1>1, NobodyBegins
  <1> QED BY <1>2 DEF Steady, Whole, Poisoned, cache

\* A step at work in one directory: there it clones, or completes.
LEMMA CacheStepSteady ==
  ASSUME NEW j \in Job, Only(j), NEW e \in Dir,
         \A d \in Dir : d # e => disk'[d] = disk[d] /\ objects'[d] = objects[d],
         job'[j].pc = "cloning" => Path(j)' = e,
         \/ Working(e)
         \/ disk[e] = "absent"
         \/ /\ disk[e] \in {"origin", "whole"}
            /\ disk'[e] = "whole"
            /\ objects[e] \subseteq objects'[e]
            /\ job'[j].pc # "cloning"
  PROVE  \A d \in Dir : Steady(d)
  <1> SUFFICES ASSUME NEW d \in Dir PROVE Steady(d)
    OBVIOUS
  <1>1. CASE d # e
    <2>1. ~Working(d) => ~Working(d)'
      BY <1>1, NobodyBegins
    <2> QED BY <1>1, <2>1 DEF Steady, Whole, Poisoned
  <1>2. CASE d = e
    <2>1. CASE Working(e) \/ disk[e] = "absent"
      BY <1>2, <2>1 DEF Steady, Whole, Poisoned
    <2>2. CASE /\ disk[e] \in {"origin", "whole"}
               /\ disk'[e] = "whole"
               /\ objects[e] \subseteq objects'[e]
               /\ job'[j].pc # "cloning"
      <3>1. ~Working(d) => ~Working(d)'
        BY <2>2, NobodyBegins
      <3> QED BY <1>2, <2>2, <3>1 DEF Steady, Whole, Poisoned
    <2> QED BY <2>1, <2>2
  <1> QED BY <1>1, <1>2

-----------------------------------------------------------------------------
(* One step of one job under the lock it holds, or without one.            *)

\* The lock is held on, or given back.
LockStep(j) ==
    \/ /\ UNCHANGED lock
       /\ Holds(j)' <=> Holds(j)
       /\ Holds(j) => job'[j].i = job[j].i
    \/ Unlock(j) /\ Holds(j) /\ ~Holds(j)'

LEMMA LockedKept ==
  ASSUME IInv, NEW j \in Job, Only(j), LockStep(j)
  PROVE  Locked' /\ lock' \in [Url -> Job \cup {None}]
  <1>1. \A k \in Job : RepoUrl(k) \in Url
    BY PathTyped DEF IInv
  <1>2. \A k \in Job : k # j => /\ RepoUrl(k)' = RepoUrl(k)
                                /\ Holds(k)' <=> Holds(k)
    BY DEF Only, RepoUrl, Holds
  <1>3. None \notin Job /\ lock \in [Url -> Job \cup {None}]
    BY CacheAssumption DEF IInv, TypeOK
  <1>4. CASE UNCHANGED lock /\ (Holds(j)' <=> Holds(j)) /\ (Holds(j) => job'[j].i = job[j].i)
    <2>1. Holds(j) => RepoUrl(j)' = RepoUrl(j)
      BY <1>4 DEF RepoUrl
    <2>2. \A k \in Job : Holds(k)' => lock'[RepoUrl(k)'] = k
      BY <1>2, <1>4, <2>1 DEF IInv, Locked
    <2>3. ASSUME NEW u \in Url, NEW k \in Job, lock'[u] = k
          PROVE  Holds(k)' /\ RepoUrl(k)' = u
      <3>1. Holds(k) /\ RepoUrl(k) = u
        BY <1>4, <2>3 DEF IInv, Locked
      <3> QED BY <1>2, <1>4, <2>1, <3>1
    <2> QED BY <1>3, <1>4, <2>2, <2>3 DEF Locked
  <1>5. CASE Unlock(j) /\ Holds(j) /\ ~Holds(j)'
    <2>1. /\ lock'[RepoUrl(j)] = None
          /\ \A u \in Url : u # RepoUrl(j) => lock'[u] = lock[u]
          /\ lock' \in [Url -> Job \cup {None}]
      BY <1>1, <1>3, <1>5 DEF Unlock
    <2>2. ASSUME NEW k \in Job, Holds(k)' PROVE lock'[RepoUrl(k)'] = k
      <3>1. k # j /\ Holds(k) /\ RepoUrl(k)' = RepoUrl(k)
        BY <1>2, <1>5, <2>2
      <3>2. lock[RepoUrl(k)] = k /\ lock[RepoUrl(j)] = j
        BY <1>5, <3>1 DEF IInv, Locked
      <3> QED BY <1>1, <2>1, <3>1, <3>2
    <2>3. ASSUME NEW u \in Url, NEW k \in Job, lock'[u] = k
          PROVE  Holds(k)' /\ RepoUrl(k)' = u
      <3>1. u # RepoUrl(j) /\ lock[u] = k
        BY <1>3, <2>1, <2>3
      <3>2. Holds(k) /\ RepoUrl(k) = u
        BY <3>1 DEF IInv, Locked
      <3> QED BY <1>2, <3>1, <3>2
    <2> QED BY <2>1, <2>2, <2>3 DEF Locked
  <1> QED BY <1>4, <1>5 DEF LockStep

\* A job that has done with no more repositories than before.
LEMMA SkipsKept ==
  ASSUME IInv, NEW j \in Job, \A d \in Dir : Steady(d),
         Tried(j)' = Tried(j),
         job'[j].before = job[j].before,
         ~job'[j].trouble /\ ~job'[j].crowded => ~job[j].trouble /\ ~job[j].crowded
  PROVE  Skips(j)'
  <1>1. Tried(j) \subseteq 1..Len(ReposToTry[j])
    BY PathTyped DEF IInv, Tried, InList
  <1>2. \A i \in Tried(j) : Poisoned(RepoPath[ReposToTry[j][i]])
                              => Poisoned(RepoPath[ReposToTry[j][i]])'
    BY <1>1, PathTyped DEF IInv, Steady
  <1> QED BY <1>2 DEF IInv, Skips

\* Nobody else is touched: what holds of another job goes on holding.
LEMMA OthersKept ==
  ASSUME IInv, NEW j \in Job, Only(j), UNCHANGED upstream,
         \A d \in Dir : \/ d = Path(j) /\ Holds(j)
                        \/ disk'[d] = disk[d] /\ objects'[d] = objects[d],
         \A d \in Dir : Steady(d),
         NEW k \in Job, k # j
  PROVE  Knows(k)' /\ Stage(k)' /\ Skips(k)'
  <1>1. /\ job'[k] = job[k] /\ Path(k)' = Path(k) /\ Path(k) \in Dir
        /\ RepoUrl(k)' = RepoUrl(k)
    BY PathTyped DEF IInv, Only, Path, RepoUrl
  <1>2. \A step \in Step : At(k, step)' <=> At(k, step)
    BY <1>1 DEF At
  <1>3. Knows(k)'
    BY <1>1 DEF IInv, Knows, At
  <1>4. Stage(k)'
    <2> SUFFICES ASSUME ~job[k].crowded PROVE Stage(k)'
      BY <1>1 DEF Stage
    <2>1. Holds(k) => disk'[Path(k)] = disk[Path(k)]
      BY <1>1 DEF IInv, Crowds
    <2>2. Whole(Path(k)) => Whole(Path(k))' /\ objects[Path(k)] \subseteq objects'[Path(k)]
      BY <1>1 DEF Steady
    <2>3. At(k, "clone")' => disk'[Path(k)'] \in {"absent", "debris"}
      BY <1>1, <2>1 DEF IInv, Stage, At, Holds, Holding
    <2>4. At(k, "fetch")' => disk'[Path(k)'] \in {"head", "origin", "whole"}
      BY <1>1, <2>1 DEF IInv, Stage, At, Holds, Holding
    <2>5. At(k, "fetching")' => disk'[Path(k)'] \in {"origin", "whole"}
      BY <1>1, <2>1 DEF IInv, Stage, At, Holds, Holding
    <2>6. At(k, "read")' => Whole(Path(k)) /\ (Path(k) \in job[k].before
                                                 => CommitSha[k] \in objects[Path(k)])
      BY <1>1 DEF IInv, Stage, At, Whole
    <2>7. Whole(Path(k))' => disk'[Path(k)'] = "whole" /\ ~Working(Path(k))'
      BY <1>1 DEF Whole
    <2> QED BY <1>1, <2>2, <2>3, <2>4, <2>5, <2>6, <2>7 DEF Stage
  <1>5. Skips(k)'
    <2>1. Tried(k)' = Tried(k)
      BY <1>1 DEF Tried, At
    <2> QED BY <1>1, <2>1, SkipsKept
  <1> QED BY <1>3, <1>4, <1>5

LEMMA StepInv ==
  ASSUME IInv, NEW j \in Job, Only(j), UNCHANGED upstream, LockStep(j),
         faults' \in 0..MaxFaults,
         disk' \in [Dir -> Disk],
         objects' \in [Dir -> SUBSET Commit],
         \A d \in Dir : \/ d = Path(j) /\ Holds(j)
                        \/ disk'[d] = disk[d] /\ objects'[d] = objects[d],
         \A d \in Dir : objects'[d] \subseteq upstream[d],
         \A d \in Dir : Steady(d),
         job'[j].i \in 1..Len(ReposToTry[j]),
         Holds(j)' /\ job[j].crowded => job'[j].crowded,
         Knows(j)', Stage(j)', Skips(j)'
  PROVE  IInv'
  <1>1. Locked' /\ lock' \in [Url -> Job \cup {None}]
    BY LockedKept
  <1>2. TypeOK'
    BY <1>1 DEF IInv, TypeOK, Only
  <1>3. InList'
    BY DEF IInv, InList, Only
  <1>4. Crowds'
    <2>1. Holds(j)' => Holds(j) /\ Path(j)' = Path(j)
      BY DEF LockStep, Path, RepoUrl
    <2>2. \A k \in Job : k # j => /\ job'[k] = job[k]
                                  /\ Path(k)' = Path(k)
                                  /\ Holds(k)' <=> Holds(k)
      BY DEF Only, Path, RepoUrl, Holds
    <2> QED BY <2>1, <2>2 DEF IInv, Crowds
  <1>5. Brought'
    BY DEF Brought
  <1>6. \A k \in Job : Knows(k)' /\ Stage(k)' /\ Skips(k)'
    BY OthersKept
  <1> QED BY <1>1, <1>2, <1>3, <1>4, <1>5, <1>6 DEF IInv

-----------------------------------------------------------------------------
(* The actions that end an attempt. *)

\* What a job goes on with is what it had, but for the trouble it met.
Carries(j, l) == /\ l \in Local
                 /\ l.i = job[j].i
                 /\ l.found = job[j].found
                 /\ l.crowded = job[j].crowded
                 /\ l.before = job[j].before
                 /\ job[j].trouble => l.trouble

\* An untroubled job that was alone gives a repository up only when it did
\* not have the commit at the beginning, or is poisoned.
LEMMA LeaveInv ==
  ASSUME IInv, NEW j \in Job, NEW l, Carries(j, l), Leaves(j, l),
         ~At(j, "done"), UNCHANGED upstream,
         \/ Unlock(j) /\ Holds(j)
         \/ UNCHANGED lock /\ ~Holds(j),
         faults' \in 0..MaxFaults,
         disk' \in [Dir -> Disk],
         objects' \in [Dir -> SUBSET Commit],
         \A d \in Dir : \/ d = Path(j) /\ Holds(j)
                        \/ disk'[d] = disk[d] /\ objects'[d] = objects[d],
         \A d \in Dir : objects'[d] \subseteq upstream[d],
         \A d \in Dir : Steady(d),
         ~l.trouble /\ ~l.crowded /\ Path(j) \in job[j].before => Poisoned(Path(j))
  PROVE  IInv'
  <1>1. /\ Only(j) /\ job'[j].pc \in {"lock", "done"}
        /\ job'[j].found = job[j].found /\ job'[j].before = job[j].before
        /\ job'[j].crowded = job[j].crowded /\ job'[j].trouble = l.trouble
    BY DEF Leaves, Carries
  <1>2. job[j].found = None
    BY DEF IInv, Knows
  <1>3. ~Holds(j)'
    BY <1>1 DEF Holds, Holding
  <1>4. LockStep(j)
    BY <1>3 DEF LockStep
  <1>5. Len(ReposToTry[j]) \in Nat /\ job[j].i \in 1..Len(ReposToTry[j])
    BY PathTyped DEF IInv, InList
  <1>6. job'[j].i \in 1..Len(ReposToTry[j])
    BY <1>5 DEF Leaves, Carries
  <1>7. Knows(j)'
    BY <1>1, <1>2 DEF IInv, Knows, At
  <1>8. Stage(j)'
    BY <1>1 DEF Stage, At
  <1>9. Skips(j)'
    <2>1. Tried(j)' \subseteq Tried(j) \cup {job[j].i}
      BY <1>1, <1>2, <1>5 DEF Leaves, Carries, Tried, At
    <2>2. Tried(j) \subseteq 1..Len(ReposToTry[j])
      BY <1>5 DEF Tried
    <2>3. SUFFICES ASSUME ~l.trouble, ~job[j].crowded, NEW i \in Tried(j)',
                          RepoPath[ReposToTry[j][i]] \in job[j].before
                   PROVE  Poisoned(RepoPath[ReposToTry[j][i]])'
      BY <1>1 DEF Skips
    <2>4. i \in 1..Len(ReposToTry[j])
      BY <1>5, <2>1, <2>2
    <2>5. Poisoned(RepoPath[ReposToTry[j][i]])
      <3>1. CASE i \in Tried(j)
        BY <2>3, <3>1 DEF IInv, Skips, Carries
      <3>2. CASE i = job[j].i
        BY <2>3, <3>2 DEF Carries, Path, RepoUrl
      <3> QED BY <2>1, <3>1, <3>2
    <2>6. RepoPath[ReposToTry[j][i]] \in Dir
      BY <2>4, PathTyped DEF IInv
    <2> QED BY <2>5, <2>6 DEF Steady
  <1> QED BY <1>1, <1>3, <1>4, <1>6, <1>7, <1>8, <1>9, StepInv

LEMMA CarriesSelf ==
  ASSUME TypeOK, NEW j \in Job
  PROVE  Carries(j, job[j]) /\ Carries(j, Troubled(j))
  BY TroubledTyped DEF TypeOK, Carries

\* The same when the step leaves the directories alone.
LEMMA LeaveQuietly ==
  ASSUME IInv, NEW j \in Job, NEW l, Carries(j, l), Leaves(j, l),
         ~At(j, "done"), UNCHANGED <<upstream, cache>>,
         \/ Unlock(j) /\ Holds(j)
         \/ UNCHANGED lock /\ ~Holds(j),
         faults' \in 0..MaxFaults,
         ~l.trouble /\ ~l.crowded /\ Path(j) \in job[j].before => Poisoned(Path(j))
  PROVE  IInv' /\ \A d \in Dir : Steady(d)
  <1>1. Only(j) /\ job'[j].pc # "cloning"
    BY DEF Leaves
  <1>2. \A d \in Dir : Steady(d)
    BY <1>1, CacheKeptSteady
  <1>3. /\ disk' \in [Dir -> Disk]
        /\ objects' \in [Dir -> SUBSET Commit]
        /\ \A d \in Dir : disk'[d] = disk[d] /\ objects'[d] = objects[d]
        /\ \A d \in Dir : objects'[d] \subseteq upstream[d]
    BY DEF IInv, TypeOK, Brought, cache
  <1> QED BY <1>2, <1>3, LeaveInv

LEMMA FaultTyped ==
  ASSUME TypeOK, Fault
  PROVE  faults' \in 0..MaxFaults
  BY CacheAssumption DEF TypeOK, Fault

LEMMA CloneRefusedInv ==
  ASSUME IInv, NEW j \in Job, CloneRefused(j)
  PROVE  IInv' /\ \A d \in Dir : Steady(d)
  <1>1. /\ At(j, "clone") /\ Holds(j) /\ ~At(j, "done") /\ Unlock(j)
        /\ disk[Path(j)] # "absent" /\ UNCHANGED <<upstream, cache, faults>>
    BY DEF CloneRefused, At, Holds, Holding
  <1>2. Carries(j, job[j]) /\ Leaves(j, job[j])
    BY CarriesSelf, RetryLeaves DEF IInv, TypeOK, CloneRefused
  <1>3. ASSUME ~job[j].crowded PROVE Poisoned(Path(j))
    <2>1. disk[Path(j)] = "debris"
      BY <1>1, <1>3 DEF IInv, Stage
    <2>2. ASSUME NEW k \in Job, Path(k) = Path(j), At(k, "cloning") PROVE FALSE
      BY <1>1, <1>3, <2>2 DEF IInv, Crowds, At, Holds, Holding
    <2> QED BY <2>1, <2>2 DEF Poisoned, Working
  <1> QED BY <1>1, <1>2, <1>3, LeaveQuietly DEF IInv, TypeOK

LEMMA FetchRefusedInv ==
  ASSUME IInv, NEW j \in Job, FetchRefused(j)
  PROVE  IInv' /\ \A d \in Dir : Steady(d)
  <1>1. /\ At(j, "fetch") \/ At(j, "fetching")
        /\ Holds(j) /\ ~At(j, "done") /\ Unlock(j)
        /\ disk[Path(j)] \notin {"origin", "whole"} /\ UNCHANGED <<upstream, cache, faults>>
    BY DEF FetchRefused, At, Holds, Holding
  <1>2. Carries(j, job[j]) /\ Leaves(j, job[j])
    BY CarriesSelf, RetryLeaves DEF IInv, TypeOK, FetchRefused
  <1>3. ASSUME ~job[j].crowded PROVE Poisoned(Path(j))
    <2>1. disk[Path(j)] = "head"
      BY <1>1, <1>3 DEF IInv, Stage
    <2>2. ASSUME NEW k \in Job, Path(k) = Path(j), At(k, "cloning") PROVE FALSE
      BY <1>1, <1>3, <2>2 DEF IInv, Crowds, At, Holds, Holding
    <2> QED BY <2>1, <2>2 DEF Poisoned, Working
  <1> QED BY <1>1, <1>2, <1>3, LeaveQuietly DEF IInv, TypeOK

LEMMA KilledInv ==
  ASSUME IInv, NEW j \in Job, Killed(j)
  PROVE  IInv' /\ \A d \in Dir : Steady(d)
  <1>1. /\ Holds(j) /\ ~At(j, "done") /\ Unlock(j) /\ UNCHANGED <<upstream, cache>>
        /\ faults' \in 0..MaxFaults
    BY FaultTyped DEF IInv, Killed, At, Holds, Holding
  <1>2. Carries(j, Troubled(j)) /\ Leaves(j, Troubled(j)) /\ Troubled(j).trouble
    BY CarriesSelf, TroubledTyped, RetryLeaves DEF IInv, Killed
  <1> QED BY <1>1, <1>2, LeaveQuietly

LEMMA LockTimeoutInv ==
  ASSUME IInv, NEW j \in Job, LockTimeout(j)
  PROVE  IInv' /\ \A d \in Dir : Steady(d)
  <1>1. /\ ~Holds(j) /\ ~At(j, "done") /\ UNCHANGED <<upstream, cache, lock>>
        /\ faults' \in 0..MaxFaults
    BY FaultTyped DEF IInv, LockTimeout, At, Holds, Holding
  <1>2. Carries(j, Troubled(j)) /\ Leaves(j, Troubled(j)) /\ Troubled(j).trouble
    BY CarriesSelf, TroubledTyped, RetryLeaves DEF IInv, LockTimeout
  <1> QED BY <1>1, <1>2, LeaveQuietly

LEMMA ReadFailsInv ==
  ASSUME IInv, NEW j \in Job, ReadFails(j)
  PROVE  IInv' /\ \A d \in Dir : Steady(d)
  <1>1. /\ ~Holds(j) /\ ~At(j, "done") /\ UNCHANGED <<upstream, cache, lock>>
        /\ faults' \in 0..MaxFaults
    BY FaultTyped DEF IInv, ReadFails, At, Holds, Holding
  <1>2. Carries(j, Troubled(j)) /\ Leaves(j, Troubled(j)) /\ Troubled(j).trouble
    BY CarriesSelf, TroubledTyped, TryNextLeaves DEF IInv, ReadFails
  <1> QED BY <1>1, <1>2, LeaveQuietly

LEMMA ReadMissingInv ==
  ASSUME IInv, NEW j \in Job, ReadMissing(j)
  PROVE  IInv' /\ \A d \in Dir : Steady(d)
  <1>1. /\ At(j, "read") /\ ~Holds(j) /\ ~At(j, "done")
        /\ UNCHANGED <<upstream, cache, lock, faults>>
    BY DEF ReadMissing, At, Holds, Holding
  <1>2. Carries(j, job[j]) /\ Leaves(j, job[j])
    BY CarriesSelf, TryNextLeaves DEF IInv, TypeOK, ReadMissing
  <1>3. ASSUME ~job[j].crowded PROVE Path(j) \notin job[j].before
    BY <1>1, <1>3 DEF IInv, Stage, ReadMissing, Readable, HasHead
  <1> QED BY <1>1, <1>2, <1>3, LeaveQuietly DEF IInv, TypeOK

LEMMA NetworkErrorInv ==
  ASSUME IInv, NEW j \in Job, NetworkError(j)
  PROVE  IInv' /\ \A d \in Dir : Steady(d)
  <1>1. /\ Holds(j) /\ ~At(j, "done") /\ Unlock(j) /\ UNCHANGED upstream
        /\ faults' \in 0..MaxFaults
    BY FaultTyped DEF IInv, NetworkError, At, Holds, Holding
  <1>2. Carries(j, Troubled(j)) /\ Leaves(j, Troubled(j)) /\ Troubled(j).trouble
    BY CarriesSelf, TroubledTyped, RetryLeaves DEF IInv, NetworkError
  <1>3. CASE UNCHANGED cache
    BY <1>1, <1>2, <1>3, LeaveQuietly
  <1>4. CASE /\ At(j, "cloning")
             /\ disk' = [disk EXCEPT ![Path(j)] = "absent"]
             /\ objects' = [objects EXCEPT ![Path(j)] = {}]
    <2>1. Path(j) \in Dir /\ Working(Path(j))
      BY <1>4, PathTyped DEF IInv, Working
    <2>2. /\ disk' \in [Dir -> Disk]
          /\ objects' \in [Dir -> SUBSET Commit]
          /\ \A d \in Dir : d # Path(j) => disk'[d] = disk[d] /\ objects'[d] = objects[d]
          /\ \A d \in Dir : objects'[d] \subseteq upstream[d]
      BY <1>4, <2>1 DEF IInv, TypeOK, Brought, Disk
    <2>3. Only(j) /\ job'[j].pc # "cloning"
      BY <1>2 DEF Leaves
    <2>4. \A d \in Dir : Steady(d)
      BY <2>1, <2>2, <2>3, CacheStepSteady
    <2> QED BY <1>1, <1>2, <2>2, <2>4, LeaveInv
  <1> QED BY <1>3, <1>4 DEF NetworkError

-----------------------------------------------------------------------------
(* The actions that go on. *)

\* A step that leaves the directories and the lock alone.
LEMMA QuietInv ==
  ASSUME IInv, NEW j \in Job, Only(j), UNCHANGED <<upstream, cache, lock, faults>>,
         Holds(j)' <=> Holds(j),
         Holds(j) => job'[j].i = job[j].i,
         job'[j].pc = "cloning" => At(j, "cloning") /\ job'[j].i = job[j].i,
         job'[j].i \in 1..Len(ReposToTry[j]),
         Holds(j) /\ job[j].crowded => job'[j].crowded,
         Knows(j)', Stage(j)', Skips(j)'
  PROVE  IInv' /\ \A d \in Dir : Steady(d)
  <1>1. \A d \in Dir : Steady(d)
    BY CacheKeptSteady
  <1>2. /\ faults' \in 0..MaxFaults
        /\ disk' \in [Dir -> Disk]
        /\ objects' \in [Dir -> SUBSET Commit]
        /\ \A d \in Dir : disk'[d] = disk[d] /\ objects'[d] = objects[d]
        /\ \A d \in Dir : objects'[d] \subseteq upstream[d]
    BY DEF IInv, TypeOK, Brought, cache
  <1>3. LockStep(j)
    BY DEF LockStep
  <1> QED BY <1>1, <1>2, <1>3, StepInv

LEMMA StartInv ==
  ASSUME IInv, NEW j \in Job, Start(j)
  PROVE  IInv' /\ \A d \in Dir : Steady(d)
  <1> DEFINE n == [Idle EXCEPT !.pc = "lock",
                     !.before = {d \in Dir : CommitSha[j] \in upstream[d]}]
  <1>1. /\ n \in Local /\ n.pc = "lock" /\ n.i = 1 /\ n.found = None
        /\ n.before = {d \in Dir : CommitSha[j] \in upstream[d]}
    BY IdleTyped DEF Idle, Local, Step
  <1>2. Move(j, n)
    BY DEF Start
  <1> HIDE DEF n
  <1>3. Only(j) /\ job'[j] = n
    BY <1>1, <1>2, MoveEffect DEF IInv
  <1>4. ~Holds(j) /\ ~Holds(j)' /\ UNCHANGED <<upstream, cache, lock, faults>>
    BY <1>1, <1>3 DEF Start, At, Holds, Holding
  <1>5. job'[j].i \in 1..Len(ReposToTry[j]) /\ job'[j].pc # "cloning"
    BY <1>1, <1>3, PathTyped DEF IInv
  <1>6. Knows(j)' /\ Stage(j)'
    BY <1>1, <1>3, <1>4 DEF Knows, Stage, At
  <1>7. Skips(j)'
    BY <1>1, <1>3 DEF Skips, Tried, At
  <1> QED BY <1>3, <1>4, <1>5, <1>6, <1>7, QuietInv

LEMMA AgainInv ==
  ASSUME IInv, NEW j \in Job, Again(j)
  PROVE  IInv' /\ \A d \in Dir : Steady(d)
  <1>1. Idle.pc = "idle" /\ Idle.i = 1 /\ Idle.found = None /\ Idle.before = {}
    BY DEF Idle
  <1>2. Only(j) /\ job'[j] = Idle
    BY MoveEffect, IdleTyped DEF IInv, Again
  <1>3. ~Holds(j) /\ ~Holds(j)' /\ UNCHANGED <<upstream, cache, lock, faults>>
    BY <1>1, <1>2 DEF Again, At, Holds, Holding
  <1>4. job'[j].i \in 1..Len(ReposToTry[j]) /\ job'[j].pc # "cloning"
    BY <1>1, <1>2, PathTyped DEF IInv
  <1>5. Knows(j)' /\ Stage(j)' /\ Skips(j)'
    BY <1>1, <1>2 DEF Knows, Stage, Skips, At
  <1> QED BY <1>2, <1>3, <1>4, <1>5, QuietInv

LEMMA StatInv ==
  ASSUME IInv, NEW j \in Job, Stat(j)
  PROVE  IInv' /\ \A d \in Dir : Steady(d)
  <1>1. /\ At(j, "stat") /\ Holds(j) /\ UNCHANGED <<upstream, cache, lock, faults>>
        /\ Path(j) \in Dir
    BY PathTyped DEF IInv, Stat, At, Holds, Holding
  <1>2. (IF HasHead(Path(j)) THEN "fetch" ELSE "clone") \in Step
    BY DEF Step
  <1>3. /\ Only(j)
        /\ job'[j].pc = IF HasHead(Path(j)) THEN "fetch" ELSE "clone"
        /\ job'[j].i = job[j].i
        /\ job'[j].found = job[j].found
        /\ job'[j].trouble = job[j].trouble
        /\ job'[j].crowded = job[j].crowded
        /\ job'[j].before = job[j].before
    BY <1>2, GotoEffect DEF IInv, Stat
  <1>4. Holds(j)' /\ job'[j].pc # "cloning" /\ job'[j].i \in 1..Len(ReposToTry[j])
    BY <1>3 DEF IInv, InList, Holds, Holding
  <1>5. Knows(j)'
    BY <1>1, <1>3 DEF IInv, Knows, At
  <1>6. Stage(j)'
    <2>1. Path(j)' = Path(j) /\ disk' = disk /\ disk[Path(j)] \in Disk
      BY <1>1, <1>3 DEF Path, RepoUrl, cache, IInv, TypeOK
    <2> QED BY <1>3, <2>1 DEF Stage, At, HasHead, Disk
  <1>7. Skips(j)'
    <2>1. Tried(j)' = Tried(j)
      BY <1>1, <1>3 DEF Tried, At
    <2>2. \A d \in Dir : Steady(d)
      BY <1>1, <1>3, CacheKeptSteady
    <2> QED BY <1>3, <2>1, <2>2, SkipsKept
  <1> QED BY <1>1, <1>3, <1>4, <1>5, <1>6, <1>7, QuietInv

\* git begins: it will bring what the remote has at this moment.
LEMMA BeginEffect ==
  ASSUME IInv, NEW j \in Job, NEW step \in {"cloning", "fetching"},
         Move(j, [job[j] EXCEPT !.pc = step, !.sees = upstream[Path(j)]])
  PROVE  /\ Only(j)
         /\ job'[j].pc = step
         /\ job'[j].i = job[j].i
         /\ job'[j].sees = upstream[Path(j)]
         /\ job'[j].found = job[j].found
         /\ job'[j].trouble = job[j].trouble
         /\ job'[j].crowded = job[j].crowded
         /\ job'[j].before = job[j].before
  <1> DEFINE n == [job[j] EXCEPT !.pc = step, !.sees = upstream[Path(j)]]
  <1>1. job[j] \in Local /\ upstream[Path(j)] \in SUBSET Commit
    BY PathTyped DEF IInv, TypeOK
  <1>2. /\ n \in Local /\ n.pc = step /\ n.sees = upstream[Path(j)]
        /\ n.i = job[j].i /\ n.found = job[j].found
        /\ n.trouble = job[j].trouble /\ n.crowded = job[j].crowded
        /\ n.before = job[j].before
    BY <1>1 DEF Local, Step
  <1> HIDE DEF n
  <1>3. Move(j, n)
    BY DEF n
  <1> QED BY <1>2, <1>3, MoveEffect DEF IInv

\* What it will bring includes the commit, if it was there when the job began.
LEMMA BeginKnows ==
  ASSUME IInv, NEW j \in Job, UNCHANGED upstream,
         job[j].found = None,
         job'[j].pc \in {"cloning", "fetching"},
         job'[j].i = job[j].i,
         job'[j].sees = upstream[Path(j)],
         job'[j].found = job[j].found,
         job'[j].before = job[j].before
  PROVE  Knows(j)'
  <1>1. Path(j)' = Path(j)
    BY DEF Path, RepoUrl
  <1> QED BY <1>1 DEF IInv, Knows

LEMMA FetchBeginInv ==
  ASSUME IInv, NEW j \in Job, FetchBegin(j)
  PROVE  IInv' /\ \A d \in Dir : Steady(d)
  <1>1. /\ At(j, "fetch") /\ Holds(j) /\ UNCHANGED <<upstream, cache, lock, faults>>
        /\ job[j].found = None
    BY DEF IInv, Knows, FetchBegin, At, Holds, Holding
  <1>2. /\ Only(j)
        /\ job'[j].pc = "fetching"
        /\ job'[j].i = job[j].i
        /\ job'[j].sees = upstream[Path(j)]
        /\ job'[j].found = job[j].found
        /\ job'[j].trouble = job[j].trouble
        /\ job'[j].crowded = job[j].crowded
        /\ job'[j].before = job[j].before
    BY BeginEffect DEF FetchBegin
  <1>3. Holds(j)' /\ job'[j].pc # "cloning" /\ job'[j].i \in 1..Len(ReposToTry[j])
    BY <1>2 DEF IInv, InList, Holds, Holding
  <1>4. Knows(j)' /\ Stage(j)'
    <2>1. disk'[Path(j)'] \in {"origin", "whole"}
      BY <1>1, <1>2 DEF FetchBegin, cache, Path, RepoUrl
    <2> QED BY <1>1, <1>2, <2>1, BeginKnows DEF Stage, At
  <1>5. Tried(j)' = Tried(j)
    BY <1>1, <1>2 DEF Tried, At
  <1>6. \A d \in Dir : Steady(d)
    BY <1>1, <1>2, CacheKeptSteady
  <1>7. Skips(j)'
    BY <1>2, <1>5, <1>6, SkipsKept
  <1> QED BY <1>1, <1>2, <1>3, <1>4, <1>7, QuietInv

LEMMA ReadFoundInv ==
  ASSUME IInv, NEW j \in Job, ReadFound(j)
  PROVE  IInv' /\ \A d \in Dir : Steady(d)
  <1> DEFINE n == [job[j] EXCEPT !.pc = "done", !.found = RepoUrl(j)]
  <1>1. RepoUrl(j) \in Url /\ Path(j) \in Dir /\ job[j] \in Local /\ RepoUrl(j) # None
    BY PathTyped, CacheAssumption DEF IInv, TypeOK
  <1>2. /\ n \in Local /\ n.pc = "done" /\ n.found = RepoUrl(j)
        /\ n.i = job[j].i /\ n.trouble = job[j].trouble
        /\ n.crowded = job[j].crowded /\ n.before = job[j].before
    BY <1>1 DEF Local, Step
  <1>3. Move(j, n)
    BY DEF ReadFound
  <1> HIDE DEF n
  <1>4. Only(j) /\ job'[j] = n
    BY <1>2, <1>3, MoveEffect DEF IInv
  <1>5. /\ At(j, "read") /\ ~Holds(j) /\ ~Holds(j)' /\ job'[j].pc # "cloning"
        /\ UNCHANGED <<upstream, cache, lock, faults>>
    BY <1>2, <1>4 DEF ReadFound, At, Holds, Holding
  <1>6. Knows(j)'
    <2>1. CommitSha[j] \in upstream[Path(j)]
      BY <1>1 DEF IInv, Brought, ReadFound, Readable
    <2> QED BY <1>2, <1>4, <1>5, <2>1 DEF IInv, Knows, At, Path
  <1>7. Stage(j)' /\ job'[j].i \in 1..Len(ReposToTry[j])
    BY <1>2, <1>4 DEF IInv, InList, Stage, At
  <1>8. Tried(j)' = Tried(j)
    BY <1>1, <1>2, <1>4, <1>5 DEF Tried, At
  <1>9. \A d \in Dir : Steady(d)
    BY <1>4, <1>5, CacheKeptSteady
  <1>10. Skips(j)'
    BY <1>2, <1>4, <1>8, <1>9, SkipsKept
  <1> QED BY <1>4, <1>5, <1>6, <1>7, <1>10, QuietInv

LEMMA CloneMkdirInv ==
  ASSUME IInv, NEW j \in Job, CloneMkdir(j)
  PROVE  IInv' /\ \A d \in Dir : Steady(d)
  <1>1. /\ At(j, "clone") /\ Holds(j) /\ UNCHANGED <<upstream, objects, lock, faults>>
        /\ disk[Path(j)] = "absent" /\ disk' = [disk EXCEPT ![Path(j)] = "debris"]
        /\ job[j].found = None /\ Path(j) \in Dir
    BY PathTyped DEF IInv, Knows, CloneMkdir, At, Holds, Holding
  <1>2. /\ Only(j)
        /\ job'[j].pc = "cloning"
        /\ job'[j].i = job[j].i
        /\ job'[j].sees = upstream[Path(j)]
        /\ job'[j].found = job[j].found
        /\ job'[j].trouble = job[j].trouble
        /\ job'[j].crowded = job[j].crowded
        /\ job'[j].before = job[j].before
    BY BeginEffect DEF CloneMkdir
  <1>3. Holds(j)' /\ job'[j].i \in 1..Len(ReposToTry[j]) /\ Path(j)' = Path(j)
    BY <1>2 DEF IInv, InList, Holds, Holding, Path, RepoUrl
  <1>4. /\ disk' \in [Dir -> Disk] /\ objects' \in [Dir -> SUBSET Commit]
        /\ faults' \in 0..MaxFaults
        /\ \A d \in Dir : d # Path(j) => disk'[d] = disk[d] /\ objects'[d] = objects[d]
        /\ \A d \in Dir : objects'[d] \subseteq upstream[d]
    BY <1>1 DEF IInv, TypeOK, Brought, Disk
  <1>5. \A d \in Dir : Steady(d)
    BY <1>1, <1>2, <1>3, <1>4, CacheStepSteady
  <1>6. Knows(j)' /\ Stage(j)'
    BY <1>1, <1>2, BeginKnows DEF Stage, At
  <1>7. Tried(j)' = Tried(j)
    BY <1>1, <1>2 DEF Tried, At
  <1>8. Skips(j)'
    BY <1>2, <1>5, <1>7, SkipsKept
  <1>9. LockStep(j)
    BY <1>1, <1>2, <1>3 DEF LockStep
  <1> QED BY <1>1, <1>2, <1>3, <1>4, <1>5, <1>6, <1>8, <1>9, StepInv

LEMMA CloneInitInv ==
  ASSUME IInv, NEW j \in Job, CloneInit(j)
  PROVE  IInv' /\ \A d \in Dir : Steady(d)
  <1>1. /\ At(j, "cloning") /\ Holds(j) /\ UNCHANGED <<upstream, objects, lock, job, faults>>
        /\ disk[Path(j)] \in {"debris", "head"}
        /\ disk' = [disk EXCEPT ![Path(j)] = IF @ = "debris" THEN "head" ELSE "origin"]
        /\ Path(j) \in Dir
    BY PathTyped DEF IInv, CloneInit, At, Holds, Holding
  <1>2. Only(j) /\ Path(j)' = Path(j) /\ Working(Path(j))
    BY <1>1 DEF IInv, TypeOK, Only, Path, RepoUrl, Working
  <1>3. /\ disk' \in [Dir -> Disk] /\ objects' \in [Dir -> SUBSET Commit]
        /\ faults' \in 0..MaxFaults
        /\ \A d \in Dir : d # Path(j) => disk'[d] = disk[d] /\ objects'[d] = objects[d]
        /\ \A d \in Dir : objects'[d] \subseteq upstream[d]
    BY <1>1 DEF IInv, TypeOK, Brought, Disk
  <1>4. \A d \in Dir : Steady(d)
    BY <1>1, <1>2, <1>3, CacheStepSteady
  <1>5. Knows(j)' /\ Stage(j)' /\ Holds(j)' /\ LockStep(j)
    BY <1>1, <1>2 DEF IInv, Knows, Stage, At, Holds, LockStep
  <1>6. Skips(j)'
    BY <1>1, <1>4, SkipsKept DEF Tried, At
  <1>7. job'[j].i \in 1..Len(ReposToTry[j]) /\ (job[j].crowded => job'[j].crowded)
    BY <1>1 DEF IInv, InList
  <1> QED BY <1>1, <1>2, <1>3, <1>4, <1>5, <1>6, <1>7, StepInv

LEMMA ReceiveInv ==
  ASSUME IInv, NEW j \in Job, Receive(j)
  PROVE  IInv' /\ \A d \in Dir : Steady(d)
  <1>1. /\ job[j].pc \in {"cloning", "fetching"} /\ Holds(j) /\ Unlock(j)
        /\ disk[Path(j)] \in {"origin", "whole"}
        /\ disk' = [disk EXCEPT ![Path(j)] = "whole"]
        /\ objects' = [objects EXCEPT ![Path(j)] = @ \cup job[j].sees]
        /\ UNCHANGED <<upstream, faults>>
        /\ Path(j) \in Dir /\ job[j].found = None
    BY PathTyped DEF IInv, Knows, Receive, At, Holds, Holding
  <1>2. "read" \in Step
    BY DEF Step
  <1>3. /\ Only(j)
        /\ job'[j].pc = "read"
        /\ job'[j].i = job[j].i
        /\ job'[j].found = job[j].found
        /\ job'[j].trouble = job[j].trouble
        /\ job'[j].crowded = job[j].crowded
        /\ job'[j].before = job[j].before
    BY <1>2, GotoEffect DEF IInv, Receive
  <1>4. /\ ~Holds(j)' /\ job'[j].i \in 1..Len(ReposToTry[j]) /\ Path(j)' = Path(j)
        /\ LockStep(j)
    BY <1>1, <1>3 DEF IInv, InList, Holds, Holding, Path, RepoUrl, LockStep
  <1>5. job[j].sees \subseteq upstream[Path(j)]
    BY <1>1 DEF IInv, Knows
  <1>6. /\ disk' \in [Dir -> Disk] /\ objects' \in [Dir -> SUBSET Commit]
        /\ faults' \in 0..MaxFaults
        /\ disk'[Path(j)] = "whole"
        /\ objects'[Path(j)] = objects[Path(j)] \cup job[j].sees
        /\ \A d \in Dir : d # Path(j) => disk'[d] = disk[d] /\ objects'[d] = objects[d]
    BY <1>1, <1>5 DEF IInv, TypeOK, Disk
  <1>7. \A d \in Dir : objects'[d] \subseteq upstream[d]
    BY <1>5, <1>6 DEF IInv, Brought
  <1>8. \A d \in Dir : Steady(d)
    BY <1>1, <1>3, <1>6, CacheStepSteady
  <1>9. Knows(j)'
    BY <1>1, <1>3 DEF IInv, Knows
  <1>10. Stage(j)'
    <2>1. ASSUME ~job[j].crowded, NEW k \in Job, Path(k)' = Path(j), At(k, "cloning")'
          PROVE  FALSE
      <3>1. k # j
        BY <1>3, <2>1 DEF At
      <3>2. Path(k) = Path(j) /\ Holds(k)
        BY <1>3, <2>1, <3>1 DEF Only, Path, RepoUrl, At, Holds, Holding
      <3> QED BY <1>1, <2>1, <3>1, <3>2 DEF IInv, Crowds
    <2>2. Path(j) \in job[j].before => CommitSha[j] \in objects'[Path(j)]
      BY <1>1, <1>6 DEF IInv, Knows
    <2> QED BY <1>3, <1>4, <1>6, <2>1, <2>2 DEF Stage, Working, At
  <1>11. Tried(j)' = Tried(j)
    BY <1>1, <1>3 DEF Tried, At
  <1>12. Skips(j)'
    BY <1>3, <1>8, <1>11, SkipsKept
  <1> QED BY <1>1, <1>3, <1>4, <1>6, <1>7, <1>8, <1>9, <1>10, <1>12, StepInv

\* A job that finds the lock free takes it, and those at work in the same
\* directory under another URL are no longer alone, nor is it.
LEMMA LockInv ==
  ASSUME IInv, NEW j \in Job, Lock(j)
  PROVE  IInv' /\ \A d \in Dir : Steady(d)
  <1>1. /\ At(j, "lock") /\ ~Holds(j) /\ lock[RepoUrl(j)] = None
        /\ lock' = [lock EXCEPT ![RepoUrl(j)] = j]
        /\ UNCHANGED <<upstream, cache, faults>>
    BY DEF Lock, At, Holds, Holding
  <1>2. /\ job' \in [Job -> Local]
        /\ job'[j].pc = "stat"
        /\ \A k \in Job : /\ k # j => job'[k].pc = job[k].pc
                          /\ job'[k].i = job[k].i
                          /\ job'[k].sees = job[k].sees
                          /\ job'[k].found = job[k].found
                          /\ job'[k].trouble = job[k].trouble
                          /\ job'[k].before = job[k].before
                          /\ job'[k].crowded = \/ job[k].crowded
                                               \/ k \in Others(j)
                                               \/ k = j /\ Others(j) # {}
    <2> DEFINE n(k) == [job[k] EXCEPT !.pc = IF k = j THEN "stat" ELSE @,
                                      !.crowded = \/ @
                                                  \/ k \in Others(j)
                                                  \/ k = j /\ Others(j) # {}]
    <2>1. ASSUME NEW k \in Job
          PROVE  /\ n(k) \in Local
                 /\ n(k).pc = IF k = j THEN "stat" ELSE job[k].pc
                 /\ n(k).i = job[k].i
                 /\ n(k).sees = job[k].sees
                 /\ n(k).found = job[k].found
                 /\ n(k).trouble = job[k].trouble
                 /\ n(k).before = job[k].before
                 /\ n(k).crowded = \/ job[k].crowded
                                   \/ k \in Others(j)
                                   \/ k = j /\ Others(j) # {}
      <3>1. job[k] \in Local
        BY DEF IInv, TypeOK
      <3> QED BY <3>1 DEF Local, Step
    <2>2. job' = [k \in Job |-> n(k)]
      BY DEF Lock
    <2> HIDE DEF n
    <2> QED BY <2>1, <2>2
  <1>3. \A k \in Job : /\ RepoUrl(k) \in Url /\ Path(k) \in Dir
                       /\ RepoUrl(k)' = RepoUrl(k) /\ Path(k)' = Path(k)
                       /\ Holds(k)' <=> Holds(k) \/ k = j
    BY <1>2, PathTyped DEF IInv, RepoUrl, Path, Holds, Holding
  <1>4. \A d \in Dir : Working(d)' <=> Working(d)
    <2>1. \A k \in Job : At(k, "cloning")' <=> At(k, "cloning")
      BY <1>1, <1>2 DEF At
    <2> QED BY <1>3, <2>1 DEF Working
  <1>5. \A d \in Dir : Steady(d) /\ (Poisoned(d)' <=> Poisoned(d))
    BY <1>1, <1>4 DEF Steady, Whole, Poisoned, cache
  <1>6. TypeOK' /\ InList'
    BY <1>1, <1>2, <1>3 DEF IInv, TypeOK, InList, cache
  <1>7. Locked'
    <2>1. None \notin Job /\ lock \in [Url -> Job \cup {None}]
      BY CacheAssumption DEF IInv, TypeOK
    <2>2. /\ lock'[RepoUrl(j)] = j
          /\ \A u \in Url : u # RepoUrl(j) => lock'[u] = lock[u]
      BY <1>1, <1>3, <2>1
    <2>3. ASSUME NEW k \in Job, Holds(k)' PROVE lock'[RepoUrl(k)'] = k
      <3>1. CASE k = j
        BY <1>3, <2>2, <3>1
      <3>2. CASE k # j
        <4>1. Holds(k) /\ lock[RepoUrl(k)] = k
          BY <1>3, <2>3, <3>2 DEF IInv, Locked
        <4>2. RepoUrl(k) # RepoUrl(j)
          BY <1>1, <2>1, <4>1
        <4> QED BY <1>3, <2>2, <4>1, <4>2
      <3> QED BY <3>1, <3>2
    <2>4. ASSUME NEW u \in Url, NEW k \in Job, lock'[u] = k
          PROVE  Holds(k)' /\ RepoUrl(k)' = u
      <3>1. CASE u = RepoUrl(j)
        BY <1>3, <2>2, <2>4, <3>1
      <3>2. CASE u # RepoUrl(j)
        BY <1>3, <2>2, <2>4, <3>2 DEF IInv, Locked
      <3> QED BY <3>1, <3>2
    <2> QED BY <2>3, <2>4 DEF Locked
  <1>8. Crowds'
    <2>1. ASSUME NEW k \in Job, Holds(k), Path(k) = Path(j)
          PROVE  k \in Others(j)
      <3>1. lock[RepoUrl(k)] = k /\ RepoUrl(k) \in Url /\ k # None
        BY <1>3, <2>1, CacheAssumption DEF IInv, Locked
      <3>2. RepoPath[RepoUrl(k)] = Path(j)
        BY <2>1 DEF Path
      <3> QED BY <3>1, <3>2 DEF Others
    <2>2. ASSUME NEW k \in Job, NEW q \in Job, k # q, Holds(k)', Holds(q)', Path(k)' = Path(q)'
          PROVE  job'[k].crowded
      <3>1. CASE k = j
        <4>1. q # j /\ Holds(q) /\ Path(q) = Path(j)
          BY <1>3, <2>2, <3>1
        <4>2. Others(j) # {}
          BY <2>1, <4>1
        <4> QED BY <1>2, <3>1, <4>2
      <3>2. CASE q = j
        <4>1. k # j /\ Holds(k) /\ Path(k) = Path(j)
          BY <1>3, <2>2, <3>2
        <4>2. k \in Others(j)
          BY <2>1, <4>1
        <4> QED BY <1>2, <4>2
      <3>3. CASE k # j /\ q # j
        <4>1. Holds(k) /\ Holds(q) /\ Path(k) = Path(q)
          BY <1>3, <2>2, <3>3
        <4>2. job[k].crowded
          BY <2>2, <4>1 DEF IInv, Crowds
        <4> QED BY <1>2, <4>2
      <3> QED BY <3>1, <3>2, <3>3
    <2> QED BY <2>2 DEF Crowds
  <1>9. Brought'
    BY <1>1 DEF IInv, Brought, cache
  <1>10. ASSUME NEW k \in Job PROVE Knows(k)' /\ Stage(k)' /\ Skips(k)'
    <2>1. \A step \in Step \ {"lock", "stat"} : At(k, step)' <=> At(k, step)
      BY <1>1, <1>2 DEF At
    <2>2. /\ At(k, "clone")' <=> At(k, "clone")
          /\ At(k, "cloning")' <=> At(k, "cloning")
          /\ At(k, "fetch")' <=> At(k, "fetch")
          /\ At(k, "fetching")' <=> At(k, "fetching")
          /\ At(k, "read")' <=> At(k, "read")
          /\ At(k, "done")' <=> At(k, "done")
      BY <2>1 DEF Step
    <2>3. Knows(k)'
      BY <1>1, <1>2, <1>3, <2>2 DEF IInv, Knows, At
    <2>4. Stage(k)'
      <3>1. Working(Path(k))' <=> Working(Path(k))
        BY <1>3, <1>4 DEF Working
      <3>2. Path(k)' = Path(k) /\ disk' = disk /\ objects' = objects
            /\ job'[k].before = job[k].before /\ (job[k].crowded => job'[k].crowded)
        BY <1>1, <1>2, <1>3 DEF cache
      <3> QED BY <2>2, <3>1, <3>2 DEF IInv, Stage
    <2>5. Skips(k)'
      <3>1. Tried(k)' = Tried(k)
        BY <1>2, <2>2 DEF Tried
      <3> QED BY <1>2, <1>5, <3>1, SkipsKept
    <2> QED BY <2>3, <2>4, <2>5
  <1> QED BY <1>5, <1>6, <1>7, <1>8, <1>9, <1>10 DEF IInv

LEMMA PushInv ==
  ASSUME IInv, NEW d \in Dir, NEW c \in Commit, Push(d, c)
  PROVE  IInv' /\ \A e \in Dir : Steady(e)
  <1>1. /\ UNCHANGED <<disk, objects, lock, job, faults>>
        /\ upstream' \in [Dir -> SUBSET Commit]
        /\ \A e \in Dir : upstream[e] \subseteq upstream'[e]
    BY DEF IInv, TypeOK, Push, cache
  <1>2. \A k \in Job : /\ Path(k)' = Path(k) /\ Path(k) \in Dir
                       /\ Holds(k)' <=> Holds(k)
                       /\ RepoUrl(k)' = RepoUrl(k)
    BY <1>1, PathTyped DEF IInv, Path, RepoUrl, Holds
  <1>3. \A e \in Dir : Working(e)' <=> Working(e)
    BY <1>1, <1>2 DEF Working, At
  <1>4. \A e \in Dir : Steady(e)
    BY <1>1, <1>3 DEF Steady, Whole, Poisoned
  <1>5. TypeOK' /\ InList' /\ Locked' /\ Crowds' /\ Brought'
    BY <1>1, <1>2 DEF IInv, TypeOK, InList, Locked, Crowds, Brought
  <1>6. ASSUME NEW k \in Job PROVE Knows(k)' /\ Stage(k)' /\ Skips(k)'
    <2>1. job[k].before \subseteq Dir /\ (job[k].found # None => RepoPath[job[k].found] \in Dir)
      BY CacheAssumption DEF IInv, TypeOK, Local
    <2>2. Knows(k)'
      BY <1>1, <1>2, <2>1 DEF IInv, Knows, At
    <2>3. Stage(k)'
      <3>1. Working(Path(k))' <=> Working(Path(k))
        BY <1>2, <1>3 DEF Working
      <3> QED BY <1>1, <1>2, <3>1 DEF IInv, Stage, At
    <2>4. Skips(k)'
      BY <1>1, <1>4, SkipsKept DEF Tried, At
    <2> QED BY <2>2, <2>3, <2>4
  <1> QED BY <1>4, <1>5, <1>6 DEF IInv

LEMMA StutterInv ==
  ASSUME IInv, UNCHANGED vars
  PROVE  IInv' /\ \A d \in Dir : Steady(d)
  <1> USE DEF vars
  <1>1. TypeOK' /\ InList' /\ Locked' /\ Crowds' /\ Brought'
    BY DEF IInv, TypeOK, InList, Locked, Crowds, Brought, Holds, RepoUrl, Path
  <1>2. \A k \in Job : Path(k)' = Path(k)
    BY DEF Path, RepoUrl
  <1>3. \A d \in Dir : Working(d)' <=> Working(d)
    BY <1>2 DEF Working, At
  <1>4. \A d \in Dir : Steady(d)
    BY <1>3 DEF Steady, Whole, Poisoned
  <1>5. ASSUME NEW k \in Job PROVE Knows(k)' /\ Stage(k)' /\ Skips(k)'
    <2>1. Path(k) \in Dir
      BY PathTyped DEF IInv
    <2>2. Working(Path(k))' <=> Working(Path(k))
      BY <1>2, <1>3, <2>1 DEF Working
    <2>3. Knows(k)' /\ Stage(k)'
      BY <1>2, <2>2 DEF IInv, Knows, Stage, At
    <2>4. Skips(k)'
      BY <1>4, SkipsKept DEF Tried, At
    <2> QED BY <2>3, <2>4
  <1> QED BY <1>1, <1>4, <1>5 DEF IInv

LEMMA InitInv == Init => IInv
  <1> SUFFICES ASSUME Init PROVE IInv
    OBVIOUS
  <1> USE CacheAssumption DEF Init
  <1>1. TypeOK
    BY IdleTyped DEF TypeOK, Disk
  <1>2. \A j \in Job : ~Holds(j) /\ job[j] = Idle
    BY DEF Holds, Holding, Idle
  <1>3. InList
    <2> SUFFICES ASSUME NEW j \in Job PROVE 1 \in 1..Len(ReposToTry[j])
      BY DEF InList, Idle
    <2>1. ReposToTry[j] \in Seq(Url) /\ ReposToTry[j] # <<>>
      OBVIOUS
    <2> QED BY <2>1
  <1>4. Locked /\ Crowds /\ Brought
    BY <1>2 DEF Locked, Crowds, Brought
  <1>5. \A j \in Job : Knows(j) /\ Stage(j) /\ Skips(j)
    BY <1>2 DEF Knows, Stage, Skips, Idle, At
  <1> QED BY <1>1, <1>3, <1>4, <1>5 DEF IInv

LEMMA NextInv ==
  ASSUME IInv, [Next]_vars
  PROVE  IInv' /\ \A d \in Dir : Steady(d)
  <1>1. CASE UNCHANGED vars
    BY <1>1, StutterInv
  <1>2. CASE \E d \in Dir, c \in Commit : Push(d, c)
    BY <1>2, PushInv
  <1>3. ASSUME NEW j \in Job, Start(j) \/ Lock(j) \/ Works(j) \/ Fails(j) \/ Again(j)
        PROVE  IInv' /\ \A d \in Dir : Steady(d)
    BY <1>3, LockInv, StartInv, StatInv, CloneRefusedInv, CloneMkdirInv, CloneInitInv,
       FetchRefusedInv, FetchBeginInv, ReceiveInv, ReadFoundInv, ReadMissingInv, AgainInv,
       NetworkErrorInv, KilledInv, LockTimeoutInv, ReadFailsInv
       DEF Works, Fails
  <1> QED BY <1>1, <1>2, <1>3 DEF Next

LEMMA Invariance == Spec => []IInv /\ [][\A d \in Dir : Steady(d)]_vars
  <1>1. Init => IInv
    BY InitInv
  <1>2. IInv /\ [Next]_vars => IInv' /\ [\A d \in Dir : Steady(d)]_vars
    BY NextInv
  <1> QED BY <1>1, <1>2, PTL DEF Spec

-----------------------------------------------------------------------------
(* The theorems. *)

\* Directories, mutexes and the locals of enrichments keep their types: no
\* job passes the end of its list or its number of attempts.
THEOREM TypeCorrect == Spec => []TypeOK
  <1>1. IInv => TypeOK
    BY DEF IInv
  <1> QED BY <1>1, Invariance, PTL

\* The mutex of a URL is held by exactly the one job that is between taking it
\* and the end of its attempt, a kill or a timeout included.
THEOREM LockDiscipline == Spec => []Locked
  <1>1. IInv => Locked
    BY DEF IInv
  <1> QED BY <1>1, Invariance, PTL

\* What a completed clone has been given stays, unless somebody is cloning
\* into it: the only step that removes anything is a clone that fails.
THEOREM CommitsAreKept == Spec => CommitsStay
  <1>1. IInv /\ [\A d \in Dir : Steady(d)]_vars
          => [\A d \in Dir : disk[d] = "whole" /\ ~Working(d) =>
                 disk'[d] = "whole" /\ objects[d] \subseteq objects'[d]]_vars
    BY DEF Steady, Whole
  <1> QED BY <1>1, Invariance, PTL DEF CommitsStay

\* A poisoned directory stays poisoned: no operation of the cache, and no
\* number of retries, ever clones or fetches it again.
THEOREM PoisonIsForGood == Spec => [][\A d \in Dir : Poisoned(d) => Poisoned(d)']_vars
  <1>1. IInv /\ [\A d \in Dir : Steady(d)]_vars
          => [\A d \in Dir : Poisoned(d) => Poisoned(d)']_vars
    BY DEF Steady
  <1> QED BY <1>1, Invariance, PTL

\* "Commit not found" is the truth: a repository that had the commit when the
\* enrichment began was passed over only because a killed clone had poisoned
\* its directory, unless a fault hit the job or it shared its directory.
THEOREM NotFoundIsTrue == Spec => []NotFoundExplained
  <1>1. IInv => NotFoundExplained
    <2> SUFFICES ASSUME IInv, NEW j \in Job, At(j, "done"), job[j].found = None,
                        ~job[j].trouble, ~job[j].crowded,
                        NEW i \in DOMAIN ReposToTry[j],
                        RepoPath[ReposToTry[j][i]] \in job[j].before
                 PROVE  Poisoned(RepoPath[ReposToTry[j][i]])
      BY DEF NotFoundExplained
    <2>1. DOMAIN ReposToTry[j] = 1..Len(ReposToTry[j])
      BY CacheAssumption
    <2> QED BY <2>1 DEF IInv, Skips, Tried
  <1> QED BY <1>1, Invariance, PTL

\* The repository that is recorded has the commit, and the job passed over no
\* earlier one that had it when it began, with the same exceptions.
THEOREM RecordsTheFirst == Spec => []FirstThatHasIt
  <1>1. IInv => FirstThatHasIt
    BY DEF IInv, FirstThatHasIt, Knows, Skips, Tried
  <1> QED BY <1>1, Invariance, PTL
=============================================================================
