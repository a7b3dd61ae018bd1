----------------------------- MODULE Changelogs -----------------------------
(***************************************************************************)
(* What a changelog holds: the walk over a commit graph, the choice of the *)
(* repository, and submodules, whose pointers are stored by the enrichment *)
(* and compared by the changelog of the next version.                      *)
(***************************************************************************)
EXTENDS Integers, Sequences, FiniteSets, FiniteSetsExt, SequencesExt

CONSTANTS MaxChangelogCommits,  \* commits of one changelog
          WalkLimit,            \* commits one walk visits
          MaxSubmoduleDepth,    \* nesting of submodule changelogs
          Inner                 \* Inner[r][c]: submodules of commit c of repository r

ASSUME ChangelogsAssumption ==
    /\ MaxChangelogCommits \in Nat /\ WalkLimit \in Nat /\ MaxSubmoduleDepth \in Nat
    /\ \A r \in DOMAIN Inner : \A c \in DOMAIN Inner[r] :
          DOMAIN Inner[r][c] \subseteq DOMAIN Inner

-----------------------------------------------------------------------------
(* git log A..B.  A history has commits 1..n, and no commit is a parent of  *)
(* an older one; committer times are whatever the committers' clocks said.  *)

\* Visited in the order of repo.Log by committer time, up to WalkLimit: a heap of
\* what is to be visited, newest first.
Walk(history, start) ==
    LET Newest(heap) == CHOOSE c \in heap : \A d \in heap :
                            \/ history.time[c] > history.time[d]
                            \/ history.time[c] = history.time[d] /\ c >= d
        walk[n \in 0..WalkLimit] ==
            IF n = 0 THEN [heap |-> {start}, visited |-> <<>>]
            ELSE LET w == walk[n - 1]
                     c == Newest(w.heap)
                 IN  IF w.heap = {} THEN w
                     ELSE [heap |-> (w.heap \ {c})
                               \cup (history.parents[c] \ Range(w.visited)),
                           visited |-> Append(w.visited, c)]
    IN  walk[WalkLimit].visited

\* Mutant: the first excluded commit stops the walk.
NotExcluded_Stops(visited, excluded) ==
    LET hits == {i \in DOMAIN visited : visited[i] \in excluded}
    IN  IF hits = {} THEN visited ELSE SubSeq(visited, 1, Min(hits) - 1)

\* An excluded commit is skipped and does not stop the walk.
NotExcluded(visited, excluded) ==
    LET result[n \in 0..Len(visited)] ==
            IF n = 0 THEN <<>>
            ELSE IF visited[n] \in excluded THEN result[n - 1]
            ELSE Append(result[n - 1], visited[n])
    IN  result[Len(visited)]

ComputeChangelog(history, from, to) ==
    LET commits == NotExcluded(Walk(history, to), Range(Walk(history, from)))
    IN  [commits |-> SubSeq(commits, 1, Min({Len(commits), MaxChangelogCommits})),
         truncated |-> Len(commits) > MaxChangelogCommits]

\* The repository of the version in the list of phase 2, else that of its
\* predecessor, else the first registered; "" is none.
CurrentRepo(listed, previous, registered) ==
    CASE listed # "" \/ registered = <<>> -> listed
      [] previous # "" -> previous
      [] OTHER -> Head(registered)

SameRepo(listed, previous, registered) ==
    previous # "" /\ CurrentRepo(listed, previous, registered) = previous

\* What a version stored with no commits of its own repository stands for: a
\* repo transition, or a git log that failed.
MainCommits(history, repos, from, to) ==
    IF ~SameRepo(repos.listed, repos.previous, repos.registered) \/ repos.fails
    THEN <<>> ELSE ComputeChangelog(history, from, to).commits

-----------------------------------------------------------------------------
(* Submodules.  A set of pointers is a function from repositories to        *)
(* commits; a submodule's history is linear.                                *)

NoPointers == <<>>

Changed(before, now) ==
    Restrict(now, {r \in DOMAIN now : r \notin DOMAIN before \/ before[r] # now[r]})

\* What enrichment stores of the pointers now, given what the record of the
\* predecessor holds: those that differ from it - and none when one of them
\* cannot be cloned.
StoredSubmodules(before, now, broken) ==
    LET changed == Changed(before, now)
    IN  IF DOMAIN changed \cap broken # {} THEN NoPointers ELSE changed

\* The records of consecutive versions.  Versions are enriched in parallel: one
\* in early was enriched before its predecessor was and compares with nothing.
StoredOf(pointers, early, broken) ==
    LET stored[v \in 0..Len(pointers)] ==
            IF v = 0 THEN NoPointers
            ELSE StoredSubmodules(IF v \in early THEN NoPointers ELSE stored[v - 1],
                                  pointers[v], broken)
    IN  stored

\* Submodule changelogs of a commit with pointers now against those in before:
\* per repository the commits, and the changelogs nested in it.  A submodule
\* that is new, unchanged, moved back or not to be cloned has none.
SubmoduleChangelogs(before, now, broken) ==
    LET Moved(b, n) == {r \in DOMAIN n \cap DOMAIN b : b[r] < n[r]} \ broken
        At(r, c)    == IF r \in DOMAIN Inner /\ c \in DOMAIN Inner[r]
                       THEN Inner[r][c] ELSE NoPointers
        Level(b, n, Nested(_, _)) ==
            [r \in Moved(b, n) |->
                [previous |-> b[r], commits |-> (b[r] + 1)..n[r],
                 nested |-> Nested(At(r, b[r]), At(r, n[r]))]]
        Deepest(b, n) == NoPointers
        Third(b, n)   == IF MaxSubmoduleDepth < 3 THEN NoPointers ELSE Level(b, n, Deepest)
        Second(b, n)  == IF MaxSubmoduleDepth < 2 THEN NoPointers ELSE Level(b, n, Third)
    IN  IF MaxSubmoduleDepth < 1 THEN NoPointers ELSE Level(before, now, Second)

-----------------------------------------------------------------------------
(* Reference and properties. *)

\* Commits that can be reached from each, by the parents alone.
Reach(history) ==
    LET reach[c \in DOMAIN history.parents] ==
            {c} \cup UNION {reach[p] : p \in history.parents[c]}
    IN  reach

\* A changelog is what one version reaches and the other does not, whatever the
\* clocks: each commit once; when it is cut short it says so.
IsDifference(history, from, to) ==
    LET difference == Reach(history)[to] \ Reach(history)[from]
        changelog  == ComputeChangelog(history, from, to)
    IN  /\ IsInjective(changelog.commits)
        /\ Range(changelog.commits) \subseteq difference
        /\ changelog.truncated = (Cardinality(difference) > MaxChangelogCommits)
        /\ ~changelog.truncated => Range(changelog.commits) = difference

\* A submodule changelog starts where the submodule was at the previous version,
\* although it is computed from what was stored of it.
StartsAtPredecessor(pointers, early, broken) ==
    LET stored == StoredOf(pointers, early, broken)
    IN  \A v \in 2..Len(pointers) :
          LET logs == SubmoduleChangelogs(stored[v - 1], pointers[v], broken)
          IN  \A r \in DOMAIN logs : /\ r \in DOMAIN pointers[v - 1]
                                     /\ logs[r].previous = pointers[v - 1][r]

\* Every submodule whose pointer moved forward between two consecutive versions
\* has a changelog, when everything can be cloned.
MovedHasChangelog(pointers, early, broken) ==
    LET stored == StoredOf(pointers, early, broken)
    IN  broken = {} => \A v \in 2..Len(pointers) :
          \A r \in DOMAIN pointers[v] \cap DOMAIN pointers[v - 1] :
             pointers[v - 1][r] < pointers[v][r] =>
                r \in DOMAIN SubmoduleChangelogs(stored[v - 1], pointers[v], broken)
=============================================================================
