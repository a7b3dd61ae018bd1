----------------------------- MODULE MCGitCache -----------------------------
(* Instances of GitCache for TLC. *)
EXTENDS GitCache

\* The artifact's repository, as it is registered; the same with ".git", as a
\* .gitmodules or a build's manifest writes it; and a fork.
MCUrl == {"sponge", "sponge.git", "fork"}
MCRepoPath == [u \in MCUrl |-> IF u = "fork" THEN "dirFork" ELSE "dirSponge"]

\* Each enrichment tries the URL of commit_body first.
MCReposToTry  == [a |-> <<"fork", "sponge">>, b |-> <<"sponge.git", "fork">>]
MCSameCommit  == [a |-> "c1", b |-> "c1"]
=============================================================================
