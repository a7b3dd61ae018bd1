SPECIFICATION FairSpec
CONSTANTS
  Url <- MCUrl
  Dir = {"dirSponge", "dirFork"}
  RepoPath <- MCRepoPath
  Commit = {"c1"}
  Job = {"a", "b"}
  ReposToTry <- MCReposToTry
  CommitSha <- MCSameCommit
  None = None
  MaxAttempts = 2
  MaxFaults = 1
INVARIANTS
  TypeOK
  NotFoundExplained
  FirstThatHasIt
PROPERTIES
  CommitsStay
  Recovers
  Ends
