SPECIFICATION Spec
CONSTANTS
  MaxChangelogCommits = 2
  WalkLimit = 4
  MaxSubmoduleDepth = 2
  Inner <- MCInner
  MaxLimit = 2
  BuildsPerPage = 2
  Window = 5
  Text <- MCText
  SimpleText <- MCSimpleText
  VersionSchema <- MCVersionSchema
  Commits = 4
  Times = {1, 2, 3}
  Pointer <- MCPointer
  Versions = 3
  Row <- MCRow
  Tags <- MCTags
  Changing <- MCChanging
  MaxRows = 3
  MaxChanging = 2
  MaxTotal = 40
CHECK_DEADLOCK FALSE
INVARIANT
  SubmoduleChangesReported
