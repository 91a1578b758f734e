SPECIFICATION Spec
CONSTANTS
  Revisions <- MCRevisions
  Tree <- MCTree
  Paths <- MCPaths
  RoleCount = 2
  Locks <- MCLocks
  Compiled <- MCCompiled
  Meaning <- MCMeaning
  Digest <- MCDigest
  Tagged <- MCTagged
  Published <- MCPublished
  RequireRelease = TRUE
  Edits <- MCEdits
  Moves = FALSE
  Faults = {"crash", "tear"}
INVARIANTS
  TypeOK
  SyncedIsWhole
  MixturesAreDetected
  OnlyReleasedFiles
