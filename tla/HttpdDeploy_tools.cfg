SPECIFICATION Spec
CONSTANTS
  None = None
  Bad = Bad
  Files <- MCFiles
  Edits <- MCEdits
  Migrations <- MCMigrations
  Manifests <- MCManifests
  AllowedPeers = {}
  MaxEdits = 1
  MaxRuns = 3
INVARIANTS
  FilesSound
  ConfSound
  AcceptedFlattens
  CertWhole
CHECK_DEADLOCK FALSE
