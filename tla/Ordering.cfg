SPECIFICATION FairSpec
CONSTANTS
  Version = {1, 2, 3}
  Schema = {"old", "new"}
  NoSchema = "none"
  Sync = {"fast"}
  Put = "put"
  Manifest = 1
  UsesManifest <- MCUsesManifest
  Weight <- MCWeight
  Release <- MCRelease
  Tagged <- MCTagged
  BatchSize = 2
  MaxAttempts = 2
  MaxPuts = 1
  MaxFaults = 1
INVARIANTS
  TypeOK
  Settled
  Ranked
PROPERTIES
  NeverBare
  Converges
