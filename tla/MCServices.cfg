SPECIFICATION Spec
CONSTANTS
  Handlers = {h1, h2}
  Tenants <- MCTenants
  Services <- MCServices
  Kind <- MCKind
  Deployments <- MCDeployments
  Allowed <- MCAllowed
  Switchable <- MCSwitchable
  MaxTime = 2
  MaxRequests = 3
  TTL = 1
  Lifetime = 2
  Margin = 1
  Permitted = {}
  Rotated = {"acme"}
  MaxRotations = 1
  Storage = TRUE
INVARIANTS OwnCredentials CredentialsFresh GuardHolds ArtifactsSafe NoProcessLeft
CHECK_DEADLOCK FALSE
SYMMETRY MCSymmetry
