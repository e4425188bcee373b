SPECIFICATION Spec
CONSTANTS
  Users <- MCUsers
  TenantOf <- MCTenantOf
  GroupsOf <- MCGroupsOf
  AllowAllUsers = FALSE
  InstallGroup = "ml"
  AdminGroup = "admin"
  Repos <- MCRepos
  OrgOf <- MCOrgOf
  Malformed = {}
  CpAllowlist <- MCCpAllowlist
  ErrorClasses <- MCErrors
  Cap = 2
  ListLimit = 2
  Permits = 1
  PublishFails = FALSE
  InstallerAllowlist <- MCInstallerAllowlist
  InitialModel = "base/m"
  Loadable <- MCLoadable
  i1 = i1
  i2 = i2
  Installers <- MCInstallers
  MaxRequests = 2
  FaultBudget = 1
  LateDelivery = TRUE
SYMMETRY MCSymmetry
INVARIANTS OrphansCostFaults ReleaseVetted
