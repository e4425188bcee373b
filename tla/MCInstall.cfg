SPECIFICATION FairSpec
CONSTANTS
  Users <- MCUsers
  TenantOf <- MCTenantOf
  GroupsOf <- MCGroupsOf
  AllowAllUsers = FALSE
  InstallGroup = "ml"
  AdminGroup = "admin"
  Repos <- MCRepos
  OrgOf <- MCOrgOf
  Malformed = {}
  CpAllowlist <- MCCpAllowlist
  ErrorClasses <- MCErrors
  Cap = 2
  ListLimit = 2
  Permits = 1
  PublishFails = FALSE
  InstallerAllowlist <- MCInstallerAllowlist
  InitialModel = "base/m"
  Loadable <- MCLoadable
  Installers = {"i1"}
  MaxRequests = 2
  FaultBudget = 2
  LateDelivery = FALSE
INVARIANT RollbackRestores
PROPERTIES LifecycleOrdered ReqSpec PendingPickedUp InstallingResolves
