SPECIFICATION Spec
CONSTANTS
  Users <- MCUsers
  TenantOf <- MCTenantOf
  GroupsOf <- MCGroupsOf
  AllowAllUsers = FALSE
  InstallGroup = "ml"
  AdminGroup = "admin"
  Repos <- MCRepos
  OrgOf <- MCOrgOf
  Malformed = {}
  CpAllowlist <- MCCpAllowlist
  ErrorClasses <- MCErrors
  Cap = 2
  ListLimit = 2
  Permits = 1
  PublishFails = FALSE
  InstallerAllowlist <- MCInstallerAllowlist
  InitialModel = "base/m"
  Loadable <- MCLoadable
  Installers = {"i1"}
  MaxRequests = 1
  FaultBudget = 0
  LateDelivery = FALSE
INVARIANT AppliedIsServing
