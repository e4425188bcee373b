SPECIFICATION ReqSpec
CONSTANTS
  Users <- MCUsers
  TenantOf <- MCTenantOf
  GroupsOf <- MCGroupsOf
  AllowAllUsers = FALSE
  InstallGroup = "ml"
  AdminGroup = "admin"
  Repos <- MCRepos
  OrgOf <- MCOrgOf
  Malformed <- MCMalformed
  CpAllowlist <- MCAllowlist
  ErrorClasses = {"none", "load_timeout"}
  Cap = 1
  ListLimit = 1
  Permits = 2
  MaxRequests = 3
  PublishFails = TRUE
INVARIANTS BacklogBounded FeedResolves StoredAreAdmissible
