--------------------------- MODULE MCModelInstall ---------------------------
(* ModelInstall for TLC.  The repos tell apart a model that loads, one that *)
(* does not, and one that only the control plane's allow-list admits.       *)
EXTENDS ModelInstall

MCUsers == {"ana"}
MCTenantOf == [u \in MCUsers |-> "t1"]
MCGroupsOf == [u \in MCUsers |-> {"ml"}]
MCRepos == {"base/m", "acme/good", "acme/broken", "solo/m"}
MCOrgOf == [r \in MCRepos |-> CASE r = "base/m" -> "base" [] r = "solo/m" -> "solo" [] OTHER -> "acme"]
MCCpAllowlist == {"acme", "solo/m"}
MCInstallerAllowlist == {"acme/good", "acme/broken"}
MCLoadable == {"base/m", "acme/good", "solo/m"}
MCErrors == {"none", "repo_not_allowed", "repo_invalid", "gpu_provision_failed",
             "vllm_apply_failed", "load_timeout", "install_failed"}
============================================================================
