-------------------------- MODULE MCModelRequests --------------------------
(* ModelRequests for TLC: two permitted callers in two tenants, one without *)
(* permission, and a repo for each way a request can be refused.            *)
EXTENDS ModelRequests

MCUsers == {"ana", "root", "guest"}
MCTenantOf == [u \in MCUsers |-> IF u = "root" THEN "t2" ELSE "t1"]
MCGroupsOf == [u \in MCUsers |-> CASE u = "ana" -> {"ml"}
                                   [] u = "root" -> {"admin"}
                                   [] OTHER -> {"staff"}]
MCRepos == {"acme/m", "evil/m", "bad"}
MCOrgOf == [r \in MCRepos |-> CASE r = "acme/m" -> "acme" [] r = "evil/m" -> "evil" [] OTHER -> "bad"]
MCAllowlist == {"acme"}
MCMalformed == {"bad"}
============================================================================
