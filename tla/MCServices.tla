---- MODULE MCServices ----
\* Services for TLC: two handlers, two tenants, a service of each kind; a tenant
\* that may use all of them and one that may use the integration and images.
EXTENDS Services, TLC

MCTenants == {"acme", "blue"}
MCServices == {"calendar", "image", "stt", "echo"}
MCKind == [calendar |-> "integration", image |-> "image", stt |-> "stt", echo |-> "mcp"]
MCAllowed == ({"acme"} \X MCServices) \cup {<<"blue", "calendar">>, <<"blue", "image">>}
MCDeployments == {{"calendar"}, {"image"}, {"stt"}, {"echo"}}
MCSwitchable == {<<"blue", "image">>}
MCSymmetry == Permutations(Handlers)
====
