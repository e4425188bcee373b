------------------------------ MODULE Services ------------------------------
(***************************************************************************)
(* Integrations, media and MCP behind their common harness.                *)
(***************************************************************************)
EXTENDS Integrations, Media, Mcp

vars == <<harnessVars, intVars, mediaVars>>

Init == HarnessInit /\ IntInit /\ MediaInit

Next ==
  \/ HarnessNext /\ UNCHANGED <<intVars, mediaVars>>
  \/ IntNext /\ UNCHANGED mediaVars
  \/ MediaNext /\ UNCHANGED intVars
  \/ McpNext /\ UNCHANGED <<intVars, mediaVars>>

Spec == Init /\ [][Next]_vars

TypeOK ==
  /\ now \in Nat /\ offered \subseteq Services /\ requests \in Nat
  /\ job \in [Handlers -> Request]
  /\ secret \in [Tenants -> Nat]
  /\ secrets \in [Tenants -> [until : Int, version : Nat]]
  /\ tokens \in [Tenants -> [until : Int, token : Token]]
  /\ drawn \in Nat
============================================================================
