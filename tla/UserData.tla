------------------------------ MODULE UserData ------------------------------
(***************************************************************************)
(* The three stores of a user's own data behind one control plane.  They   *)
(* share no state, so a behaviour of the control plane is an interleaving  *)
(* of a behaviour of each, and a property of one store is one of all       *)
(* three: a behaviour here lets one of them move.                          *)
(***************************************************************************)
EXTENDS Conversations, Notes, Memories

VARIABLE surface  \* the store that is used

dataVars == <<convVars, noteVars, memVars, surface>>

DataInit ==
  /\ ConvInit /\ NotesInit /\ MemInit
  /\ surface \in {"conversations", "notes", "memory"}

DataNext ==
  \/ surface = "conversations" /\ ConvNext /\ UNCHANGED <<noteVars, memVars, surface>>
  \/ surface = "notes" /\ NotesNext /\ UNCHANGED <<convVars, memVars, surface>>
  \/ surface = "memory" /\ MemNext /\ UNCHANGED <<convVars, noteVars, surface>>

DataSpec == DataInit /\ [][DataNext]_dataVars
============================================================================
