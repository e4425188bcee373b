---- MODULE MCUserData ----
\* UserData for TLC: two users, two overlapping requests on a conversation, an
\* editor with two calls under way, two memories.  The calls of the editor are
\* interchangeable and every property is an invariant, hence the symmetry.
EXTENDS UserData

MCUsers == {"ann", "eve"}
Symmetry == Permutations(Calls)
====
