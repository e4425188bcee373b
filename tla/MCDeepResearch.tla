---- MODULE MCDeepResearch ----
\* DeepResearch for TLC: a document of the caller's tenant by a colleague, one
\* of another tenant, a text of two chunks with a word longer than a chunk, and
\* web hits that repeat.
EXTENDS DeepResearch

MCOwners == {[tenant |-> "acme", user |-> "bob"], [tenant |-> "evil", user |-> "eve"]}
MCCallers == {[tenant |-> "acme", user |-> "ann"], [tenant |-> "evil", user |-> "eve"]}
MCAllowlist == {"acme"}
MCTexts == {<<6, 2, 2>>, <<5, 5, 5>>}

\* The vectors of a document whose backend did not number them decide nothing.
MCView ==
  <<[d \in Docs |-> IF index[d].numbered THEN index[d] ELSE [index[d] EXCEPT !.vectors = <<>>]],
    {<<c.doc, c.pos, IF index[c.doc].numbered THEN c.vector ELSE <<>>>> : c \in chunks},
    notices, runVars>>
MCSymmetry == Permutations(Docs) \cup Permutations(Urls)
====
