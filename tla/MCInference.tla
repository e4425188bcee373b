---- MODULE MCInference ----
\* Inference for TLC: more threads than slots, two windows, the three limiters
\* of the endpoints, compares of two models with and without
\* synthesis.
EXTENDS Inference, TLC

MCSurfaces == {{"chat", "stream"}, {"edit"}, {"compare"}}
MCSymmetry == Permutations(Threads)
====
