-------------------------- MODULE MCInstallOverlap --------------------------
(* MCModelInstall with two interchangeable installers. *)
EXTENDS MCModelInstall, TLC

CONSTANTS i1, i2

MCInstallers == {i1, i2}
MCSymmetry == Permutations(MCInstallers)
============================================================================
