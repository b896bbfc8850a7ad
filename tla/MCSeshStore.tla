----------------------------- MODULE MCSeshStore -----------------------------
(* Model-checking instance of SeshStore: every client request over a two-byte  *)
(* alphabet, with a window of two bytes, so that a file can be below, at and   *)
(* above the fingerprint window.                                               *)
EXTENDS SeshStore, TLC
CONSTANTS a, b
MCClaims == {<<a, b>>, <<b, a>>}
Symmetry == Permutations({a, b})
=============================================================================
