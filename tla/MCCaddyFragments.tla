-------------------------- MODULE MCCaddyFragments --------------------------
(* CaddyFragments for TLC: requests and names are interchangeable.         *)
EXTENDS CaddyFragments, TLC

Symmetry == Permutations(Reqs) \cup Permutations(Names)
=============================================================================
