----------------------------- MODULE MCAuthGate -----------------------------
(* AuthGate on small instances.                                            *)
EXTENDS AuthGate, TLC

\* Requests are interchangeable; so are inodes.
ReqSymmetry == Permutations(Reqs) \cup Permutations(Inodes)
=============================================================================
