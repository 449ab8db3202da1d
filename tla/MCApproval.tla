----------------------------- MODULE MCApproval -----------------------------
(* A small instance of Approval for TLC.                                      *)
EXTENDS Approval, TLC

CONSTANTS j1, j2, j3, c1, c2, h1, h2

\* The ids of follow-up jobs are interchangeable, and so are the handlers.
Symmetry == Permutations(Handlers) \cup Permutations({j2, j3})
=============================================================================
