--------------------------- MODULE MCJobLifecycle ---------------------------
(* Instances of JobLifecycle for TLC. *)
EXTENDS JobLifecycle, TLC

CONSTANTS j1, j2, main, e1, e2, t1, t2, clone, build

\* Every job is a run of the same repository and branch.
OneTarget == [j \in Jobs |-> main]

TaskSymmetry == Permutations(Tasks)
JobSymmetry == Permutations(Jobs)
Symmetry == Permutations(Tasks) \cup Permutations(Engines)

\* All variables but granted, a history no action reads: states that differ in
\* it alone have the same future.
Visible == <<job, steps, heard, issued, task, scan, stuck, silent>>
=============================================================================
