-------------------------- MODULE MCTaskLifecycle --------------------------
(***************************************************************************)
(* Small instances of TaskLifecycle.                                       *)
(***************************************************************************)
EXTENDS TaskLifecycle, TLC

CONSTANTS a, b, readme, p, q

\* a and b link to each other and the README cites both.
Mutual == (a :> {b}) @@ (b :> {a}) @@ (readme :> {a, b})

\* The same links with no other file in the repository.
MutualTasks == (a :> {b}) @@ (b :> {a})

\* Two invocations of the CLI are interchangeable.
ProcSymmetry == Permutations(Procs)
=============================================================================
