---------------------------- MODULE MCWorkspace ----------------------------
(***************************************************************************)
(* Small instances of Workspace.                                           *)
(***************************************************************************)
EXTENDS Workspace

At(rev, other) == [b \in Branches |-> IF b = "main" THEN rev ELSE other]

\* HEAD names main, with feature beside it at another revision: both without a
\* commit, loose or packed.  The bounds leave the rest to Commit, Checkout and Pack.
TwoBranches ==
  [branch : {"main"}, detached : {0}, loose : {At(0, 0), At(1, 2)}, packed : {At(0, 0)}]
    \cup [branch : {"main"}, detached : {0}, loose : {At(0, 0)}, packed : {At(1, 2)}]
=============================================================================
