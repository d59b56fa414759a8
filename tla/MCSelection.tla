----------------------------- MODULE MCSelection -----------------------------
EXTENDS Selection

\* Four bytes of a file and seven of content: a file of six bytes is cut by the
\* per-file limit, and the third file meets the budget.
MCDefaultLimits == [items |-> 2, file |-> 4, total |-> 7]

NoOverrides == [items |-> 0, file |-> 0, total |-> 0]

MCOverrides ==
  {NoOverrides, [NoOverrides EXCEPT !.items = 1], [NoOverrides EXCEPT !.file = 3],
   [NoOverrides EXCEPT !.total = 3], [NoOverrides EXCEPT !.items = 3],
   [NoOverrides EXCEPT !.total = -1]}

Plain == [named |-> "task_match", evidence |-> "none", indexable |-> FALSE,
          relevance |-> 1, added |-> 0, penalty |-> 0, place |-> "in",
          fault |-> "none", size |-> 3, rune |-> 1, secretAt |-> 0, go |-> FALSE,
          skeleton |-> 0, provides |-> {}, refers |-> {}]

Unnamed == [Plain EXCEPT !.named = "none", !.relevance = 0]

Go == [Plain EXCEPT !.indexable = TRUE, !.go = TRUE, !.skeleton = 2]

\* What only its text answers.
Declares == [Go EXCEPT !.named = "none", !.evidence = "symbol_match",
                       !.relevance = 0, !.added = 1]

MCFileKinds ==
  {Plain,
   [Plain EXCEPT !.named = "selection_rule", !.size = 6, !.rune = 2],
   [Unnamed EXCEPT !.evidence = "title_match", !.indexable = TRUE, !.added = 1,
                   !.size = 6, !.secretAt = 6],
   [Unnamed EXCEPT !.place = "git_ignored"],
   [Plain EXCEPT !.named = "repository_instruction", !.fault = "sensitive_path"],
   [Plain EXCEPT !.place = "config_excluded"],
   [Plain EXCEPT !.fault = "io_error"],
   [Go EXCEPT !.size = 1, !.skeleton = 1, !.refers = {"i"}],
   [Declares EXCEPT !.size = 6, !.skeleton = 5, !.added = 2, !.provides = {"i"}],
   [Go EXCEPT !.evidence = "symbol_match", !.added = 1, !.size = 6],
   [Declares EXCEPT !.size = 6, !.secretAt = 6],
   [Go EXCEPT !.named = "none", !.size = 2, !.provides = {"i"}],
   [Go EXCEPT !.named = "none", !.size = 1, !.secretAt = 1, !.provides = {"i"}]}
=============================================================================
