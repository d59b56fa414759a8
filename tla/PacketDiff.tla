----------------------------- MODULE PacketDiff -----------------------------
(***************************************************************************)
(* What `struktly diff` says of two context packets, as operators.  A      *)
(* packet holds its items by path (a selection emits every path once);     *)
(* `rest` stands for what its hash covers and the diff does not compare:   *)
(* the request, the guidance, the suggested files.                         *)
(***************************************************************************)
EXTENDS Integers, FiniteSets

\* Packets are as Brief builds them: `repository` and `limits` are records of the
\* fields DiffPackets names, `items` a function from paths to records of the
\* fields diffItems compares, `checks` a set, `decisions` a set of
\* [path, reason, detail].

\* `f` has the fields of `g`.
Fields(f, g) == f = [x \in DOMAIN g |-> f[x]]

\* Two packets as Brief builds them.
Comparable(before, after) ==
  /\ Fields(after.repository, before.repository) /\ Fields(after.limits, before.limits)
  /\ IsFiniteSet(DOMAIN before.items)
  /\ \A p \in DOMAIN before.items \cap DOMAIN after.items : Fields(after.items[p], before.items[p])

\* The hash covers every field, the seeds apart, and is as good as what it is
\* computed from.
PacketHash(packet) == packet

diffFields(before, after) ==
  LET moved == {f \in DOMAIN before : before[f] # after[f]} IN
  [f \in moved |-> [before |-> before[f], after |-> after[f]]]

\* Content is left out: a diff discloses nothing that either packet would not.
summarizeItem(item) == item.reason

\* Mutant: only the items of the second packet are gone through.
ItemsOfAfter(before, after) ==
  LET moved == {p \in DOMAIN before \cap DOMAIN after : before[p] # after[p]} IN
  [added     |-> [p \in DOMAIN after \ DOMAIN before |-> summarizeItem(after[p])],
   removed   |-> [p \in {} |-> summarizeItem(before[p])],
   changed   |-> [p \in moved |-> diffFields(before[p], after[p])],
   unchanged |-> Cardinality(DOMAIN before \ moved)]

diffItems(before, after) ==
  LET both == DOMAIN before \cap DOMAIN after
      moved == {p \in both : before[p] # after[p]}
  IN [added     |-> [p \in DOMAIN after \ DOMAIN before |-> summarizeItem(after[p])],
      removed   |-> [p \in DOMAIN before \ DOMAIN after |-> summarizeItem(before[p])],
      changed   |-> [p \in moved |-> diffFields(before[p], after[p])],
      unchanged |-> Cardinality(both \ moved)]

diffStringSet(before, after) == [added |-> after \ before, removed |-> before \ after]

\* A decision is known by its path and its reason: a changed detail is not shown.
Key(decision) == <<decision.path, decision.reason>>

diffDecisions(before, after) ==
  [added   |-> {d \in after : \A e \in before : Key(e) # Key(d)},
   removed |-> {d \in before : \A e \in after : Key(e) # Key(d)}]

DiffPackets(before, after) ==
  [identical  |-> PacketHash(before) = PacketHash(after),
   repository |-> diffFields(before.repository, after.repository),
   limits     |-> diffFields(before.limits, after.limits),
   items      |-> diffItems(before.items, after.items),
   checks     |-> diffStringSet(before.checks, after.checks),
   decisions  |-> diffDecisions(before.decisions, after.decisions)]

-----------------------------------------------------------------------------
(* What a reader may conclude from a diff. *)

\* The record `before` with the changes of a diff made to it.
Moved(before, changes) ==
  [f \in DOMAIN before |-> IF f \in DOMAIN changes THEN changes[f].after ELSE before[f]]

\* Every path of either packet is in one of the four parts, with its changes.
ItemsExact(before, after, items) ==
  LET kept == DOMAIN before \cap DOMAIN after IN
  /\ (DOMAIN before \ DOMAIN items.removed) \cup DOMAIN items.added = DOMAIN after
  /\ DOMAIN items.changed \subseteq kept
  /\ \A p \in kept : after[p] = IF p \in DOMAIN items.changed
                                THEN Moved(before[p], items.changed[p]) ELSE before[p]
  /\ items.unchanged = Cardinality(kept) - Cardinality(DOMAIN items.changed)

Keys(decisions) == {Key(e) : e \in decisions}

\* The diff `d` leads from one packet to the other.
Exact(before, after, d) ==
  /\ Moved(before.repository, d.repository) = after.repository
  /\ Moved(before.limits, d.limits) = after.limits
  /\ ItemsExact(before.items, after.items, d.items)
  /\ (before.checks \ d.checks.removed) \cup d.checks.added = after.checks
  /\ (Keys(before.decisions) \ Keys(d.decisions.removed)) \cup Keys(d.decisions.added)
       = Keys(after.decisions)
=============================================================================
